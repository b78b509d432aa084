------------------------- MODULE StreamServerLemmas -------------------------
(***************************************************************************)
(* The inductive invariant of StreamServer, of its bounds and of how far a *)
(* snapshot has come, and what the operators it is built from preserve: the *)
(* choice of a value, the entries it is sent as, and what delivering,      *)
(* refusing and sampling do to one client's entry.                         *)
(***************************************************************************)
EXTENDS StreamServer, TLAPS

-----------------------------------------------------------------------------
(* The inductive invariant.                                                *)

Keys == BOOLEAN \X {Source[p] : p \in Positions} \X (Positions \cup {0})

EntrySet ==
    [path : Paths, members : SUBSET MemberIds, update : Nat, size : 0 .. JsonCapacity,
     key : Keys, whole : BOOLEAN, too_large : BOOLEAN]

StateFields ==
    {"open", "allow_tx", "resync", "resync_again", "position", "value", "include_other_contexts",
     "last_output", "queued_since_sample", "last_drain", "output", "sent", "undrained"}

(* A client's entry: a cursor that has not started has no value within a   *)
(* position, and only a streaming client catches up.                       *)
StateOK(state) ==
    /\ DOMAIN state = StateFields
    /\ state.position \in Positions \cup {0}
    /\ state.value \in Nat
    /\ state.position = 0 => state.value = 0
    /\ state.last_output \in Nat
    /\ state.queued_since_sample \in 0 .. CounterMax
    /\ state.last_drain \in 0 .. ClockModulus - 1
    /\ state.output \in 0 .. QueueLimit
    /\ state.sent \in [Paths -> [MemberIds -> Nat]]
    /\ state.undrained \in Nat
    /\ state.resync_again => state.resync
    /\ state.resync => state.open /\ state.allow_tx

StoreOK ==
    /\ model \in [Positions -> 0 .. MaxUpdates + 1]
    /\ \A p \in Positions \ {ClockField} : model[p] <= updates
    /\ shape \in [Positions -> SUBSET MemberIds]
    /\ \A p \in Positions : shape[p] \subseteq Members(p) /\ shape[p] # {}
    /\ updates \in 0 .. MaxUpdates /\ expired \in 0 .. MaxUpdates
    /\ target_count \in 0 .. updates
    /\ \A p \in AisPositions : model[p] # 0 => target_count # 0
    /\ pending \in Seq(Fields \cup {AisField}) /\ Len(pending) <= QueueCapacity
    /\ lost \subseteq Positions

FrameOK(f) ==
    /\ DOMAIN f = {"key", "entries", "size"}
    /\ f.entries \in Seq(EntrySet)
    /\ f.size \in 0 .. JsonCapacity
    /\ f.entries = << >> => f.size = 0
    /\ \A k \in DOMAIN f.entries : f.entries[k].key = f.key

BuildOK ==
    /\ FrameOK(frame)
    /\ todo \in Seq(EntrySet)
    /\ targets \subseteq AisPositions
    /\ processed \in 0 .. MaxChangesPerTick

TrackingOK ==
    /\ DOMAIN tracking = {"start", "position", "value", "skip", "frame_start"}
    /\ tracking.start \in Positions \cup {0}
    /\ tracking.position \in Positions \cup {0}
    /\ tracking.value \in Nat /\ tracking.skip \in Nat
    /\ tracking.frame_start \in (Positions \cup {0}) \X Nat

(* What a callback in progress leaves alone.                               *)
PhaseOK ==
    /\ phase \in {"idle", "pending", "pump"}
    /\ phase # "pending" => targets = {}
    /\ phase # "pump" => sink = NoClient /\ to_pump = {}
    /\ phase # "pending" /\ sink = NoClient => frame = NoFrame /\ todo = << >>
    /\ sink # NoClient => sink \in to_pump
    /\ to_pump \subseteq Clients /\ sink \in Clients \cup {NoClient}
    /\ \A c \in to_pump : client[c].resync
    /\ now \in 0 .. ClockModulus - 1

BoundsInv ==
    /\ StoreOK /\ BuildOK /\ TrackingOK /\ PhaseOK
    /\ DOMAIN client = Clients
    /\ \A c \in Clients : StateOK(client[c])

(* Position v of field p comes no later than position w of field q.        *)
NotAfter(p, v, q, w) == p < q \/ (p = q /\ v <= w)

(* The snapshot being written starts at the client's cursor, skips what    *)
(* was delivered of its first position, and a delta being built begins     *)
(* between that cursor and the value to be added next.                     *)
CursorInv ==
    sink # NoClient =>
        LET state == client[sink]
        IN  /\ tracking.start = IF state.position = 0 THEN 1 ELSE state.position
            /\ tracking.position = 0 =>
                  /\ tracking.value = 0 /\ tracking.skip = state.value
                  /\ todo = << >> /\ frame.entries = << >>
            /\ tracking.position # 0 => tracking.position >= tracking.start
            /\ tracking.position = tracking.start => tracking.value + tracking.skip >= state.value
            /\ tracking.position > tracking.start => tracking.skip = 0
            /\ tracking.skip > 0 => frame.entries = << >>
            /\ tracking.skip > 0 => tracking.value + tracking.skip = state.value
            /\ frame.entries # << >> =>
                  /\ tracking.frame_start[1] \in Positions
                  /\ NotAfter(state.position, state.value,
                              tracking.frame_start[1], tracking.frame_start[2])
                  /\ NotAfter(tracking.frame_start[1], tracking.frame_start[2],
                              tracking.position, tracking.value)

StreamInv == BoundsInv /\ CursorInv

-----------------------------------------------------------------------------
(* Least and greatest elements, and the order of the members of a value.   *)

(* What is used of the library's theorems on finite sets.  It is a         *)
(* hypothesis of the lemmas; SetFactsHold, in StreamDeliveryProofs, proves *)
(* it.                                                                     *)
SetFacts ==
    /\ \A S \in SUBSET Nat : S # {} => \E x \in S : \A y \in S : x <= y
    /\ \A n \in Nat : IsFiniteSet(1 .. n)
    /\ \A S : IsFiniteSet(S) => Cardinality(S) \in Nat /\ (Cardinality(S) = 0 <=> S = {})
    /\ \A S : IsFiniteSet(S) => \A T \in SUBSET S :
          /\ IsFiniteSet(T) /\ Cardinality(T) <= Cardinality(S)
          /\ Cardinality(S) = Cardinality(T) => S = T
    /\ \A S, x : IsFiniteSet(S) /\ x \notin S => Cardinality(S \cup {x}) = Cardinality(S) + 1

(* The numbers as the library's theorems speak of them.                    *)
LEMMA NotLess ==
    /\ \A x \in Nat, y \in Nat : ~ (y < x) => x <= y
    /\ \A x \in Nat, y \in Nat :
          <<y, x>> \in {ss \in Nat \X Nat : ss[1] < ss[2]} <=> y < x
OBVIOUS

(* Natural numbers are integers.                                           *)
LEMMA NaturalsAreIntegers == 1 \in Int /\ \A n \in Nat : n \in Int
OBVIOUS

(* A nonempty set of numbers has a least element, which Min finds.         *)
LEMMA LeastElement ==
    ASSUME SetFacts, NEW S \in SUBSET Nat, S # {}
    PROVE  Min(S) \in S /\ \A y \in S : Min(S) <= y
<1>1. PICK x \in S : \A y \in S : x <= y
  BY Zenon DEF SetFacts
<1> QED
  BY <1>1, Zenon DEF Min

(* A nonempty bounded set of numbers has a greatest element, which Max     *)
(* finds.                                                                  *)
LEMMA GreatestElement ==
    ASSUME SetFacts, NEW n \in Nat, NEW S \in SUBSET (0 .. n), S # {}
    PROVE  Max(S) \in S /\ \A y \in S : y <= Max(S)
<1> DEFINE T == {n - x : x \in S}
<1>1. T \in SUBSET Nat /\ T # {}
  <2>1. \A x \in S : n - x \in Nat
   OBVIOUS
  <2> QED BY <2>1, Zenon
<1>2. PICK t \in T : \A y \in T : t <= y
  BY <1>1, LeastElement, Zenon
<1>3. PICK x \in S : t = n - x
  BY Zenon
<1>4. \A y \in S : x >= y
  BY <1>2, <1>3
<1> QED
  BY <1>4, Zenon DEF Max

(* The lesser of two bounds, as the batch size and the counters take it.   *)
LEMMA LesserOfTwo ==
    ASSUME SetFacts, NEW a \in Nat, NEW b \in Nat
    PROVE  Min({a, b}) \in Nat /\ Min({a, b}) <= a /\ Min({a, b}) <= b
<1>1. {a, b} \in SUBSET Nat /\ {a, b} # {}
  BY Zenon
<1> QED
  BY <1>1, LeastElement, Zenon

(* The members of a value are finitely many, and so is any part of them.   *)
LEMMA FiniteMembers ==
    ASSUME SetFacts, NEW n \in Nat, NEW S \in SUBSET (1 .. n), NEW T \in SUBSET S
    PROVE  /\ IsFiniteSet(S) /\ Cardinality(S) \in Nat
           /\ IsFiniteSet(T) /\ Cardinality(T) \in Nat /\ Cardinality(T) <= Cardinality(S)
           /\ Cardinality(S) = Cardinality(T) => S = T
           /\ Cardinality(T) = 0 <=> T = {}
<1>1. IsFiniteSet(S)
  BY Zenon DEF SetFacts
<1>2. /\ IsFiniteSet(T) /\ Cardinality(T) <= Cardinality(S)
      /\ Cardinality(S) = Cardinality(T) => S = T
  BY <1>1, Zenon DEF SetFacts
<1> QED
  BY <1>1, <1>2, Zenon DEF SetFacts

(* Every place in the order of the members is taken by one of them: the    *)
(* k-th entry of a value that is sent in parts is well defined.            *)
LEMMA MemberInPlace ==
    ASSUME SetFacts, NEW n \in Nat, NEW S \in SUBSET (1 .. n), NEW k \in 1 .. Cardinality(S)
    PROVE  \E i \in S : Rank(S, i) = k
<1> DEFINE Upto(x) == {j \in S : j <= x}
           T == {x \in 0 .. n : Cardinality(Upto(x)) >= k}
<1>1. \A j \in S : j \in Nat /\ 1 <= j /\ j <= n
  OBVIOUS
<1>2. IsFiniteSet(S)
  BY FiniteMembers, Zenon
<1>3. \A x : IsFiniteSet(Upto(x)) /\ Cardinality(Upto(x)) \in Nat
  <2>1. \A U \in SUBSET S : IsFiniteSet(U) /\ Cardinality(U) \in Nat
    BY FiniteMembers, Zenon
  <2>2. \A x : Upto(x) \in SUBSET S
    BY Zenon
  <2> HIDE DEF Upto
  <2> QED
    BY <2>1, <2>2, Zenon
<1>4. Cardinality(S) \in Nat
  BY FiniteMembers, Zenon
<1>5. Upto(n) = S
  BY <1>1, Zenon
<1>6. n \in T
  BY <1>5, <1>4
<1>7. T \in SUBSET Nat /\ T # {}
  <2>1. \A x \in 0 .. n : x \in Nat
    OBVIOUS
  <2> QED
    BY <1>6, <2>1, Zenon
<1>8. PICK x \in T : \A y \in T : x <= y
  BY <1>7, LeastElement, Zenon
<1>9. x \in 0 .. n /\ Cardinality(Upto(x)) >= k
  OBVIOUS
<1>10. x # 0
  <2>1. \A j \in S : ~ (j <= 0)
    BY <1>1
  <2>2. Upto(0) = {}
    BY <2>1, Zenon
  <2> HIDE DEF Upto
  <2> QED
    <3>1. Cardinality({}) = 0
      BY FiniteMembers, Zenon
    <3> QED
      BY <2>2, <3>1, <1>4, <1>9
<1>11. x - 1 \in 0 .. n /\ ~ (Cardinality(Upto(x - 1)) >= k)
  <2>1. x - 1 \in 0 .. n /\ x - 1 < x
    BY <1>10, <1>9
  <2>2. x - 1 \in T => x <= x - 1
    BY <1>8, Zenon
  <2> QED
    BY <2>1, <2>2, <1>9
<1>12. \A j \in S : (j <= x) <=> (j <= x - 1 \/ j = x)
  BY <1>1, <1>9
<1>13. ~(x <= x - 1)
  BY <1>9
<1>14. x \in S
  <2> SUFFICES ASSUME x \notin S PROVE FALSE
    OBVIOUS
  <2>1. Upto(x) = Upto(x - 1)
    BY <1>12, Zenon
  <2> HIDE DEF Upto
  <2> QED
    BY <2>1, <1>11, <1>9
<1>15. Upto(x) = Upto(x - 1) \cup {x} /\ x \notin Upto(x - 1)
  BY <1>12, <1>14, <1>13, Zenon
<1>16. Cardinality(Upto(x)) = Cardinality(Upto(x - 1)) + 1
  <2> HIDE DEF Upto
  <2> QED
    BY <1>3, <1>15, Zenon DEF SetFacts
<1>17. Cardinality(Upto(x)) = k
  <2> HIDE DEF Upto
  <2> QED
    BY <1>3, <1>9, <1>11, <1>16, <1>4
<1> QED
  BY <1>14, <1>17, Zenon DEF Rank

(* A member's place is one of those there are.                             *)
LEMMA RankInRange ==
    ASSUME SetFacts, NEW n \in Nat, NEW S \in SUBSET (1 .. n), NEW i \in S
    PROVE  Rank(S, i) \in 1 .. Cardinality(S) /\ Cardinality(S) \in Nat
<1> DEFINE U == {j \in S : j <= i}
<1>1. U \in SUBSET S /\ i \in U
  OBVIOUS
<1>2. /\ Cardinality(U) \in Nat /\ Cardinality(U) <= Cardinality(S) /\ Cardinality(S) \in Nat
      /\ Cardinality(U) # 0
  <2> HIDE DEF U
  <2> QED
    BY <1>1, FiniteMembers, Zenon
<1> QED
  BY <1>2 DEF Rank

(* No two members of a value have the same place.                          *)
LEMMA RankInjective ==
    ASSUME SetFacts, NEW n \in Nat, NEW S \in SUBSET (1 .. n), NEW i \in S, NEW j \in S,
           Rank(S, i) = Rank(S, j)
    PROVE  i = j
<1> DEFINE U(x) == {y \in S : y <= x}
<1>1. \A x \in S : U(x) \in SUBSET S /\ x \in U(x) /\ x \in Nat
  OBVIOUS
<1>2. \A x \in S, y \in S :
         U(x) \in SUBSET U(y) /\ Cardinality(U(y)) = Cardinality(U(x)) => U(x) = U(y)
  <2> TAKE x \in S, y \in S
  <2>1. U(y) \in SUBSET (1 .. n)
    BY Zenon
  <2> HIDE DEF U
  <2> QED
    BY <2>1, FiniteMembers, Zenon
<1>3. Cardinality(U(i)) = Cardinality(U(j))
  BY DEF Rank
<1>4. CASE i <= j
  <2>1. U(i) \in SUBSET U(j)
    <3>1. \A y \in S : y <= i => y <= j
      BY <1>1, <1>4
    <3> QED
      BY <3>1, Zenon
  <2>2. U(i) = U(j)
    <3> HIDE DEF U
    <3> QED
      BY <1>2, <1>3, <2>1, Zenon
  <2>3. j <= i
    BY <1>1, <2>2
  <2> QED
    BY <1>1, <1>4, <2>3
<1>5. CASE j <= i
  <2>1. U(j) \in SUBSET U(i)
    <3>1. \A y \in S : y <= j => y <= i
      BY <1>1, <1>5
    <3> QED
      BY <3>1, Zenon
  <2>2. U(j) = U(i)
    <3> HIDE DEF U
    <3> QED
      BY <1>2, <1>3, <2>1, Zenon
  <2>3. i <= j
    BY <1>1, <2>2
  <2> QED
    BY <1>1, <1>5, <2>3
<1> QED
  BY <1>1, <1>4, <1>5

(* The members of a value can be counted.                                  *)
LEMMA MembersCounted ==
    ASSUME SetFacts, NEW n \in Nat, NEW S \in SUBSET (1 .. n)
    PROVE  Cardinality(S) \in Nat
BY FiniteMembers, Zenon

-----------------------------------------------------------------------------
(* The entries of a value.                                                 *)

(* The positions of a snapshot are counted from 1.                         *)
LEMMA PositionsAreNumbers ==
    Positions \in SUBSET (Nat \ {0}) /\ ClockField \in Positions /\ 0 \notin Positions
BY PublisherAssumption, StreamAssumption DEF Positions, Fields, AisPositions

(* A cursor that has not started is at 0.                                  *)
LEMMA PlacesAreNumbers ==
    /\ \A p \in Positions \cup {0} : p \in Nat
    /\ \A x \in (Positions \cup {0}) \X Nat : x[1] \in Nat /\ x[2] \in Nat
<1>1. \A p \in Positions : p \in Nat
  BY PositionsAreNumbers, Zenon
<1>2. \A p \in Positions \cup {0} : p \in Nat
  BY <1>1
<1>3. ASSUME NEW x \in (Positions \cup {0}) \X Nat PROVE x[1] \in Nat /\ x[2] \in Nat
  BY <1>2, Zenon
<1> QED
  BY <1>2, <1>3, Zenon

ModelSet == [Positions -> 0 .. MaxUpdates + 1]

(* A mapped value's time stamp is one of those of its fields.              *)
LEMMA LastUpdateOfField ==
    ASSUME SetFacts, NEW m \in ModelSet, NEW p \in Positions
    PROVE  /\ LastUpdate(m, p) \in 0 .. MaxUpdates + 1
           /\ m[p] <= LastUpdate(m, p)
<1> DEFINE S == {m[q] : q \in Siblings(p)}
<1>1. MaxUpdates + 1 \in Nat
  BY StreamAssumption
<1>2. S \in SUBSET (0 .. MaxUpdates + 1) /\ m[p] \in S
  BY Zenon DEF ModelSet, Siblings
<1>3. Max(S) \in S /\ \A y \in S : y <= Max(S)
  BY <1>1, <1>2, GreatestElement, Zenon
<1> HIDE DEF S
<1>4. Max(S) \in 0 .. MaxUpdates + 1 /\ m[p] <= Max(S)
  BY <1>2, <1>3, Zenon
<1>5. m[p] \in 0 .. MaxUpdates + 1
  BY Zenon DEF ModelSet
<1> QED
  BY <1>4, <1>5, StreamAssumption DEF LastUpdate, S

(* An entry that fits an empty delta is well formed.                       *)
LEMMA EntryOK ==
    ASSUME SetFacts, NEW m \in ModelSet, NEW p \in Positions, NEW members \in SUBSET MemberIds,
           NEW size \in 0 .. JsonCapacity, NEW whole \in BOOLEAN, NEW too_large \in BOOLEAN
    PROVE  Entry(m, p, members, size, whole, too_large) \in EntrySet
<1>1. LastUpdate(m, p) \in Nat
  BY LastUpdateOfField, StreamAssumption
<1>2. Path[p] \in Paths
  BY Zenon DEF Paths
<1>3. <<p \in AisPositions, Source[p], IF p \in AisPositions THEN p ELSE 0>> \in Keys
  <2> DEFINE B == {Source[q] : q \in Positions}
             C == Positions \cup {0}
  <2>1. (p \in AisPositions) \in BOOLEAN
    OBVIOUS
  <2>2. Source[p] \in B
    BY Zenon
  <2>3. (IF p \in AisPositions THEN p ELSE 0) \in C
    BY Zenon
  <2> HIDE DEF B, C
  <2>4. \A a \in BOOLEAN, b \in B, c \in C : <<a, b, c>> \in BOOLEAN \X B \X C
    BY Zenon
  <2> QED
    BY <2>1, <2>2, <2>3, <2>4, Zenon DEF Keys, B, C
<1> QED
  BY <1>1, <1>2, <1>3, Zenon DEF Entry, EntrySet

(* The entries a value is sent as fit an empty delta one by one.           *)
LEMMA EntriesOK ==
    ASSUME SetFacts, StoreOK, NEW p \in Positions
    PROVE  Entries(model, shape, p) \in Seq(EntrySet)
<1> DEFINE S == shape[p]
           Nth(k) == CHOOSE j \in S : Rank(S, j) = k
           E(k) == Entry(model, p, {Nth(k)}, Size[p][{Nth(k)}], FALSE, p \in Fields /\ k = 1)
<1>1. /\ S \in SUBSET (1 .. MemberCount[p]) /\ MemberCount[p] \in Nat
      /\ S \in SUBSET MemberIds /\ model \in ModelSet
  BY PublisherAssumption, Zenon DEF StoreOK, Members, ModelSet
<1>2. Cardinality(S) \in Nat
  BY <1>1, MembersCounted, Zenon
<1>3. CASE Whole(shape, p)
  <2>1. Size[p][S] \in 0 .. JsonCapacity
    BY <1>1, <1>3, PublisherAssumption DEF Whole, Members
  <2>2. Entry(model, p, S, Size[p][S], TRUE, FALSE) \in EntrySet
    BY <1>1, <2>1, EntryOK, Zenon
  <2>3. \A e \in EntrySet : <<e>> \in Seq(EntrySet)
    OBVIOUS
  <2>4. Entries(model, shape, p) = <<Entry(model, p, S, Size[p][S], TRUE, FALSE)>>
    BY <1>3, Zenon DEF Entries
  <2> QED
    BY <2>2, <2>3, <2>4, Zenon
<1>4. CASE ~Whole(shape, p)
  <2>1. ASSUME NEW k \in 1 .. Cardinality(S) PROVE E(k) \in EntrySet
    <3>1. Nth(k) \in S
      BY <1>1, MemberInPlace, Zenon
    <3> HIDE DEF Nth
    <3>2. {Nth(k)} \in SUBSET MemberIds /\ Nth(k) \in Members(p)
      BY <3>1, <1>1, Zenon DEF Members
    <3>3. Size[p][{Nth(k)}] \in 0 .. JsonCapacity
      BY <3>2, PublisherAssumption
    <3>4. (p \in Fields /\ k = 1) \in BOOLEAN
      BY Zenon
    <3> QED
      BY <1>1, <3>2, <3>3, <3>4, EntryOK, Zenon
  <2>2. Entries(model, shape, p) = [k \in 1 .. Cardinality(S) |-> E(k)]
    BY <1>4, Zenon DEF Entries
  <2> HIDE DEF E, S
  <2> QED
    BY <1>2, <2>1, <2>2
<1> QED
  BY <1>3, <1>4, Zenon

-----------------------------------------------------------------------------
(* What the operations on one client's entry change.                       *)

SameStream(s, t) ==
    /\ t.open = s.open /\ t.allow_tx = s.allow_tx
    /\ t.include_other_contexts = s.include_other_contexts

SameCatchUp(s, t) ==
    /\ t.resync = s.resync /\ t.resync_again = s.resync_again
    /\ t.position = s.position /\ t.value = s.value

SameSample(s, t) ==
    /\ t.last_output = s.last_output /\ t.queued_since_sample = s.queued_since_sample
    /\ t.last_drain = s.last_drain

SameOutput(s, t) == t.output = s.output /\ t.sent = s.sent /\ t.undrained = s.undrained

(* What an entry holds.                                                    *)
LEMMA EntryTypes ==
    ASSUME NEW entries \in Seq(EntrySet), NEW k \in DOMAIN entries
    PROVE  /\ entries[k] \in EntrySet
           /\ entries[k].path \in Paths /\ entries[k].members \subseteq MemberIds
           /\ entries[k].update \in Nat /\ entries[k].size \in 0 .. JsonCapacity
<1>1. entries[k] \in EntrySet
  OBVIOUS
<1> QED
  BY <1>1, Zenon DEF EntrySet

(* After a delta a client has of each member the last entry for it.        *)
LEMMA ApplyEntry ==
    ASSUME SetFacts, NEW sent, NEW entries \in Seq(EntrySet), NEW path \in Paths,
           NEW i \in DOMAIN sent[path]
    PROVE  \/ /\ \A k \in DOMAIN entries : ~ (entries[k].path = path /\ i \in entries[k].members)
              /\ Apply(sent, entries)[path][i] = sent[path][i]
           \/ \E k \in DOMAIN entries :
                 /\ entries[k].path = path /\ i \in entries[k].members
                 /\ Apply(sent, entries)[path][i] = entries[k].update
<1> DEFINE hits == {k \in DOMAIN entries : entries[k].path = path /\ i \in entries[k].members}
<1>1. Apply(sent, entries)[path][i] = IF hits = {} THEN sent[path][i] ELSE entries[Max(hits)].update
  BY Zenon DEF Apply
<1>2. Len(entries) \in Nat /\ hits \in SUBSET (0 .. Len(entries))
  OBVIOUS
<1>3. hits # {} => Max(hits) \in hits
  BY <1>2, GreatestElement, Zenon
<1> HIDE DEF hits
<1>4. CASE hits = {}
  BY <1>1, <1>4, Zenon DEF hits
<1>5. CASE hits # {}
  BY <1>1, <1>3, <1>5, Zenon DEF hits
<1> QED
  BY <1>4, <1>5, Zenon

(* What a client has read is a number for each member of each path.        *)
LEMMA ApplyOK ==
    ASSUME SetFacts, NEW sent \in [Paths -> [MemberIds -> Nat]], NEW entries \in Seq(EntrySet)
    PROVE  Apply(sent, entries) \in [Paths -> [MemberIds -> Nat]]
<1>1. ASSUME NEW path \in Paths, NEW i \in MemberIds
      PROVE  Apply(sent, entries)[path][i] \in Nat
  <2>1. i \in DOMAIN sent[path] /\ sent[path][i] \in Nat
    BY Zenon
  <2>2. \A k \in DOMAIN entries : entries[k].update \in Nat
    BY EntryTypes, Zenon
  <2> QED
    <3>1. \/ Apply(sent, entries)[path][i] = sent[path][i]
          \/ \E k \in DOMAIN entries : Apply(sent, entries)[path][i] = entries[k].update
      BY <2>1, ApplyEntry
    <3> QED
      BY <2>1, <2>2, <3>1, Zenon
<1>2. /\ DOMAIN Apply(sent, entries) = Paths
      /\ \A path \in Paths : DOMAIN Apply(sent, entries)[path] = MemberIds
      /\ Apply(sent, entries) = [path \in Paths |-> Apply(sent, entries)[path]]
      /\ \A path \in Paths : Apply(sent, entries)[path] =
                                [i \in MemberIds |-> Apply(sent, entries)[path][i]]
  BY Zenon DEF Apply
<1> QED
  BY <1>1, <1>2, Zenon

(* What delivering a delta changes of a client's entry.                    *)
LEMMA DeliveredState ==
    ASSUME NEW s, DOMAIN s = StateFields, NEW f
    PROVE  LET t == Delivered(s, f)
           IN  /\ DOMAIN t = StateFields
               /\ SameStream(s, t) /\ SameCatchUp(s, t)
               /\ t.last_output = s.last_output /\ t.last_drain = s.last_drain
               /\ t.undrained = s.undrained
               /\ t.output = s.output + Bytes(f)
               /\ t.queued_since_sample = Min({s.queued_since_sample + Bytes(f), CounterMax})
               /\ t.sent = Apply(s.sent, f.entries)
BY Zenon DEF Delivered, StateFields, SameStream, SameCatchUp

(* What request_resync() changes.                                          *)
LEMMA RequestResyncState ==
    ASSUME NEW s, DOMAIN s = StateFields
    PROVE  LET t == RequestResync(s)
           IN  /\ DOMAIN t = StateFields
               /\ SameStream(s, t) /\ SameSample(s, t) /\ SameOutput(s, t)
               /\ t.resync
               /\ s.resync => t.resync_again /\ t.position = s.position /\ t.value = s.value
               /\ ~s.resync => ~t.resync_again /\ t.position = 0 /\ t.value = 0
<1>1. CASE s.resync
  BY <1>1, Zenon DEF RequestResync, StateFields, SameStream, SameSample, SameOutput
<1>2. CASE ~s.resync
  BY <1>2, Zenon DEF RequestResync, StateFields, SameStream, SameSample, SameOutput
<1> QED
  BY <1>1, <1>2, Zenon

(* What forgetting the stream state changes.                               *)
LEMMA UnsynchronisedState ==
    ASSUME NEW s, DOMAIN s = StateFields
    PROVE  LET t == Unsynchronised(s)
           IN  /\ DOMAIN t = StateFields
               /\ t.open = s.open /\ t.allow_tx = s.allow_tx /\ t.include_other_contexts
               /\ SameOutput(s, t)
               /\ ~t.resync /\ ~t.resync_again /\ t.position = 0 /\ t.value = 0
               /\ t.last_output = 0 /\ t.queued_since_sample = 0 /\ t.last_drain = 0
BY Zenon DEF Unsynchronised, StateFields, SameOutput

(* What the end of a snapshot changes.                                     *)
LEMMA CompletedState ==
    ASSUME NEW s, DOMAIN s = StateFields
    PROVE  LET t == Completed(s)
           IN  /\ DOMAIN t = StateFields
               /\ SameStream(s, t) /\ SameSample(s, t) /\ SameOutput(s, t)
               /\ t.position = 0 /\ t.value = 0
               /\ t.resync = s.resync_again /\ ~t.resync_again
BY Zenon DEF Completed, StateFields, SameStream, SameSample, SameOutput

(* What a look of the stall detection changes.                             *)
LEMMA SampledState ==
    ASSUME NEW s, DOMAIN s = StateFields
    PROVE  LET t == Sampled(s)
           IN  /\ DOMAIN t = StateFields
               /\ SameStream(s, t) /\ SameCatchUp(s, t) /\ SameOutput(s, t)
               /\ t.last_drain \in {now, s.last_drain}
               /\ t.last_output = s.output /\ t.queued_since_sample = 0
BY Zenon DEF Sampled, StateFields, SameStream, SameCatchUp, SameOutput

-----------------------------------------------------------------------------
(* A client's entry stays in order.                                        *)

(* The entry of a connection that is closed is well formed.                *)
LEMMA DisconnectedOK == StateOK(Disconnected) /\ ~Disconnected.resync /\ Disconnected.position = 0
<1>1. NothingSent \in [Paths -> [MemberIds -> Nat]]
  BY Zenon DEF NothingSent
<1>2. 0 \in 0 .. ClockModulus - 1 /\ 0 \in 0 .. CounterMax /\ 0 \in 0 .. QueueLimit
  BY StreamAssumption
<1> QED
  BY <1>1, <1>2, Zenon DEF Disconnected, StateOK, StateFields

(* A frame that was filled within the buffer.                              *)
Fitting(f) == f.entries \in Seq(EntrySet) /\ f.size \in 0 .. JsonCapacity

(* A delta that fits keeps the client within its output limit.             *)
LEMMA DeliveredOK ==
    ASSUME SetFacts, NEW s, StateOK(s), NEW f, Fitting(f), Fits(s, f)
    PROVE  StateOK(Delivered(s, f))
<1> DEFINE t == Delivered(s, f)
<1>1. /\ DOMAIN t = StateFields
      /\ SameStream(s, t) /\ SameCatchUp(s, t)
      /\ t.last_output = s.last_output /\ t.last_drain = s.last_drain
      /\ t.undrained = s.undrained
      /\ t.output = s.output + Bytes(f)
      /\ t.queued_since_sample = Min({s.queued_since_sample + Bytes(f), CounterMax})
      /\ t.sent = Apply(s.sent, f.entries)
  BY DeliveredState, Zenon DEF StateOK
<1> HIDE DEF t
<1>2. Bytes(f) \in Nat
  BY StreamAssumption, PublisherAssumption DEF Bytes, Fitting
<1>3. t.output \in 0 .. QueueLimit
  BY <1>1, <1>2, StreamAssumption DEF Fits, StateOK
<1>4. t.queued_since_sample \in 0 .. CounterMax
  <2>1. s.queued_since_sample + Bytes(f) \in Nat /\ CounterMax \in Nat
    BY <1>2, StreamAssumption DEF StateOK
  <2> QED
    BY <1>1, <2>1, LesserOfTwo
<1>5. t.sent \in [Paths -> [MemberIds -> Nat]]
  BY <1>1, ApplyOK DEF StateOK, Fitting
<1>6. StateOK(t)
  BY <1>1, <1>3, <1>4, <1>5, Zenon DEF StateOK, SameStream, SameCatchUp
<1> QED
  BY <1>6, Zenon DEF t

(* request_resync() keeps a streaming client's entry well formed.          *)
LEMMA RequestResyncOK ==
    ASSUME NEW s, StateOK(s), s.open, s.allow_tx
    PROVE  StateOK(RequestResync(s))
<1> DEFINE t == RequestResync(s)
<1>1. /\ DOMAIN t = StateFields
      /\ SameStream(s, t) /\ SameSample(s, t) /\ SameOutput(s, t)
      /\ t.resync
      /\ s.resync => t.resync_again /\ t.position = s.position /\ t.value = s.value
      /\ ~s.resync => ~t.resync_again /\ t.position = 0 /\ t.value = 0
  BY RequestResyncState, Zenon DEF StateOK
<1> HIDE DEF t
<1>2. StateOK(t)
  BY <1>1 DEF StateOK, SameStream, SameSample, SameOutput
<1> QED
  BY <1>2, Zenon DEF t

(* So does the end of a snapshot.                                          *)
LEMMA CompletedOK ==
    ASSUME NEW s, StateOK(s)
    PROVE  StateOK(Completed(s))
<1> DEFINE t == Completed(s)
<1>1. /\ DOMAIN t = StateFields
      /\ SameStream(s, t) /\ SameSample(s, t) /\ SameOutput(s, t)
      /\ t.position = 0 /\ t.value = 0
      /\ t.resync = s.resync_again /\ ~t.resync_again
  BY CompletedState, Zenon DEF StateOK
<1> HIDE DEF t
<1>2. StateOK(t)
  BY <1>1 DEF StateOK, SameStream, SameSample, SameOutput
<1> QED
  BY <1>2, Zenon DEF t

(* So does the stall detection.                                            *)
LEMMA SampledOK ==
    ASSUME NEW s, StateOK(s), now \in 0 .. ClockModulus - 1
    PROVE  StateOK(Sampled(s))
<1> DEFINE t == Sampled(s)
<1>1. /\ DOMAIN t = StateFields
      /\ SameStream(s, t) /\ SameCatchUp(s, t) /\ SameOutput(s, t)
      /\ t.last_drain \in {now, s.last_drain}
      /\ t.last_output = s.output /\ t.queued_since_sample = 0
  BY SampledState, Zenon DEF StateOK
<1> HIDE DEF t
<1>2. StateOK(t)
  BY <1>1, StreamAssumption DEF StateOK, SameStream, SameCatchUp, SameOutput
<1> QED
  BY <1>2, Zenon DEF t

(* What write_signal_k_delta leaves of a client: its entry is in order, it *)
(* catches up if it did or if the delta did not fit, and its cursor is     *)
(* where it was or back at the beginning.                                  *)
LEMMA FanOutOK ==
    ASSUME SetFacts, DOMAIN client = Clients, \A c \in Clients : StateOK(client[c]), NEW f, Fitting(f)
    PROVE  /\ DOMAIN FanOut(f) = Clients
           /\ \A c \in Clients :
                 LET t == FanOut(f)[c]
                 IN  /\ StateOK(t) /\ SameStream(client[c], t)
                     /\ client[c].resync => t.resync
                     /\ \/ t.position = client[c].position /\ t.value = client[c].value
                        \/ t.position = 0
<1>1. DOMAIN FanOut(f) = Clients
  BY Zenon DEF FanOut
<1>2. ASSUME NEW c \in Clients
      PROVE  LET t == FanOut(f)[c]
             IN  /\ StateOK(t) /\ SameStream(client[c], t)
                 /\ client[c].resync => t.resync
                 /\ \/ t.position = client[c].position /\ t.value = client[c].value
                    \/ t.position = 0
  <2> DEFINE s == client[c]
             t == FanOut(f)[c]
  <2>1. t = IF ~Streaming(c) THEN s ELSE IF Fits(s, f) THEN Delivered(s, f) ELSE RequestResync(s)
    BY Zenon DEF FanOut
  <2>2. StateOK(s) /\ DOMAIN s = StateFields
    BY Zenon DEF StateOK
  <2>3. CASE ~Streaming(c)
    BY <2>1, <2>2, <2>3, Zenon DEF SameStream
  <2>4. CASE Streaming(c) /\ Fits(s, f)
    <3>1. StateOK(t) /\ SameStream(s, t) /\ SameCatchUp(s, t)
      BY <2>1, <2>2, <2>4, DeliveredOK, DeliveredState, Zenon
    <3> QED
      BY <3>1, Zenon DEF SameCatchUp
  <2>5. CASE Streaming(c) /\ ~Fits(s, f)
    <3>1. s.open /\ s.allow_tx /\ t = RequestResync(s)
      BY <2>1, <2>5, Zenon DEF Streaming
    <3>2. StateOK(t)
      BY <2>2, <3>1, RequestResyncOK, Zenon
    <3> HIDE DEF t
    <3>3. /\ SameStream(s, t) /\ t.resync
          /\ s.resync => t.position = s.position /\ t.value = s.value
          /\ ~s.resync => t.position = 0
      BY <2>2, <3>1, RequestResyncState, Zenon
    <3> QED
      BY <3>2, <3>3, Zenon DEF t
  <2> QED
    BY <2>3, <2>4, <2>5, Zenon
<1> QED
  BY <1>1, <1>2, Zenon

(* What CursorAdvances says of one step.                                   *)
CursorStep ==
    \A c \in Clients :
        client[c].position # 0 /\ client'[c].position # 0 =>
            NotAfter(client[c].position, client[c].value, client'[c].position, client'[c].value)

SameCursor(s, t) == t.position = s.position /\ t.value = s.value

(* A cursor that stays where it is or is reset does not go back.           *)
LEMMA KeptOrReset ==
    ASSUME \A c \in Clients : StateOK(client[c]),
           \A c \in Clients : SameCursor(client[c], client'[c]) \/ client'[c].position = 0
    PROVE  CursorStep
BY DEF CursorStep, SameCursor, NotAfter, StateOK

(* One client's entry is replaced.                                         *)
LEMMA OneClient ==
    ASSUME DOMAIN client = Clients, \A d \in Clients : StateOK(client[d]),
           NEW c \in Clients, NEW t, StateOK(t), client' = [client EXCEPT ![c] = t]
    PROVE  /\ DOMAIN client' = Clients /\ \A d \in Clients : StateOK(client'[d])
           /\ client'[c] = t /\ \A d \in Clients \ {c} : client'[d] = client[d]
           /\ SameCursor(client[c], t) \/ t.position = 0 => CursorStep
<1>1. /\ DOMAIN client' = Clients
      /\ client'[c] = t /\ \A d \in Clients \ {c} : client'[d] = client[d]
  BY Zenon
<1>2. \A d \in Clients : StateOK(client'[d])
  BY <1>1, Zenon
<1>3. ASSUME SameCursor(client[c], t) \/ t.position = 0 PROVE CursorStep
  BY <1>1, <1>3, KeptOrReset, Zenon DEF SameCursor
<1> QED
  BY <1>1, <1>2, <1>3, Zenon

-----------------------------------------------------------------------------
(* What several steps of the server have in common.                        *)

(* What a step of publish_current for one client starts from.              *)
LEMMA Pumping ==
    ASSUME StreamInv, phase = "pump", todo # << >> \/ sink # NoClient
    PROVE  /\ sink \in Clients /\ sink # NoClient /\ sink \in to_pump /\ StateOK(client[sink])
           /\ client[sink].resync
<1>1. sink # NoClient
  BY Zenon DEF StreamInv, BoundsInv, PhaseOK
<1> QED
  BY <1>1, Zenon DEF StreamInv, BoundsInv, PhaseOK

(* Between callbacks no snapshot is being written.                         *)
LEMMA EventIdle ==
    ASSUME StreamInv, phase = "idle"
    PROVE  /\ sink = NoClient /\ to_pump = {} /\ now \in 0 .. ClockModulus - 1
           /\ StoreOK /\ DOMAIN client = Clients /\ \A c \in Clients : StateOK(client[c])
BY Zenon DEF StreamInv, BoundsInv, PhaseOK

(* Update and MarkOnly mark a field that has a place in the model.         *)
LEMMA MarkedField ==
    ASSUME NEW p \in Positions
    PROVE  (IF p \in AisPositions THEN AisField ELSE p) \in Fields \cup {AisField}
BY Zenon DEF Positions

(* A client that asked for no cached values goes without values the model  *)
(* has.                                                                    *)
LEMMA WaivedValue ==
    ASSUME SetFacts, StoreOK, NEW path \in Paths, NEW i \in MemberIds
    PROVE  \E p \in Positions : Path[p] = path /\ Waived[path][i] = LastUpdate(model, p)
<1> DEFINE S == {LastUpdate(model, p) : p \in {q \in Positions : Path[q] = path}}
<1>1. MaxUpdates + 1 \in Nat
  BY StreamAssumption
<1>2. S \in SUBSET (0 .. MaxUpdates + 1)
  BY LastUpdateOfField, Zenon DEF StoreOK, ModelSet
<1>3. S # {}
  BY Zenon DEF Paths
<1>4. Max(S) \in S
  BY <1>1, <1>2, <1>3, GreatestElement, Zenon
<1>5. Waived[path][i] = Max(S)
  BY Zenon DEF Waived, NothingSent
<1> QED
  BY <1>4, <1>5, Zenon

(* start_stream() leaves the client at the beginning of a catch-up.        *)
LEMMA StartedState ==
    ASSUME NEW s, StateOK(s), s.open, s.allow_tx, now \in 0 .. ClockModulus - 1,
           NEW other \in BOOLEAN, NEW t,
           t = RequestResync([Unsynchronised(s) EXCEPT !.include_other_contexts = other,
                                                       !.last_drain = now])
    PROVE  /\ StateOK(t) /\ t.open /\ t.allow_tx /\ t.include_other_contexts = other
           /\ t.resync /\ ~t.resync_again /\ t.position = 0 /\ t.value = 0
           /\ SameOutput(s, t)
<1>1. PICK u : u = Unsynchronised(s)
  BY Zenon
<1>2. /\ DOMAIN u = StateFields
      /\ u.open = s.open /\ u.allow_tx = s.allow_tx /\ u.include_other_contexts
      /\ SameOutput(s, u)
      /\ ~u.resync /\ ~u.resync_again /\ u.position = 0 /\ u.value = 0
      /\ u.last_output = 0 /\ u.queued_since_sample = 0 /\ u.last_drain = 0
  BY <1>1, UnsynchronisedState, Zenon DEF StateOK
<1>3. PICK v : v = [u EXCEPT !.include_other_contexts = other, !.last_drain = now]
  BY Zenon
<1>4. /\ DOMAIN v = StateFields
      /\ v.open = u.open /\ v.allow_tx = u.allow_tx /\ v.include_other_contexts = other
      /\ SameOutput(u, v) /\ SameCatchUp(u, v)
      /\ v.last_output = u.last_output /\ v.queued_since_sample = u.queued_since_sample
      /\ v.last_drain = now
  BY <1>2, <1>3, Zenon DEF StateFields, SameOutput, SameCatchUp
<1>5. 0 \in 0 .. CounterMax
  BY StreamAssumption
<1>6. StateOK(v) /\ v.open /\ v.allow_tx /\ ~v.resync
  BY <1>2, <1>4, <1>5 DEF StateOK, SameOutput, SameCatchUp
<1>7. t = RequestResync(v)
  BY <1>1, <1>3, Zenon
<1>8. StateOK(t)
  BY <1>6, <1>7, RequestResyncOK, Zenon
<1>9. /\ SameStream(v, t) /\ SameOutput(v, t) /\ t.resync /\ ~t.resync_again
      /\ t.position = 0 /\ t.value = 0
  BY <1>4, <1>6, <1>7, RequestResyncState, Zenon
<1> QED
  BY <1>2, <1>4, <1>6, <1>8, <1>9, ZenonT(30) DEF SameStream, SameOutput

(* A delta of one entry fits the buffer.                                   *)
LEMMA OneEntry ==
    ASSUME NEW e \in EntrySet, NEW f, f = AddEntry(NoFrame, e)
    PROVE  Fitting(f) /\ f.entries = <<e>>
<1>1. f.entries = <<e>> /\ f.size = 0 + e.size
  BY DEF AddEntry, NoFrame
<1>2. e.size \in 0 .. JsonCapacity /\ JsonCapacity \in Nat
  BY PublisherAssumption, Zenon DEF EntrySet
<1>3. <<e>> \in Seq(EntrySet)
  OBVIOUS
<1> QED
  BY <1>1, <1>2, <1>3 DEF Fitting

(* The delta of the server clock is well formed.                           *)
LEMMA ClockDelta ==
    ASSUME SetFacts, StoreOK, NEW clock, NEW f, f = AddEntry(NoFrame, clock),
           clock = Entry(ServerClockModel, ClockField, {1}, Size[ClockField][{1}], TRUE, FALSE)
    PROVE  clock \in EntrySet /\ Fitting(f) /\ f.entries = <<clock>>
<1>1. ServerClockModel \in ModelSet
  <2>1. MaxUpdates + 1 \in 0 .. MaxUpdates + 1
    BY StreamAssumption
  <2> QED
    BY <2>1, Zenon DEF StoreOK, ServerClockModel, ModelSet
<1>2. /\ ClockField \in Positions /\ {1} \in SUBSET MemberIds
      /\ Size[ClockField][{1}] \in 0 .. JsonCapacity
  <2>1. ClockField \in Positions
    BY PositionsAreNumbers, Zenon
  <2>2. 1 \in Members(ClockField)
    BY <2>1, PublisherAssumption DEF Members
  <2> QED
    BY <2>1, <2>2, PublisherAssumption DEF MemberIds
<1>3. clock \in EntrySet
  BY <1>1, <1>2, EntryOK, Zenon
<1> QED
  BY <1>3, OneEntry, Zenon

=============================================================================
