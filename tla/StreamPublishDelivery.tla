----------------------- MODULE StreamPublishDelivery ------------------------
(***************************************************************************)
(* What publish_pending and pump_one deliver: the invariant that no value  *)
(* is lost on a client and that none goes back, and that every step of the *)
(* two keeps it.                                                           *)
(***************************************************************************)
EXTENDS StreamServerLemmas

-----------------------------------------------------------------------------
(* What the clients have been sent.                                        *)

(* The positions that do not share their path with an alternate field: the *)
(* path is theirs alone, or belongs to an object they are all part of,     *)
(* which is small enough to be sent in one piece.                          *)
Unshared ==
    {p \in Positions :
        \/ Siblings(p) = {p}
        \/ /\ Path[p] \in Joint /\ ClockField \notin Siblings(p)
           /\ \A q \in Siblings(p) : MemberCount[q] = 1}

-----------------------------------------------------------------------------
(* The inductive invariant.                                                *)

(* The entry of position p that brings member i, counted from 0 as the     *)
(* cursor counts, and whether a snapshot at the cursor has yet to come to  *)
(* it.                                                                     *)
Index(h, p, i) == IF Whole(h, p) THEN 0 ELSE Rank(h[p], i) - 1

Ahead(h, position, value, p, i) == position < p \/ (position = p /\ value <= Index(h, p, i))

Covers(entries, p, i) ==
    \E k \in DOMAIN entries : entries[k].path = Path[p] /\ i \in entries[k].members

(* A client has the current value, or a catch-up will come to it.          *)
Has(s, m, p, i) == s.sent[Path[p]][i] = LastUpdate(m, p)

Owed(s, h, p, i) == s.resync /\ (s.resync_again \/ Ahead(h, s.position, s.value, p, i))

Served(s, m, h, p, i) == Has(s, m, p, i) \/ Owed(s, h, p, i)

(* What was put in a delta is still current: the model does not change     *)
(* while one is built.                                                     *)
Current(e, m) == \A q \in Unshared : Path[q] = e.path => e.update = LastUpdate(m, q)

CurrentInv ==
    /\ \A k \in DOMAIN frame.entries : Current(frame.entries[k], model)
    /\ \A k \in DOMAIN todo : Current(todo[k], model)

(* No client was sent anything newer than the model.                       *)
SentInv ==
    \A c \in Clients, p \in Unshared, i \in MemberIds :
        client[c].sent[Path[p]][i] <= LastUpdate(model, p)

(* publish_pending has yet to send the value.                              *)
Underway(p, i) ==
    phase = "pending" /\ (Covers(frame.entries, p, i) \/ Covers(todo, p, i) \/ p \in targets)

KeptInv ==
    \A c \in Clients : Streaming(c) =>
        \A p \in Unshared \ lost : Visible(c, p) =>
            \A i \in shape[p] :
                Served(client[c], model, shape, p, i) \/ ChangePending(p) \/ Underway(p, i)

(* The value publish_pending need not repeat has been sent or will be.     *)
RepeatInv ==
    /\ phase # "pending" => last_path = NoPath
    /\ phase = "pending" =>
        \A c \in Clients : Streaming(c) =>
            \A p \in Unshared : Path[p] = last_path =>
                \A i \in shape[p] :
                    \/ Served(client[c], model, shape, p, i)
                    \/ Covers(frame.entries, p, i) \/ Covers(todo, p, i)

(* The snapshot's tracking counts the entries of a position.               *)
SuffixInv ==
    sink # NoClient /\ tracking.position # 0 =>
        LET entries == Entries(model, shape, tracking.position)
        IN  /\ Len(entries) = tracking.value + Len(todo)
            /\ \A k \in DOMAIN todo : todo[k] = entries[tracking.value + k]

(* Between the client's cursor and the snapshot's, every value was sent or *)
(* is in the delta being built.                                            *)
Reached(p, i) ==
    \/ Has(client[sink], model, p, i)
    \/ /\ Covers(frame.entries, p, i)
       /\ Ahead(shape, tracking.frame_start[1], tracking.frame_start[2], p, i)

SnapshotInv ==
    sink # NoClient /\ tracking.position # 0 =>
        \A p \in Unshared : Visible(sink, p) =>
            \A i \in shape[p] :
                /\ Ahead(shape, client[sink].position, client[sink].value, p, i)
                /\ ~Ahead(shape, tracking.position, tracking.value, p, i)
                => Reached(p, i)

(* NoLostUpdate for the positions that do not share their path with an     *)
(* alternate.                                                              *)
NoUnsharedLost ==
    phase = "idle" =>
        \A c \in Clients : Streaming(c) =>
            \A p \in Unshared \ lost : Visible(c, p) =>
                \A i \in shape[p] :
                    \/ UpToDate(c, p, i)
                    \/ ChangePending(p)
                    \/ client[c].resync /\ (client[c].resync_again \/ SnapshotAhead(c, p, i))

(* NeverBackwards for their paths.                                         *)
UnsharedNeverBackwards ==
    [][\A c \in Clients : client[c].open /\ client'[c].open =>
          \A p \in Unshared, i \in MemberIds :
              client'[c].sent[Path[p]][i] >= client[c].sent[Path[p]][i]]_vars

DeliveryInv == CurrentInv /\ SentInv /\ KeptInv /\ RepeatInv /\ SuffixInv /\ SnapshotInv

-----------------------------------------------------------------------------
(* The fields of one path.                                                 *)

(* The fields of an object are recorded, and complete, together.           *)
LEMMA UnsharedSibling ==
    ASSUME NEW p \in Unshared, NEW q \in Positions, Path[q] = Path[p]
    PROVE  /\ p \in Positions /\ q \in Unshared
           /\ q = p \/ (Path[p] \in Joint /\ MemberCount[p] = 1 /\ MemberCount[q] = 1)
           /\ Siblings(q) = Siblings(p)
           /\ \A m : LastUpdate(m, q) = LastUpdate(m, p)
           /\ \A m : Mapped(m, q) <=> Mapped(m, p)
<1>1. p \in Positions /\ q \in Siblings(p) /\ p \in Siblings(p)
  BY Zenon DEF Unshared, Siblings
<1>2. Siblings(q) = Siblings(p)
  BY Zenon DEF Siblings
<1>3. q = p \/ (Path[p] \in Joint /\ MemberCount[p] = 1 /\ MemberCount[q] = 1)
  BY <1>1, Zenon DEF Unshared
<1>4. q \in Unshared
  <2>1. CASE q = p
    BY <2>1, Zenon
  <2>2. CASE q # p
    <3>1. Siblings(p) # {p}
      BY <1>1, <2>2, Zenon
    <3> QED
      BY <1>2, <3>1, Zenon DEF Unshared
  <2> QED
    BY <2>1, <2>2, Zenon
<1>5. \A m : LastUpdate(m, q) = LastUpdate(m, p)
  BY <1>2, <1>3, Zenon DEF LastUpdate
<1>6. \A m : Mapped(m, q) <=> Mapped(m, p)
  BY <1>2, <1>3, Zenon DEF Mapped
<1> QED
  BY <1>1, <1>2, <1>3, <1>4, <1>5, <1>6, Zenon

(* The time stamp and the selection of a value depend on the fields of its *)
(* path alone.                                                             *)
LEMMA SamePath ==
    ASSUME NEW p \in Unshared, NEW m, NEW n, NEW x, \A q \in Siblings(p) : m[q] = n[q]
    PROVE  /\ LastUpdate(m, p) = LastUpdate(n, p)
           /\ Selected(m, x, p) <=> Selected(n, x, p)
<1>1. {m[q] : q \in Siblings(p)} = {n[q] : q \in Siblings(p)}
  BY Zenon
<1>2. p \in Siblings(p)
  BY Zenon DEF Siblings, Unshared
<1>3. LastUpdate(m, p) = LastUpdate(n, p)
  BY <1>1, <1>2, Zenon DEF LastUpdate
<1>4. Mapped(m, p) <=> Mapped(n, p)
  BY <1>2, Zenon DEF Mapped
<1>5. ASSUME NEW q \in Siblings(p)
      PROVE  /\ LastUpdate(m, q) = LastUpdate(n, q) /\ (Mapped(m, q) <=> Mapped(n, q))
             /\ CurrentValue(m, x, q) <=> CurrentValue(n, x, q)
  <2>1. q \in Positions /\ Path[q] = Path[p]
    BY Zenon DEF Siblings
  <2>2. /\ LastUpdate(m, q) = LastUpdate(m, p) /\ LastUpdate(n, q) = LastUpdate(n, p)
        /\ (Mapped(m, q) <=> Mapped(m, p)) /\ (Mapped(n, q) <=> Mapped(n, p))
    BY <2>1, UnsharedSibling, Zenon
  <2> QED
    BY <1>3, <1>4, <2>2, Zenon DEF CurrentValue
<1> QED
  BY <1>2, <1>3, <1>5, Zenon DEF Selected

(* A value that time has not made stale was not stale before.              *)
LEMMA StillSelected ==
    ASSUME SetFacts, NEW m \in ModelSet, NEW x \in Nat, NEW y \in Nat, x <= y, NEW p \in Unshared,
           Selected(m, y, p)
    PROVE  Selected(m, x, p)
<1>1. p \in Positions /\ p \in Siblings(p)
  BY Zenon DEF Unshared, Siblings
<1>2. LastUpdate(m, p) \in Nat
  BY <1>1, LastUpdateOfField, StreamAssumption
<1>3. CurrentValue(m, y, p) /\ CurrentValue(m, x, p)
  BY <1>2 DEF Selected, CurrentValue
<1>4. ASSUME NEW q \in Siblings(p) \ {p}
      PROVE  LastUpdate(m, q) < LastUpdate(m, p) \/ (LastUpdate(m, q) = LastUpdate(m, p) /\ p < q)
  <2>1. q \in Positions /\ Path[q] = Path[p]
    BY Zenon DEF Siblings
  <2>2. LastUpdate(m, q) = LastUpdate(m, p) /\ (Mapped(m, q) <=> Mapped(m, p))
    BY <2>1, UnsharedSibling, Zenon
  <2>3. CurrentValue(m, y, q)
    BY <1>3, <2>2, Zenon DEF CurrentValue
  <2> QED
    BY <2>3, Zenon DEF Selected
<1> QED
  BY <1>3, <1>4, Zenon DEF Selected

(* Newer fields make no value older.                                       *)
LEMMA LastUpdateMonotone ==
    ASSUME SetFacts, NEW m \in ModelSet, NEW n \in ModelSet, \A q \in Positions : m[q] <= n[q],
           NEW p \in Positions
    PROVE  LastUpdate(m, p) <= LastUpdate(n, p)
<1> DEFINE S == {m[q] : q \in Siblings(p)}
           T == {n[q] : q \in Siblings(p)}
<1>1. MaxUpdates + 1 \in Nat
  BY StreamAssumption
<1>2. S \in SUBSET (0 .. MaxUpdates + 1) /\ T \in SUBSET (0 .. MaxUpdates + 1)
      /\ m[p] \in S /\ n[p] \in T
  BY Zenon DEF ModelSet, Siblings
<1>3. Max(S) \in S /\ \A y \in T : y <= Max(T)
  BY <1>1, <1>2, GreatestElement, Zenon
<1>4. PICK q \in Siblings(p) : Max(S) = m[q]
  BY <1>3, Zenon
<1>5. q \in Positions /\ n[q] \in T
  BY Zenon DEF Siblings
<1>6. Max(T) \in T
  BY <1>1, <1>2, GreatestElement, Zenon
<1>7. /\ m[q] <= n[q] /\ n[q] <= Max(T) /\ m[p] <= n[p]
      /\ m[q] \in Nat /\ n[q] \in Nat /\ Max(T) \in Nat
  <2>1. Max(T) \in 0 .. MaxUpdates + 1 /\ n[q] <= Max(T)
    <3> HIDE DEF T
    <3> QED
      BY <1>2, <1>3, <1>5, <1>6, Zenon
  <2> QED
    BY <1>5, <2>1, StreamAssumption DEF ModelSet
<1> HIDE DEF S, T
<1>8. Max(S) <= Max(T)
  BY <1>4, <1>7
<1> QED
  BY <1>7, <1>8, Zenon DEF LastUpdate, S, T

-----------------------------------------------------------------------------
(* The entries a value is sent as.                                         *)

(* Every entry of a value has its path and its time stamp, and each member *)
(* is in the entry the cursor counts it at.                                *)
LEMMA EntriesOfValue ==
    ASSUME SetFacts, StoreOK, NEW p \in Positions, NEW es, es = Entries(model, shape, p)
    PROVE  /\ es \in Seq(EntrySet) /\ Len(es) \in Nat
           /\ \A k \in 1 .. Len(es) : es[k].path = Path[p] /\ es[k].update = LastUpdate(model, p)
           /\ \A i \in shape[p] : /\ Index(shape, p, i) \in Nat
                                  /\ Index(shape, p, i) + 1 \in 1 .. Len(es)
                                  /\ i \in es[Index(shape, p, i) + 1].members
<1> DEFINE S == shape[p]
           Nth(k) == CHOOSE j \in S : Rank(S, j) = k
           E(k) == Entry(model, p, {Nth(k)}, Size[p][{Nth(k)}], FALSE, p \in Fields /\ k = 1)
<1>1. es \in Seq(EntrySet)
  BY EntriesOK, Zenon
<1>2. S \in SUBSET (1 .. MemberCount[p]) /\ MemberCount[p] \in Nat
  BY PublisherAssumption, Zenon DEF StoreOK, Members
<1>3. CASE Whole(shape, p)
  <2>1. es = <<Entry(model, p, S, Size[p][S], TRUE, FALSE)>>
    BY <1>3, Zenon DEF Entries
  <2>2. PICK e : e = Entry(model, p, S, Size[p][S], TRUE, FALSE)
    BY Zenon
  <2>3. e.path = Path[p] /\ e.update = LastUpdate(model, p) /\ e.members = S
    BY <2>2, Zenon DEF Entry
  <2>4. es = <<e>>
    BY <2>1, <2>2, Zenon
  <2>5. Len(es) = 1 /\ es[1] = e
    BY <2>4
  <2>6. \A i \in S : Index(shape, p, i) = 0
    BY <1>3, Zenon DEF Index
  <2> QED
    BY <1>1, <2>3, <2>5, <2>6
<1>4. CASE ~Whole(shape, p)
  <2>1. es = [k \in 1 .. Cardinality(S) |-> E(k)]
    BY <1>4, Zenon DEF Entries
  <2>2. Cardinality(S) \in Nat
    BY <1>2, MembersCounted, Zenon
  <2>3. Len(es) = Cardinality(S)
    <3> HIDE DEF E, S
    <3> QED
      BY <2>1, <2>2
  <2>4. \A k : /\ E(k).path = Path[p] /\ E(k).update = LastUpdate(model, p)
               /\ E(k).members = {Nth(k)}
    <3> HIDE DEF Nth
    <3> QED
      BY Zenon DEF Entry
  <2>5. \A k \in 1 .. Len(es) : es[k] = E(k)
    <3> HIDE DEF E, S
    <3> QED
      BY <2>1, <2>3, Zenon
  <2>6. ASSUME NEW i \in S
        PROVE  /\ Index(shape, p, i) \in Nat
               /\ Index(shape, p, i) + 1 \in 1 .. Len(es)
               /\ i \in es[Index(shape, p, i) + 1].members
    <3>1. Rank(S, i) \in 1 .. Cardinality(S)
      BY <1>2, RankInRange, Zenon
    <3>2. Index(shape, p, i) + 1 = Rank(S, i) /\ Index(shape, p, i) \in Nat
      BY <1>4, <2>2, <3>1 DEF Index
    <3>3. Nth(Rank(S, i)) \in S /\ Rank(S, Nth(Rank(S, i))) = Rank(S, i)
      BY Zenon
    <3>4. Nth(Rank(S, i)) = i
      <4> HIDE DEF Nth
      <4> QED
        BY <1>2, <3>3, RankInjective, Zenon
    <3>5. es[Rank(S, i)] = E(Rank(S, i))
      BY <2>3, <2>5, <3>1, Zenon
    <3>6. es[Rank(S, i)].members = {i}
      BY <2>4, <3>4, <3>5, Zenon
    <3> QED
      BY <2>3, <3>1, <3>2, <3>6, Zenon
  <2> HIDE DEF E, S
  <2>7. \A k \in 1 .. Len(es) : es[k].path = Path[p] /\ es[k].update = LastUpdate(model, p)
    BY <2>4, <2>5, Zenon
  <2> QED
    BY <1>1, <2>2, <2>3, <2>6, <2>7, Zenon DEF S
<1> QED
  BY <1>3, <1>4, Zenon

(* The entries of a value carry its latest update.                         *)
LEMMA EntriesCurrent ==
    ASSUME SetFacts, StoreOK, NEW p \in Positions, NEW es, es = Entries(model, shape, p)
    PROVE  \A k \in DOMAIN es : Current(es[k], model)
<1>1. \A k \in DOMAIN es : es[k].path = Path[p] /\ es[k].update = LastUpdate(model, p)
  BY EntriesOfValue
<1>2. \A q \in Unshared : Path[q] = Path[p] => LastUpdate(model, p) = LastUpdate(model, q)
  BY UnsharedSibling, Zenon
<1> QED
  BY <1>1, <1>2, Zenon DEF Current

(* The entries of any field of an object bring the object.                 *)
LEMMA EntriesCover ==
    ASSUME SetFacts, StoreOK, NEW p \in Positions, NEW q \in Unshared, Path[q] = Path[p], NEW i \in shape[q],
           NEW es, es = Entries(model, shape, p)
    PROVE  Covers(es, q, i)
<1>1. i \in shape[p]
  <2>1. q = p \/ (MemberCount[q] = 1 /\ MemberCount[p] = 1)
    BY UnsharedSibling, Zenon
  <2>2. q \in Positions /\ shape[q] \subseteq Members(q)
    BY Zenon DEF Unshared, StoreOK
  <2>3. shape[p] \subseteq Members(p) /\ shape[p] # {}
    BY Zenon DEF StoreOK
  <2>4. CASE q = p
    BY <2>4, Zenon
  <2>5. CASE MemberCount[q] = 1 /\ MemberCount[p] = 1
    <3>1. Members(q) = {1} /\ Members(p) = {1}
      BY <2>5 DEF Members
    <3> QED
      BY <2>2, <2>3, <3>1, Zenon
  <2> QED
    BY <2>1, <2>4, <2>5, Zenon
<1>2. PICK k \in 1 .. Len(es) : i \in es[k].members
  BY <1>1, EntriesOfValue, Zenon
<1>3. es[k].path = Path[p] /\ es \in Seq(EntrySet)
  BY <1>2, EntriesOfValue, Zenon
<1> QED
  BY <1>2, <1>3 DEF Covers

-----------------------------------------------------------------------------
(* What a delta leaves a client with.                                      *)

(* A client that reads a delta has the current values it holds.            *)
LEMMA ApplyCurrent ==
    ASSUME SetFacts, NEW s, StateOK(s), NEW entries \in Seq(EntrySet), NEW m,
           \A k \in DOMAIN entries : Current(entries[k], m),
           NEW p \in Unshared, NEW i \in MemberIds, NEW a, a = Apply(s.sent, entries)[Path[p]][i]
    PROVE  /\ a = s.sent[Path[p]][i] \/ a = LastUpdate(m, p)
           /\ Covers(entries, p, i) => a = LastUpdate(m, p)
<1>1. Path[p] \in Paths /\ i \in DOMAIN s.sent[Path[p]]
  BY Zenon DEF Paths, Unshared, StateOK
<1>2. \A k \in DOMAIN entries : entries[k].path = Path[p] => entries[k].update = LastUpdate(m, p)
  BY Zenon DEF Current
<1>3. \/ /\ \A k \in DOMAIN entries : ~ (entries[k].path = Path[p] /\ i \in entries[k].members)
         /\ a = s.sent[Path[p]][i]
      \/ \E k \in DOMAIN entries :
            /\ entries[k].path = Path[p] /\ i \in entries[k].members
            /\ a = entries[k].update
  BY <1>1, ApplyEntry
<1> QED
  BY <1>2, <1>3, Zenon DEF Covers

(* A client that takes a delta is served what the delta covers.            *)
LEMMA DeliveredServes ==
    ASSUME SetFacts, NEW s, StateOK(s), NEW f, Fitting(f), NEW m, NEW h,
           \A k \in DOMAIN f.entries : Current(f.entries[k], m),
           NEW p \in Unshared, NEW i \in MemberIds, NEW t, t = Delivered(s, f)
    PROVE  /\ Has(s, m, p, i) => Has(t, m, p, i)
           /\ Covers(f.entries, p, i) => Has(t, m, p, i)
           /\ Owed(s, h, p, i) => Owed(t, h, p, i)
           /\ t.sent[Path[p]][i] \in {s.sent[Path[p]][i], LastUpdate(m, p)}
<1>1. SameCatchUp(s, t) /\ t.sent = Apply(s.sent, f.entries)
  BY DeliveredState, Zenon DEF StateOK
<1>2. PICK a : a = Apply(s.sent, f.entries)[Path[p]][i]
  BY Zenon
<1>3. /\ a = s.sent[Path[p]][i] \/ a = LastUpdate(m, p)
      /\ Covers(f.entries, p, i) => a = LastUpdate(m, p)
  <2>1. PICK es : es = f.entries
    BY Zenon
  <2>2. es \in Seq(EntrySet) /\ \A k \in DOMAIN es : Current(es[k], m)
    BY <2>1, Zenon DEF Fitting
  <2>3. a = Apply(s.sent, es)[Path[p]][i]
    BY <1>2, <2>1, Zenon
  <2>4. /\ a = s.sent[Path[p]][i] \/ a = LastUpdate(m, p)
        /\ Covers(es, p, i) => a = LastUpdate(m, p)
    BY <2>2, <2>3, ApplyCurrent
  <2> QED
    BY <2>1, <2>4, Zenon
<1>4. t.sent[Path[p]][i] = a
  BY <1>1, <1>2, Zenon
<1> QED
  BY <1>1, <1>3, <1>4, Zenon DEF Has, Owed, SameCatchUp

(* A client that does not is caught up from the beginning.                 *)
LEMMA ResyncServes ==
    ASSUME NEW s, StateOK(s), NEW h, NEW p \in Positions, NEW i, NEW t, t = RequestResync(s)
    PROVE  Owed(t, h, p, i) /\ t.sent = s.sent
<1>1. /\ t.resync /\ SameOutput(s, t)
      /\ s.resync => t.resync_again
      /\ ~s.resync => t.position = 0
  BY RequestResyncState, Zenon DEF StateOK
<1>2. 0 < p
  BY PositionsAreNumbers
<1> QED
  BY <1>1, <1>2, Zenon DEF Owed, Ahead, SameOutput

(* The live delta leaves every streaming client served.                    *)
LEMMA FanOutServes ==
    ASSUME SetFacts, DOMAIN client = Clients, \A c \in Clients : StateOK(client[c]), NEW f, Fitting(f), NEW m,
           NEW h, \A k \in DOMAIN f.entries : Current(f.entries[k], m),
           NEW c \in Clients, NEW p \in Unshared, NEW i \in MemberIds, NEW t, t = FanOut(f)[c]
    PROVE  /\ Streaming(c) /\ (Served(client[c], m, h, p, i) \/ Covers(f.entries, p, i))
                 => Served(t, m, h, p, i)
           /\ t.sent[Path[p]][i] \in {client[c].sent[Path[p]][i], LastUpdate(m, p)}
<1>1. PICK s : s = client[c]
  BY Zenon
<1>2. StateOK(s)
  BY <1>1, Zenon
<1>3. t = IF ~Streaming(c) THEN s ELSE IF Fits(s, f) THEN Delivered(s, f) ELSE RequestResync(s)
  BY <1>1, Zenon DEF FanOut
<1>4. CASE ~Streaming(c)
  BY <1>1, <1>3, <1>4, Zenon
<1>5. CASE Streaming(c) /\ t = Delivered(s, f)
  <2>1. /\ Has(s, m, p, i) => Has(t, m, p, i)
        /\ Covers(f.entries, p, i) => Has(t, m, p, i)
        /\ Owed(s, h, p, i) => Owed(t, h, p, i)
        /\ t.sent[Path[p]][i] \in {s.sent[Path[p]][i], LastUpdate(m, p)}
    BY <1>2, <1>5, DeliveredServes, Zenon
  <2> QED
    BY <1>1, <2>1, Zenon DEF Served
<1>6. CASE Streaming(c) /\ t = RequestResync(s)
  <2>1. p \in Positions
    BY Zenon DEF Unshared
  <2>2. Owed(t, h, p, i) /\ t.sent = s.sent
    BY <1>2, <1>6, <2>1, ResyncServes
  <2> QED
    BY <1>1, <2>2, Zenon DEF Served
<1> QED
  BY <1>3, <1>4, <1>5, <1>6, ZenonT(30)

-----------------------------------------------------------------------------
(* The parts of a step.                                                    *)

(* What UnsharedNeverBackwards says of one step.                           *)
SentStep ==
    \A c \in Clients : client[c].open /\ client'[c].open =>
        \A p \in Unshared, i \in MemberIds :
            client'[c].sent[Path[p]][i] >= client[c].sent[Path[p]][i]

(* What a client was sent stays, or is the model's latest, or is forgotten *)
(* with the connection.                                                    *)
SentKept(c, p, i) ==
    \/ client'[c].sent[Path[p]][i] = client[c].sent[Path[p]][i]
    \/ client'[c].sent[Path[p]][i] = LastUpdate(model', p)
    \/ client'[c].sent[Path[p]][i] = 0 /\ ~ (client[c].open /\ client'[c].open)

(* No client is ahead of the model, and none goes back.                    *)
LEMMA SentStays ==
    ASSUME SetFacts, StreamInv, StreamInv', SentInv,
           \A q \in Positions : model[q] <= model'[q],
           \A c \in Clients, p \in Unshared, i \in MemberIds : SentKept(c, p, i)
    PROVE  SentInv' /\ SentStep
<1>1. ASSUME NEW c \in Clients, NEW p \in Unshared, NEW i \in MemberIds
      PROVE  /\ client'[c].sent[Path[p]][i] <= LastUpdate(model', p)
             /\ client[c].open /\ client'[c].open =>
                  client'[c].sent[Path[p]][i] >= client[c].sent[Path[p]][i]
  <2>1. PICK old, new, before, after :
           /\ old = client[c].sent[Path[p]][i] /\ new = client'[c].sent[Path[p]][i]
           /\ before = LastUpdate(model, p) /\ after = LastUpdate(model', p)
    BY Zenon
  <2>2. model \in ModelSet /\ model' \in ModelSet /\ p \in Positions
    BY Zenon DEF StreamInv, BoundsInv, StoreOK, ModelSet, Unshared
  <2>3. before \in Nat /\ after \in Nat
    BY <2>1, <2>2, LastUpdateOfField, StreamAssumption
  <2>4. before <= after
    BY <2>1, <2>2, LastUpdateMonotone, Zenon
  <2>5. old <= before
    BY <2>1, Zenon DEF SentInv
  <2>6. old \in Nat /\ new \in Nat
    <3>1. Path[p] \in Paths
      BY <2>2, Zenon DEF Paths
    <3>2. client[c].sent \in [Paths -> [MemberIds -> Nat]]
      BY Zenon DEF StreamInv, BoundsInv, StateOK
    <3>3. client'[c].sent \in [Paths -> [MemberIds -> Nat]]
      BY Zenon DEF StreamInv, BoundsInv, StateOK
    <3> QED
      BY <2>1, <3>1, <3>2, <3>3, Zenon
  <2>7. new = old \/ new = after \/ (new = 0 /\ ~ (client[c].open /\ client'[c].open))
    BY <2>1 DEF SentKept
  <2>8. new <= after /\ (client[c].open /\ client'[c].open => new >= old)
    BY <2>3, <2>4, <2>5, <2>6, <2>7
  <2> QED
    BY <2>1, <2>8, Zenon
<1>2. SentInv'
  BY <1>1, Zenon DEF SentInv
<1> QED
  BY <1>1, <1>2, Zenon DEF SentStep

(* A snapshot is past an entry with a smaller number.                      *)
LEMMA NotAhead ==
    ASSUME NEW h, NEW n \in Nat, NEW v \in Nat, NEW p, NEW i, NEW k \in Nat,
           p = n, Index(h, p, i) = k, k < v
    PROVE  ~Ahead(h, n, v, p, i)
BY DEF Ahead

(* A step that leaves the model alone makes nothing in it older.           *)
LEMMA SameModel ==
    ASSUME StreamInv, model' = model
    PROVE  \A q \in Positions : model[q] <= model'[q]
<1>1. StoreOK
  BY Zenon DEF StreamInv, BoundsInv
<1>2. \A q \in Positions : model[q] \in 0 .. MaxUpdates + 1
  BY <1>1, Zenon DEF StoreOK
<1> QED
  BY <1>2, StreamAssumption

(* A snapshot that has not started has yet to come to every position.      *)
LEMMA UnsharedPositive == \A p \in Unshared : 0 < p
BY PositionsAreNumbers DEF Unshared

(* A snapshot that starts earlier comes to whatever a later one comes to.  *)
LEMMA AheadEarlier ==
    ASSUME NEW h, NEW a \in Nat, NEW v \in Nat, NEW b \in Nat, NEW w \in Nat, NEW p \in Nat, NEW i,
           Index(h, p, i) \in Nat, NotAfter(a, v, b, w), Ahead(h, b, w, p, i)
    PROVE  Ahead(h, a, v, p, i)
BY DEF NotAfter, Ahead

(* Between two deltas nothing is being built.                              *)
LEMMA NothingBuilt ==
    ASSUME sink' = NoClient, frame' = NoFrame, todo' = << >>, last_path' = NoPath, SentInv', KeptInv'
    PROVE  DeliveryInv'
<1>1. frame'.entries = << >>
  BY Zenon DEF NoFrame
<1>2. CurrentInv'
  BY <1>1 DEF CurrentInv
<1>3. RepeatInv'
  BY StreamAssumption, Zenon DEF RepeatInv, Paths, Unshared
<1> QED
  BY <1>2, <1>3, Zenon DEF DeliveryInv, SuffixInv, SnapshotInv

(* What a client is entitled to depends on the model and on its scope.     *)
LEMMA SameVisible ==
    ASSUME UNCHANGED <<model, target_count, expired>>, NEW c \in Clients, NEW p,
           client'[c].include_other_contexts = client[c].include_other_contexts
    PROVE  Visible(c, p)' <=> Visible(c, p)
BY Zenon DEF Visible

-----------------------------------------------------------------------------
(* The change queue.                                                       *)

(* What a change in the queue stands for.                                  *)
StandsFor(g) ==
    IF g = AisField THEN AisPositions ELSE IF Path[g] \in Joint THEN Siblings(g) ELSE {g}

Marks(g, p) == g = p \/ (g = AisField /\ p \in AisPositions) \/ (Path[p] \in Joint /\ g \in Siblings(p))

(* publish_pending sends a value for each change that stands for it.       *)
LEMMA MarksStandFor ==
    ASSUME NEW g \in Fields \cup {AisField}, NEW p \in Positions
    PROVE  Marks(g, p) <=> p \in StandsFor(g)
<1>1. ASSUME Marks(g, p), g = AisField PROVE p \in AisPositions
  <2>1. g \notin Fields
    BY <1>1, StreamAssumption, Zenon
  <2>2. CASE g = p
    BY <2>1, <2>2, Zenon DEF Positions
  <2>3. CASE g \in Siblings(p)
    <3>1. g \in AisPositions /\ Path[g] = Path[p]
      BY <2>1, <2>3, Zenon DEF Positions, Siblings
    <3> QED
      BY <3>1, PublisherAssumption, Zenon
  <2> QED
    BY <1>1, <2>2, <2>3 DEF Marks
<1>2. g # AisField => g \in Positions
  BY Zenon DEF Positions
<1> QED
  BY <1>1, <1>2, Zenon DEF Marks, StandsFor, Siblings

(* push() marks what the change stands for, and a mark that a full queue   *)
(* drops is recorded as lost.                                              *)
LEMMA PushMarks ==
    ASSUME StoreOK, NEW f \in Fields \cup {AisField}, Push(f), NEW p \in Positions
    PROVE  /\ p \in StandsFor(f) => ChangePending(p)'
           /\ p \notin StandsFor(f) /\ p \notin lost' =>
                 p \notin lost /\ (ChangePending(p) => ChangePending(p)')
<1> DEFINE F == Fields \cup {AisField}
<1>1. pending \in Seq(F) /\ QueueCapacity \in Nat \ {0}
  BY StreamAssumption, Zenon DEF StoreOK
<1>2. /\ ChangePending(p) <=> \E k \in DOMAIN pending : Marks(pending[k], p)
      /\ ChangePending(p)' <=> \E k \in DOMAIN pending' : Marks(pending'[k], p)
  BY Zenon DEF ChangePending, Marks
<1>3. p \in StandsFor(f) => Marks(f, p)
  BY MarksStandFor
<1>4. CASE \E k \in DOMAIN pending : pending[k] = f
  <2>1. pending' = pending /\ lost' = lost \ StandsFor(f)
    BY <1>4, Zenon DEF Push, StandsFor
  <2> QED
    BY <1>2, <1>3, <1>4, <2>1, Zenon
<1>5. CASE Len(pending) # QueueCapacity /\ ~ \E k \in DOMAIN pending : pending[k] = f
  <2>1. pending' = Append(pending, f) /\ lost' = lost \ StandsFor(f)
    BY <1>5, Zenon DEF Push, StandsFor
  <2> HIDE DEF F
  <2>2. f \in F
    BY Zenon DEF F
  <2>3. /\ Len(pending) + 1 \in DOMAIN pending' /\ pending'[Len(pending) + 1] = f
        /\ \A k \in DOMAIN pending : k \in DOMAIN pending' /\ pending'[k] = pending[k]
    BY <1>1, <2>1, <2>2
  <2> QED
    BY <1>2, <1>3, <2>1, <2>3
<1>6. CASE Len(pending) = QueueCapacity /\ ~ \E k \in DOMAIN pending : pending[k] = f
  <2>1. /\ pending' = Append(Tail(pending), f)
        /\ lost' = (lost \cup StandsFor(Head(pending))) \ StandsFor(f)
    BY <1>6, Zenon DEF Push, StandsFor
  <2>2. pending # << >>
    BY <1>1, <1>6, Zenon
  <2>3. Head(pending) = pending[1] /\ pending[1] \in F
    BY <1>1, <2>2
  <2>4. Marks(pending[1], p) => p \in StandsFor(Head(pending))
    BY <2>3, MarksStandFor
  <2> HIDE DEF F
  <2>5. f \in F
    BY Zenon DEF F
  <2>6. /\ Len(pending) \in DOMAIN pending' /\ pending'[Len(pending)] = f
        /\ \A k \in DOMAIN pending : k = 1 \/ (k - 1 \in DOMAIN pending' /\ pending'[k - 1] = pending[k])
    BY <1>1, <2>1, <2>2, <2>5
  <2> QED
    BY <1>2, <1>3, <2>1, <2>4, <2>6, Zenon
<1> QED
  BY <1>4, <1>5, <1>6

-----------------------------------------------------------------------------
(* What happens between callbacks.                                         *)

(* Outside publish_pending and the snapshots no delta is open.             *)
LEMMA NothingOpen ==
    ASSUME StreamInv, RepeatInv, phase # "pending", sink = NoClient
    PROVE  frame = NoFrame /\ todo = << >> /\ last_path = NoPath
BY Zenon DEF StreamInv, BoundsInv, PhaseOK, RepeatInv

(* A value that does not change is served as before.                       *)
LEMMA SameServed ==
    ASSUME NEW s, NEW m, NEW n, NEW h, NEW k, NEW p, NEW i,
           LastUpdate(n, p) = LastUpdate(m, p), k[p] = h[p]
    PROVE  Served(s, m, h, p, i) => Served(s, n, k, p, i)
BY Zenon DEF Served, Has, Owed, Ahead, Index, Whole

(* A step of the model store loses nothing if it marks what it changes.    *)
LEMMA StoreDelivers ==
    ASSUME SetFacts, StreamInv, StreamInv', DeliveryInv, phase = "idle",
           UNCHANGED <<client, buildVars, sink>>,
           \A q \in Positions : model[q] <= model'[q],
           \A q \in Unshared \ lost' :
              \/ ChangePending(q)'
              \/ /\ q \notin lost /\ (ChangePending(q) => ChangePending(q)')
                 /\ shape'[q] = shape[q] /\ LastUpdate(model', q) = LastUpdate(model, q)
                 /\ Selected(model', expired', q) => Selected(model, expired, q)
                 /\ q \in AisPositions /\ target_count' > expired' => target_count > expired
    PROVE  DeliveryInv' /\ SentStep
<1>1. SentInv' /\ SentStep
  BY SentStays, Zenon DEF SentKept, DeliveryInv
<1>2. ASSUME NEW c \in Clients, Streaming(c)', NEW q \in Unshared \ lost', Visible(c, q)',
             NEW i \in shape'[q]
      PROVE  Served(client'[c], model', shape', q, i) \/ ChangePending(q)'
  <2>1. CASE ChangePending(q)'
    BY <2>1, Zenon
  <2>2. CASE /\ q \notin lost /\ (ChangePending(q) => ChangePending(q)')
             /\ shape'[q] = shape[q] /\ LastUpdate(model', q) = LastUpdate(model, q)
             /\ Selected(model', expired', q) => Selected(model, expired, q)
             /\ q \in AisPositions /\ target_count' > expired' => target_count > expired
    <3>1. Streaming(c) /\ Visible(c, q) /\ i \in shape[q] /\ q \in Unshared \ lost
      BY <1>2, <2>2, Zenon DEF Streaming, Visible
    <3>2. Served(client[c], model, shape, q, i) \/ ChangePending(q)
      BY <3>1, Zenon DEF DeliveryInv, KeptInv, Underway
    <3>3. Served(client[c], model, shape, q, i) => Served(client[c], model', shape', q, i)
      BY <2>2, SameServed, Zenon
    <3> QED
      BY <2>2, <3>2, <3>3, Zenon
  <2> QED
    BY <2>1, <2>2, ZenonT(30)
<1>3. KeptInv'
  BY <1>2, Zenon DEF KeptInv
<1>4. sink' = NoClient /\ frame' = NoFrame /\ todo' = << >> /\ last_path' = NoPath
  <2>1. sink = NoClient
    BY ZenonT(30) DEF StreamInv, BoundsInv, PhaseOK
  <2> QED
    BY <2>1, NothingOpen, ZenonT(30) DEF DeliveryInv, buildVars
<1>5. DeliveryInv'
  BY <1>1, <1>3, <1>4, NothingBuilt, Zenon
<1> QED
  BY <1>1, <1>5, Zenon

-----------------------------------------------------------------------------
(* publish_pending.                                                        *)

(* The live delta serves every streaming client what it covers.            *)
LEMMA FlushServes ==
    ASSUME SetFacts, StreamInv, DeliveryInv, client' \in {FanOut(frame), FanOutIfAny(frame)}
    PROVE  /\ \A c \in Clients : SameStream(client[c], client'[c])
           /\ \A c \in Clients, p \in Unshared, i \in MemberIds :
                 /\ Streaming(c) /\ (Served(client[c], model, shape, p, i) \/ Covers(frame.entries, p, i))
                       => Served(client'[c], model, shape, p, i)
                 /\ client'[c].sent[Path[p]][i] \in {client[c].sent[Path[p]][i], LastUpdate(model, p)}
<1>1. /\ Fitting(frame) /\ DOMAIN client = Clients
      /\ \A c \in Clients : StateOK(client[c])
  BY Zenon DEF StreamInv, BoundsInv, BuildOK, FrameOK, Fitting
<1>2. \A k \in DOMAIN frame.entries : Current(frame.entries[k], model)
  BY DEF DeliveryInv, CurrentInv
<1>3. CASE client' = FanOut(frame)
  <2>1. \A c \in Clients : SameStream(client[c], client'[c])
    BY <1>1, <1>3, FanOutOK, Zenon
  <2>2. \A c \in Clients, p \in Unshared, i \in MemberIds :
           /\ Streaming(c) /\ (Served(client[c], model, shape, p, i) \/ Covers(frame.entries, p, i))
                 => Served(client'[c], model, shape, p, i)
           /\ client'[c].sent[Path[p]][i] \in {client[c].sent[Path[p]][i], LastUpdate(model, p)}
    BY <1>1, <1>2, <1>3, FanOutServes, ZenonT(30)
  <2> QED
    BY <2>1, <2>2, Zenon
<1>4. CASE client' = client /\ frame.entries = << >>
  BY <1>4 DEF Covers, SameStream
<1> QED
  BY <1>3, <1>4, Zenon DEF FanOutIfAny

(* What a client is owed of a value in a step of publish_pending.          *)
Due(c, p, i) == Served(client[c], model, shape, p, i) \/ ChangePending(p) \/ Underway(p, i)

(* A step of publish_pending loses nothing if what was due stays due.      *)
LEMMA PendingDelivers ==
    ASSUME SetFacts, StreamInv, StreamInv', DeliveryInv, phase = "pending", UNCHANGED <<storeVars, lost, sink>>,
           CurrentInv', RepeatInv', \A c \in Clients : SameStream(client[c], client'[c]),
           \A c \in Clients, p \in Unshared, i \in MemberIds :
              client'[c].sent[Path[p]][i] \in {client[c].sent[Path[p]][i], LastUpdate(model, p)},
           \A c \in Clients, p \in Unshared :
              Streaming(c) /\ Visible(c, p) =>
                 \A i \in shape[p] : Due(c, p, i) => Due(c, p, i)'
    PROVE  DeliveryInv' /\ SentStep
<1>1. UNCHANGED <<model, shape, target_count, expired>>
  BY ZenonT(30) DEF storeVars
<1>2. SentInv' /\ SentStep
  <2>1. \A c \in Clients, p \in Unshared, i \in MemberIds : SentKept(c, p, i)
    BY <1>1, ZenonT(30) DEF SentKept
  <2>2. \A q \in Positions : model[q] <= model'[q]
    BY <1>1, SameModel, Zenon
  <2> QED
    BY <2>1, <2>2, SentStays, Zenon DEF DeliveryInv
<1>3. ASSUME NEW c \in Clients, Streaming(c)', NEW q \in Unshared \ lost', Visible(c, q)',
             NEW i \in shape'[q]
      PROVE  Due(c, q, i)'
  <2>1. SameStream(client[c], client'[c])
    BY Zenon
  <2>2. Streaming(c) /\ Visible(c, q) /\ i \in shape[q] /\ q \in Unshared \ lost
    BY <1>1, <1>3, <2>1, SameVisible, ZenonT(30) DEF Streaming, SameStream
  <2>3. Due(c, q, i)
    BY <2>2, Zenon DEF DeliveryInv, KeptInv, Due
  <2> QED
    BY <2>2, <2>3, ZenonT(30)
<1>4. KeptInv'
  BY <1>3, Zenon DEF KeptInv, Due
<1>5. sink' = NoClient
  BY Zenon DEF StreamInv, BoundsInv, PhaseOK
<1> QED
  BY <1>2, <1>4, <1>5, ZenonT(30) DEF DeliveryInv, SuffixInv, SnapshotInv

(* The changes that remain in the queue still stand for their values.      *)
LEMMA PopMarks ==
    ASSUME StoreOK, pending # << >>, pending' = Tail(pending), NEW p, ChangePending(p)
    PROVE  ChangePending(p)' \/ Marks(Head(pending), p)
<1>1. pending \in Seq(Fields \cup {AisField})
  BY DEF StoreOK
<1>2. PICK k \in DOMAIN pending : Marks(pending[k], p)
  BY Zenon DEF ChangePending, Marks
<1>3. CASE k = 1
  BY <1>1, <1>2, <1>3
<1>4. CASE k # 1
  <2>1. k - 1 \in DOMAIN pending' /\ pending'[k - 1] = pending[k]
    <3> DEFINE F == Fields \cup {AisField}
    <3>1. pending \in Seq(F)
      BY <1>1
    <3> HIDE DEF F
    <3> QED
      BY <1>4, <3>1
  <2> QED
    BY <1>2, <2>1, Zenon DEF ChangePending, Marks
<1> QED
  BY <1>3, <1>4, Zenon

(* The change of the AIS targets is taken from the queue: the delta that   *)
(* was being built is sent, and every target is to come.                   *)
LEMMA PopTargetsDelivers ==
    ASSUME SetFacts, StreamInv, StreamInv', DeliveryInv, PopChange, Head(pending) = AisField
    PROVE  DeliveryInv' /\ SentStep
<1>1. /\ phase = "pending" /\ phase' = phase /\ UNCHANGED <<storeVars, lost, sink>>
      /\ todo = << >> /\ targets = {} /\ pending # << >> /\ pending' = Tail(pending)
      /\ client' = FanOutIfAny(frame) /\ frame' = NoFrame /\ todo' = todo /\ last_path' = last_path
      /\ targets' = {p \in AisPositions : model[p] # 0}
  BY Zenon DEF PopChange, pumpVars
<1>2. StoreOK /\ UNCHANGED <<model, shape>>
  BY <1>1, Zenon DEF StreamInv, BoundsInv, storeVars
<1>3. frame'.entries = << >>
  BY <1>1, Zenon DEF NoFrame
<1>4. /\ \A c \in Clients : SameStream(client[c], client'[c])
      /\ \A c \in Clients, p \in Unshared, i \in MemberIds :
            /\ Streaming(c) /\ (Served(client[c], model, shape, p, i) \/ Covers(frame.entries, p, i))
                  => Served(client'[c], model, shape, p, i)
            /\ client'[c].sent[Path[p]][i] \in {client[c].sent[Path[p]][i], LastUpdate(model, p)}
  BY <1>1, FlushServes, Zenon
<1>5. \A p \in Unshared : shape[p] \subseteq MemberIds
  BY <1>2, Zenon DEF StoreOK, Unshared
<1>6. \A p, i : ~Covers(todo, p, i)
  BY <1>1 DEF Covers
<1>7. CurrentInv'
  BY <1>1, <1>3 DEF CurrentInv
<1>8. RepeatInv'
  <2>1. ASSUME NEW c \in Clients, Streaming(c)', NEW p \in Unshared, Path[p] = last_path',
               NEW i \in shape'[p]
        PROVE  Served(client'[c], model', shape', p, i)
    <3>1. Streaming(c)
      BY <1>4, <2>1, ZenonT(30) DEF Streaming, SameStream
    <3>2. Served(client[c], model, shape, p, i) \/ Covers(frame.entries, p, i)
      BY <1>1, <1>2, <1>6, <2>1, <3>1 DEF DeliveryInv, RepeatInv
    <3> QED
      BY <1>2, <1>4, <1>5, <2>1, <3>1, <3>2, ZenonT(30)
  <2> QED
    BY <1>1, <2>1, Zenon DEF RepeatInv
<1>9. ASSUME NEW c \in Clients, NEW p \in Unshared, Streaming(c), Visible(c, p), NEW i \in shape[p],
             Due(c, p, i)
      PROVE  Due(c, p, i)'
  <2>1. CASE ChangePending(p)
    <3>1. CASE Marks(AisField, p)
      <4>1. p \in Positions /\ AisField \in Fields \cup {AisField}
        BY Zenon DEF Unshared
      <4>2. p \in AisPositions
        BY <3>1, <4>1, MarksStandFor, Zenon DEF StandsFor
      <4>3. model[p] # 0
        <5>1. Mapped(model, p)
          BY <1>9, Zenon DEF Visible, Selected, CurrentValue
        <5>2. \A q \in Siblings(p) : q = p
          BY <4>2, PublisherAssumption, Zenon DEF Siblings
        <5> QED
          BY <5>1, <5>2 DEF Mapped
      <4> QED
        BY <1>1, <4>2, <4>3 DEF Due, Underway
    <3> QED
      BY <1>1, <1>2, <2>1, <3>1, PopMarks, Zenon DEF Due
  <2>2. CASE Served(client[c], model, shape, p, i) \/ Covers(frame.entries, p, i)
    BY <1>2, <1>4, <1>5, <1>9, <2>2, ZenonT(30) DEF Due
  <2> QED
    BY <1>1, <1>6, <1>9, <2>1, <2>2 DEF Due, Underway
<1> QED
  BY <1>1, <1>4, <1>7, <1>8, <1>9, PendingDelivers, ZenonT(30)

(* Another change is taken from the queue: its value is sent unless it was *)
(* just added.                                                             *)
LEMMA PopFieldDelivers ==
    ASSUME SetFacts, StreamInv, StreamInv', DeliveryInv, PopChange, Head(pending) # AisField
    PROVE  DeliveryInv' /\ SentStep
<1>1. PICK f : f = Head(pending)
  BY Zenon
<1>2. PICK es : es = Entries(model, shape, f)
  OBVIOUS
<1>3. /\ phase = "pending" /\ phase' = phase /\ UNCHANGED <<storeVars, lost, sink, client, frame, targets>>
      /\ todo = << >> /\ targets = {} /\ pending # << >> /\ pending' = Tail(pending)
      /\ \/ todo' = es /\ last_path' = Path[f]
         \/ todo' = todo /\ last_path' = last_path /\ (~Mapped(model, f) \/ last_path = Path[f])
  BY <1>1, <1>2, Zenon DEF PopChange, pumpVars
<1>4. StoreOK /\ UNCHANGED <<model, shape>>
  BY <1>3, Zenon DEF StreamInv, BoundsInv, storeVars
<1>5. f \in Fields /\ f \in Positions
  BY <1>1, <1>3, <1>4 DEF StoreOK, Positions
<1>6. \A p, i : ~Covers(todo, p, i)
  BY <1>3 DEF Covers
<1>7. \A p \in Unshared : Path[p] = Path[f] => \A i \in shape[p] : Covers(es, p, i)
  BY <1>2, <1>4, <1>5, EntriesCover, Zenon
<1>8. CurrentInv'
  <2>1. \A k \in DOMAIN es : Current(es[k], model)
    BY <1>2, <1>4, <1>5, EntriesCurrent
  <2> QED
    BY <1>3, <1>4, <2>1, Zenon DEF DeliveryInv, CurrentInv
<1>9. RepeatInv'
  <2>1. ASSUME NEW c \in Clients, Streaming(c)', NEW p \in Unshared, Path[p] = last_path',
               NEW i \in shape'[p]
        PROVE  \/ Served(client'[c], model', shape', p, i)
               \/ Covers(frame'.entries, p, i) \/ Covers(todo', p, i)
    <3>1. CASE todo' = es /\ last_path' = Path[f]
      BY <1>4, <1>7, <2>1, <3>1
    <3>2. CASE todo' = todo /\ last_path' = last_path
      <4>1. Streaming(c) /\ Path[p] = last_path /\ i \in shape[p]
        BY <1>3, <1>4, <2>1, <3>2, Zenon DEF Streaming
      <4>2. Served(client[c], model, shape, p, i) \/ Covers(frame.entries, p, i) \/ Covers(todo, p, i)
        BY <1>3, <4>1 DEF DeliveryInv, RepeatInv
      <4> QED
        BY <1>3, <1>4, <3>2, <4>2
    <3> QED
      BY <1>3, <3>1, <3>2, Zenon
  <2> QED
    BY <1>3, <2>1, Zenon DEF RepeatInv
<1>10. ASSUME NEW c \in Clients, NEW p \in Unshared, Streaming(c), Visible(c, p), NEW i \in shape[p],
              Due(c, p, i)
       PROVE  Due(c, p, i)'
  <2>1. CASE Marks(f, p)
    <3>1. Path[p] = Path[f]
      BY <1>5, <2>1, StreamAssumption DEF Marks, Siblings
    <3>2. Mapped(model, p) /\ (Mapped(model, f) <=> Mapped(model, p))
      BY <1>5, <1>10, <3>1, UnsharedSibling DEF Visible, Selected, CurrentValue
    <3>3. CASE todo' = es
      BY <1>3, <1>7, <3>1, <3>3, Zenon DEF Due, Underway
    <3>4. CASE todo' = todo /\ last_path = Path[f]
      <4>1. Served(client[c], model, shape, p, i) \/ Covers(frame.entries, p, i)
        BY <1>3, <1>6, <1>10, <3>1, <3>4 DEF DeliveryInv, RepeatInv
      <4> QED
        BY <1>3, <1>4, <4>1 DEF Due, Underway
    <3> QED
      BY <1>3, <3>2, <3>3, <3>4, Zenon
  <2>2. CASE ~Marks(f, p)
    <3>1. ChangePending(p) => ChangePending(p)'
      BY <1>1, <1>3, <1>4, <2>2, PopMarks
    <3> QED
      BY <1>3, <1>4, <1>6, <1>10, <3>1, Zenon DEF Due, Underway
  <2> QED
    BY <2>1, <2>2
<1>11. \A c \in Clients : SameStream(client[c], client'[c])
  BY <1>3 DEF SameStream
<1> QED
  BY <1>3, <1>8, <1>9, <1>10, <1>11, PendingDelivers

(* publish_pending goes on to the next AIS target.                         *)
LEMMA NextTargetDelivers ==
    ASSUME SetFacts, StreamInv, StreamInv', DeliveryInv, NextTarget
    PROVE  DeliveryInv' /\ SentStep
<1>1. PICK t : t = Min(targets)
  BY Zenon
<1>2. PICK es : es = Entries(model, shape, t)
  BY Zenon
<1>3. /\ phase = "pending" /\ phase' = phase /\ todo = << >> /\ targets # {}
      /\ todo' = es /\ targets' = targets \ {t}
      /\ UNCHANGED <<storeVars, pending, lost, client, last_path, frame, sink>>
  BY <1>1, <1>2, Zenon DEF NextTarget, queueVars, pumpVars
<1>4. StoreOK /\ UNCHANGED <<model, shape>>
  BY <1>3 DEF StreamInv, BoundsInv, storeVars
<1>5. t \in Positions
  <2>1. targets \in SUBSET Nat /\ targets \subseteq Positions
    BY PositionsAreNumbers, Zenon DEF StreamInv, BoundsInv, BuildOK, Positions
  <2> QED
    BY <1>1, <1>3, <2>1, LeastElement, Zenon
<1>6. \A p, i : ~Covers(todo, p, i)
  BY <1>3 DEF Covers
<1>7. CurrentInv'
  <2>1. \A k \in DOMAIN es : Current(es[k], model)
    BY <1>2, <1>4, <1>5, EntriesCurrent, Zenon
  <2> QED
    BY <1>3, <1>4, <2>1 DEF DeliveryInv, CurrentInv
<1>8. RepeatInv'
  <2>1. ASSUME NEW c \in Clients, Streaming(c)', NEW p \in Unshared, Path[p] = last_path',
               NEW i \in shape'[p]
        PROVE  Served(client'[c], model', shape', p, i) \/ Covers(frame'.entries, p, i)
    <3>1. Streaming(c) /\ Path[p] = last_path /\ i \in shape[p]
      BY <1>3, <1>4, <2>1 DEF Streaming
    <3>2. Served(client[c], model, shape, p, i) \/ Covers(frame.entries, p, i)
      BY <1>3, <1>6, <3>1, Zenon DEF DeliveryInv, RepeatInv
    <3> QED
      BY <1>3, <1>4, <3>2
  <2> QED
    BY <1>3, <2>1, Zenon DEF RepeatInv
<1>9. ASSUME NEW c \in Clients, NEW p \in Unshared, NEW i \in shape[p], Due(c, p, i)
      PROVE  Due(c, p, i)'
  <2>1. CASE p = t
    <3>1. Covers(es, p, i)
      BY <1>2, <1>4, <1>5, <2>1, EntriesCover, Zenon
    <3> QED
      BY <1>3, <3>1, ZenonT(30) DEF Due, Underway
  <2>2. CASE p # t
    <3>1. ChangePending(p) => ChangePending(p)'
      BY <1>3, Zenon DEF ChangePending
    <3> QED
      BY <1>3, <1>4, <1>6, <1>9, <2>2, <3>1, ZenonT(30) DEF Due, Underway
  <2> QED
    BY <2>1, <2>2
<1>10. \A c \in Clients : SameStream(client[c], client'[c])
  BY <1>3, Zenon DEF SameStream
<1> QED
  BY <1>3, <1>7, <1>8, <1>9, <1>10, PendingDelivers, Zenon

(* The delta is sent, and another is begun or publish_pending is done.     *)
LEMMA FlushDelivers ==
    ASSUME SetFacts, StreamInv, StreamInv', DeliveryInv, phase = "pending",
           client' \in {FanOut(frame), FanOutIfAny(frame)}, frame' = NoFrame,
           UNCHANGED <<storeVars, pending, lost, todo, targets, sink>>,
           \/ phase' = phase /\ last_path' = last_path
           \/ phase' # "pending" /\ last_path' = NoPath /\ todo = << >> /\ targets = {}
    PROVE  DeliveryInv' /\ SentStep
<1>1. StoreOK /\ UNCHANGED <<model, shape>>
  BY Zenon DEF StreamInv, BoundsInv, storeVars
<1>2. frame'.entries = << >>
  BY Zenon DEF NoFrame
<1>3. /\ \A c \in Clients : SameStream(client[c], client'[c])
      /\ \A c \in Clients, p \in Unshared, i \in MemberIds :
            /\ Streaming(c) /\ (Served(client[c], model, shape, p, i) \/ Covers(frame.entries, p, i))
                  => Served(client'[c], model, shape, p, i)
            /\ client'[c].sent[Path[p]][i] \in {client[c].sent[Path[p]][i], LastUpdate(model, p)}
  BY FlushServes, ZenonT(30)
<1>4. \A p \in Unshared : shape[p] \subseteq MemberIds
  BY <1>1, Zenon DEF StoreOK, Unshared
<1>5. CurrentInv'
  BY <1>1, <1>2 DEF DeliveryInv, CurrentInv
<1>6. RepeatInv'
  <2>1. ASSUME phase' = phase, last_path' = last_path,
               NEW c \in Clients, Streaming(c)', NEW p \in Unshared, Path[p] = last_path',
               NEW i \in shape'[p]
        PROVE  Served(client'[c], model', shape', p, i) \/ Covers(todo', p, i)
    <3>1. Streaming(c)
      BY <1>3, <2>1, ZenonT(30) DEF Streaming, SameStream
    <3>2. Served(client[c], model, shape, p, i) \/ Covers(frame.entries, p, i) \/ Covers(todo, p, i)
      BY <1>1, <2>1, <3>1 DEF DeliveryInv, RepeatInv
    <3> QED
      BY <1>1, <1>3, <1>4, <2>1, <3>1, <3>2, ZenonT(30)
  <2> QED
    BY <2>1, Zenon DEF RepeatInv
<1>7. ASSUME NEW c \in Clients, NEW p \in Unshared, Streaming(c), NEW i \in shape[p], Due(c, p, i)
      PROVE  Due(c, p, i)'
  <2>1. CASE Served(client[c], model, shape, p, i) \/ Covers(frame.entries, p, i)
    BY <1>1, <1>3, <1>4, <1>7, <2>1, ZenonT(30) DEF Due
  <2>2. CASE ChangePending(p)
    BY <2>2, ZenonT(30) DEF Due, ChangePending
  <2>3. CASE Covers(todo, p, i) \/ p \in targets
    <3>1. phase' = phase
      BY <2>3 DEF Covers
    <3> QED
      BY <2>3, <3>1, Zenon DEF Due, Underway
  <2> QED
    BY <1>7, <2>1, <2>2, <2>3, ZenonT(30) DEF Due, Underway
<1> QED
  BY <1>3, <1>5, <1>6, <1>7, PendingDelivers, ZenonT(30)

(* The delta is sent before the next value can join.                       *)
LEMMA FlushLiveDelivers ==
    ASSUME SetFacts, StreamInv, StreamInv', DeliveryInv, FlushLive
    PROVE  DeliveryInv' /\ SentStep
<1>1. /\ phase = "pending" /\ client' = FanOut(frame) /\ frame' = NoFrame
      /\ UNCHANGED <<storeVars, pending, lost, todo, targets, sink, phase, last_path>>
  BY Zenon DEF FlushLive, queueVars, pumpVars
<1> QED
  BY <1>1, FlushDelivers, Zenon

(* publish_pending is done and the snapshots begin.                        *)
LEMMA EndPendingDelivers ==
    ASSUME SetFacts, StreamInv, StreamInv', DeliveryInv, EndPending
    PROVE  DeliveryInv' /\ SentStep
<1>1. /\ phase = "pending" /\ client' = FanOutIfAny(frame) /\ frame' = NoFrame
      /\ UNCHANGED <<storeVars, pending, lost, todo, targets, sink>>
      /\ phase' # "pending" /\ last_path' = NoPath /\ todo = << >> /\ targets = {}
  BY Zenon DEF EndPending, queueVars
<1> QED
  BY <1>1, FlushDelivers, Zenon

(* What AddLive and AddSnapshot keep: the value moves from the entries to  *)
(* be added to the delta.                                                  *)
LEMMA MoveCovers ==
    ASSUME StreamInv, CurrentInv, todo # << >>, frame' = AddEntry(frame, Head(todo)), todo' = Tail(todo),
           model' = model
    PROVE  /\ CurrentInv'
           /\ \A p, i : Covers(frame.entries, p, i) => Covers(frame'.entries, p, i)
           /\ \A p, i : Covers(todo, p, i) => Covers(frame'.entries, p, i) \/ Covers(todo', p, i)
           /\ \A p, i : Head(todo).path = Path[p] /\ i \in Head(todo).members => Covers(frame'.entries, p, i)
<1>1. PICK es, ts, e : es = frame.entries /\ ts = todo /\ e = Head(todo)
  BY Zenon
<1>2. es \in Seq(EntrySet) /\ ts \in Seq(EntrySet) /\ ts # << >>
  BY <1>1, Zenon DEF StreamInv, BoundsInv, BuildOK, FrameOK
<1>3. frame'.entries = Append(es, e) /\ todo' = Tail(ts)
  BY <1>1 DEF AddEntry
<1>4. e = ts[1] /\ e \in EntrySet
  BY <1>1, <1>2
<1>5. PICK fs : fs = Append(es, e)
  BY Zenon
<1>6. PICK us : us = Tail(ts)
  BY Zenon
<1>7. /\ \A k \in DOMAIN es : k \in DOMAIN fs /\ fs[k] = es[k]
      /\ Len(es) + 1 \in DOMAIN fs /\ fs[Len(es) + 1] = e
      /\ \A k \in DOMAIN fs : k \in DOMAIN es \/ fs[k] = e
  BY <1>2, <1>4, <1>5
<1>8. /\ \A k \in DOMAIN ts : k = 1 \/ (k - 1 \in DOMAIN us /\ us[k - 1] = ts[k])
      /\ \A k \in DOMAIN us : k + 1 \in DOMAIN ts /\ us[k] = ts[k + 1]
  BY <1>2, <1>6
<1>9. frame'.entries = fs /\ todo' = us
  BY <1>3, <1>5, <1>6, Zenon
<1>10. /\ \A k \in DOMAIN es : Current(es[k], model)
       /\ \A k \in DOMAIN ts : Current(ts[k], model)
       /\ Current(e, model)
  <2>1. 1 \in DOMAIN ts
    BY <1>2
  <2> QED
    BY <1>1, <1>4, <2>1 DEF CurrentInv
<1>11. CurrentInv'
  <2>1. \A k \in DOMAIN fs : Current(fs[k], model)
    BY <1>7, <1>10, Zenon
  <2>2. \A k \in DOMAIN us : Current(us[k], model)
    BY <1>8, <1>10
  <2> QED
    BY <1>9, <2>1, <2>2 DEF CurrentInv
<1>12. \A p, i : Covers(es, p, i) => Covers(fs, p, i)
  BY <1>7, Zenon DEF Covers
<1>13. \A p, i : e.path = Path[p] /\ i \in e.members => Covers(fs, p, i)
  BY <1>7, Zenon DEF Covers
<1>14. ASSUME NEW p, NEW i, Covers(ts, p, i) PROVE Covers(fs, p, i) \/ Covers(us, p, i)
  <2>1. PICK k \in DOMAIN ts : ts[k].path = Path[p] /\ i \in ts[k].members
    BY <1>14 DEF Covers
  <2>2. CASE k = 1
    BY <1>4, <1>13, <2>1, <2>2, Zenon
  <2>3. CASE k # 1
    BY <1>8, <2>1, <2>3 DEF Covers
  <2> QED
    BY <2>2, <2>3
<1> QED
  BY <1>1, <1>9, <1>11, <1>12, <1>13, <1>14, Zenon

(* A value joins the live delta.                                           *)
LEMMA AddLiveDelivers ==
    ASSUME SetFacts, StreamInv, StreamInv', DeliveryInv, AddLive
    PROVE  DeliveryInv' /\ SentStep
<1>1. /\ phase = "pending" /\ phase' = phase /\ todo # << >>
      /\ frame' = AddEntry(frame, Head(todo)) /\ todo' = Tail(todo)
      /\ UNCHANGED <<storeVars, pending, lost, client, last_path, targets, sink>>
  BY Zenon DEF AddLive, queueVars, pumpVars
<1>2. UNCHANGED <<model, shape>>
  BY <1>1 DEF storeVars
<1>3. /\ CurrentInv'
      /\ \A p, i : Covers(frame.entries, p, i) => Covers(frame'.entries, p, i)
      /\ \A p, i : Covers(todo, p, i) => Covers(frame'.entries, p, i) \/ Covers(todo', p, i)
  BY <1>1, <1>2, MoveCovers DEF DeliveryInv
<1>4. RepeatInv'
  <2>1. ASSUME NEW c \in Clients, Streaming(c)', NEW p \in Unshared, Path[p] = last_path',
               NEW i \in shape'[p]
        PROVE  \/ Served(client'[c], model', shape', p, i)
               \/ Covers(frame'.entries, p, i) \/ Covers(todo', p, i)
    <3>1. Streaming(c) /\ Path[p] = last_path /\ i \in shape[p]
      BY <1>1, <1>2, <2>1 DEF Streaming
    <3>2. Served(client[c], model, shape, p, i) \/ Covers(frame.entries, p, i) \/ Covers(todo, p, i)
      BY <1>1, <3>1, ZenonT(30) DEF DeliveryInv, RepeatInv
    <3> QED
      BY <1>1, <1>2, <1>3, <3>2, ZenonT(30)
  <2> QED
    BY <1>1, <2>1, Zenon DEF RepeatInv
<1>5. ASSUME NEW c \in Clients, NEW p \in Unshared, NEW i \in shape[p], Due(c, p, i)
      PROVE  Due(c, p, i)'
  <2>1. ChangePending(p) => ChangePending(p)'
    BY <1>1, Zenon DEF ChangePending
  <2> QED
    BY <1>1, <1>2, <1>3, <1>5, <2>1, ZenonT(30) DEF Due, Underway
<1>6. \A c \in Clients : SameStream(client[c], client'[c])
  BY <1>1, Zenon DEF SameStream
<1> QED
  BY <1>1, <1>3, <1>4, <1>5, <1>6, PendingDelivers

-----------------------------------------------------------------------------
(* pump_one.                                                               *)

(* A step that builds the delta of a snapshot sends nothing.               *)
LEMMA SnapshotStep ==
    ASSUME SetFacts, StreamInv, StreamInv', DeliveryInv, phase = "pump",
           UNCHANGED <<storeVars, queueVars, client, phase, last_path>>,
           CurrentInv', SuffixInv', SnapshotInv'
    PROVE  DeliveryInv' /\ SentStep
<1>1. UNCHANGED <<model, shape, target_count, expired, pending, lost>>
  BY Zenon DEF storeVars, queueVars
<1>2. SentInv' /\ SentStep
  <2>1. \A c \in Clients, p \in Unshared, i \in MemberIds : SentKept(c, p, i)
    BY DEF SentKept
  <2>2. \A q \in Positions : model[q] <= model'[q]
    BY <1>1, SameModel, Zenon
  <2> QED
    BY <2>1, <2>2, SentStays, Zenon DEF DeliveryInv
<1>3. ASSUME NEW c \in Clients, Streaming(c)', NEW q \in Unshared \ lost', Visible(c, q)',
             NEW i \in shape'[q]
      PROVE  Served(client'[c], model', shape', q, i) \/ ChangePending(q)'
  <2>1. Streaming(c) /\ Visible(c, q) /\ i \in shape[q] /\ q \in Unshared \ lost
    BY <1>1, <1>3, SameVisible DEF Streaming
  <2>2. Served(client[c], model, shape, q, i) \/ ChangePending(q)
    BY <2>1, Zenon DEF DeliveryInv, KeptInv, Underway
  <2> QED
    BY <1>1, <2>2, Zenon DEF ChangePending
<1>4. KeptInv'
  BY <1>3, Zenon DEF KeptInv
<1>5. RepeatInv'
  BY Zenon DEF DeliveryInv, RepeatInv
<1> QED
  BY <1>2, <1>4, <1>5 DEF DeliveryInv

(* pump_one() starts a snapshot.                                           *)
LEMMA BeginSnapshotDelivers ==
    ASSUME SetFacts, StreamInv, StreamInv', DeliveryInv, NEW c \in Clients, BeginSnapshot(c)
    PROVE  DeliveryInv' /\ SentStep
<1>1. /\ phase = "pump" /\ UNCHANGED <<storeVars, queueVars, client, phase, buildVars>>
  BY Zenon DEF BeginSnapshot
<1>2. tracking'.position = 0
  BY Zenon DEF BeginSnapshot, NoTracking
<1>3. UNCHANGED <<model, last_path, frame, todo>>
  BY <1>1, Zenon DEF storeVars, buildVars
<1>4. CurrentInv'
  BY <1>3, Zenon DEF DeliveryInv, CurrentInv
<1>5. SuffixInv' /\ SnapshotInv'
  BY <1>2, ZenonT(30) DEF SuffixInv, SnapshotInv
<1> QED
  BY <1>1, <1>3, <1>4, <1>5, SnapshotStep

(* Once the entries of a position are in the delta, the snapshot has sent  *)
(* or holds whatever it was to bring before the positions that remain.     *)
LEMMA SnapshotDone ==
    ASSUME SetFacts, StreamInv, DeliveryInv, phase = "pump", sink # NoClient, todo = << >>,
           NEW p \in Unshared, Visible(sink, p), NEW i \in shape[p],
           Ahead(shape, client[sink].position, client[sink].value, p, i),
           \A r \in Remaining : p < r
    PROVE  Reached(p, i)
<1>1. StoreOK /\ TrackingOK /\ CursorInv /\ StateOK(client[sink])
  BY Pumping, Zenon DEF StreamInv, BoundsInv
<1>2. /\ p \in Positions /\ p \in Nat \ {0} /\ client[sink].position \in Nat
      /\ tracking.start \in Nat /\ tracking.position \in Nat /\ tracking.value \in Nat
  BY <1>1, PositionsAreNumbers, PlacesAreNumbers, ZenonT(30) DEF Unshared, TrackingOK, StateOK
<1>3. p \notin Remaining
  BY <1>2
<1>4. Selected(model, expired, p) /\ (p \in AisPositions => SendAis(sink))
  BY Zenon DEF Visible, SendAis
<1>5. ~ (p >= IF tracking.position = 0 THEN tracking.start ELSE tracking.position + 1)
  BY <1>2, <1>3, <1>4 DEF Remaining
<1>6. tracking.position # 0
  <2>1. tracking.start = IF client[sink].position = 0 THEN 1 ELSE client[sink].position
    BY <1>1, ZenonT(30) DEF CursorInv
  <2>2. client[sink].position <= p
    BY <1>2 DEF Ahead
  <2> QED
    BY <1>2, <1>5, <2>1, <2>2
<1>7. p <= tracking.position
  BY <1>2, <1>5, <1>6
<1>8. ~Ahead(shape, tracking.position, tracking.value, p, i)
  <2>1. CASE p = tracking.position
    <3>1. PICK es : es = Entries(model, shape, p)
      OBVIOUS
    <3>2. /\ Len(es) \in Nat /\ Index(shape, p, i) \in Nat
          /\ Index(shape, p, i) + 1 \in 1 .. Len(es)
      BY <1>1, <1>2, <3>1, EntriesOfValue, Zenon
    <3>3. Len(es) = tracking.value + Len(todo)
      BY <1>6, <2>1, <3>1, Zenon DEF DeliveryInv, SuffixInv
    <3>4. Len(todo) = 0
      BY Zenon
    <3> QED
      BY <1>2, <2>1, <3>2, <3>3, <3>4 DEF Ahead
  <2>2. CASE p # tracking.position
    BY <1>2, <1>7, <2>2 DEF Ahead
  <2> QED
    BY <2>1, <2>2, Zenon
<1> QED
  BY <1>6, <1>8, ZenonT(30) DEF DeliveryInv, SnapshotInv

(* publish_current comes to the next position that has a value.            *)
LEMMA NextValueDelivers ==
    ASSUME SetFacts, StreamInv, StreamInv', DeliveryInv, NextValue
    PROVE  DeliveryInv' /\ SentStep
<1>1. PICK n : n = Min(Remaining)
  BY Zenon
<1>2. PICK es : es = Entries(model, shape, n)
  BY Zenon
<1>3. /\ phase = "pump" /\ sink # NoClient /\ todo = << >> /\ Remaining # {}
      /\ todo' = es
      /\ tracking' = [tracking EXCEPT !.position = n, !.value = 0,
                                      !.skip = IF n = tracking.start THEN @ ELSE 0]
      /\ UNCHANGED <<storeVars, queueVars, client, phase, last_path, frame, sink>>
  BY <1>1, <1>2 DEF NextValue, Enter
<1>4. UNCHANGED <<model, shape, target_count, expired>>
  BY <1>3, Zenon DEF storeVars
<1>5. StoreOK /\ TrackingOK /\ sink \in Clients
  BY <1>3, Pumping, Zenon DEF StreamInv, BoundsInv
<1>6. Remaining \in SUBSET Nat /\ Remaining \subseteq Positions
  BY PositionsAreNumbers, ZenonT(30) DEF Remaining
<1>7. n \in Positions /\ n \in Nat /\ \A r \in Remaining : n <= r
  BY <1>1, <1>3, <1>6, LeastElement
<1>8. tracking'.position = n /\ tracking'.value = 0 /\ tracking'.frame_start = tracking.frame_start
  BY <1>3, <1>5, Zenon DEF TrackingOK
<1>9. es \in Seq(EntrySet) /\ \A k \in DOMAIN es : Current(es[k], model)
  BY <1>2, <1>5, <1>7, EntriesOfValue, EntriesCurrent
<1>10. CurrentInv'
  BY <1>3, <1>4, <1>9 DEF DeliveryInv, CurrentInv
<1>11. SuffixInv'
  <2>1. Len(es) = 0 + Len(es) /\ \A k \in DOMAIN es : es[k] = es[0 + k]
    BY <1>9
  <2>2. Entries(model', shape', tracking'.position) = es
    BY <1>2, <1>4, <1>8
  <2> QED
    BY <1>3, <1>8, <2>1, <2>2, Zenon DEF SuffixInv
<1>12. ASSUME NEW p \in Unshared, Visible(sink, p)', NEW i \in shape[p],
              Ahead(shape, client[sink].position, client[sink].value, p, i),
              ~Ahead(shape, n, 0, p, i)
       PROVE  Reached(p, i)
  <2>1. Visible(sink, p)
    BY <1>3, <1>4, <1>12, Zenon DEF Visible
  <2>2. p \in Positions /\ p \in Nat /\ Index(shape, p, i) \in Nat
    BY <1>2, <1>5, <1>12, PositionsAreNumbers, EntriesOfValue DEF Unshared
  <2>3. p < n
    BY <1>7, <1>12, <2>2 DEF Ahead
  <2>4. ASSUME NEW r \in Remaining PROVE p < r
    <3>1. r \in Nat /\ n <= r
      BY <1>6, <1>7, Zenon
    <3> QED
      BY <1>7, <2>2, <2>3, <3>1
  <2> QED
    BY <1>3, <1>12, <2>1, <2>4, SnapshotDone, Zenon
<1>13. \A p, i : Reached(p, i) => Reached(p, i)'
  BY <1>3, <1>4, <1>8, Zenon DEF Reached
<1>14. SnapshotInv'
  BY <1>3, <1>4, <1>8, <1>12, <1>13 DEF SnapshotInv
<1> QED
  BY <1>3, <1>10, <1>11, <1>14, SnapshotStep

(* One more entry of the position is counted.                              *)
LEMMA EntryCounted ==
    ASSUME SetFacts, StreamInv, DeliveryInv, phase = "pump", todo # << >>, todo' = Tail(todo),
           tracking'.position = tracking.position, tracking'.value = tracking.value + 1,
           UNCHANGED <<storeVars, sink>>
    PROVE  /\ SuffixInv' /\ tracking.position \in Positions
           /\ \A p \in Unshared : \A i \in shape[p] :
                 /\ Ahead(shape, tracking.position, tracking.value, p, i)
                 /\ ~Ahead(shape, tracking.position, tracking.value + 1, p, i)
                 => /\ p = tracking.position /\ Index(shape, p, i) = tracking.value
                    /\ Head(todo).path = Path[p] /\ i \in Head(todo).members
<1>1. StoreOK /\ TrackingOK /\ BuildOK /\ CursorInv /\ sink # NoClient
  BY Pumping, Zenon DEF StreamInv, BoundsInv
<1>2. tracking.position # 0 /\ tracking.position \in Positions /\ tracking.value \in Nat
  BY <1>1, Zenon DEF CursorInv, TrackingOK
<1>3. PICK es : es = Entries(model, shape, tracking.position)
  BY Zenon
<1>4. PICK ts, v : ts = todo /\ v = tracking.value
  BY Zenon
<1>5. ts \in Seq(EntrySet) /\ ts # << >> /\ v \in Nat /\ todo' = Tail(ts)
  BY <1>1, <1>2, <1>4 DEF BuildOK
<1>6. Len(es) = v + Len(ts) /\ \A k \in DOMAIN ts : ts[k] = es[v + k]
  BY <1>1, <1>2, <1>3, <1>4, Zenon DEF DeliveryInv, SuffixInv
<1>7. es \in Seq(EntrySet)
  BY <1>1, <1>2, <1>3, EntriesOfValue, Zenon
<1>8. SuffixInv'
  <2>1. PICK us : us = Tail(ts)
    BY Zenon
  <2>2. Len(us) = Len(ts) - 1 /\ \A k \in DOMAIN us : k \in Nat /\ k + 1 \in DOMAIN ts /\ us[k] = ts[k + 1]
    BY <1>5, <2>1
  <2>3. Len(ts) \in Nat
    BY <1>5
  <2>4. Len(es) = (v + 1) + Len(us)
    BY <1>5, <1>6, <2>2, <2>3
  <2>5. \A k \in DOMAIN us : us[k] = es[(v + 1) + k]
    <3> TAKE k \in DOMAIN us
    <3>1. us[k] = es[v + (k + 1)]
      BY <1>6, <2>2, Zenon
    <3>2. v + (k + 1) = (v + 1) + k
      BY <1>5, <2>2
    <3> QED
      BY <3>1, <3>2, Zenon
  <2>6. Entries(model', shape', tracking'.position) = es
    BY <1>3 DEF storeVars
  <2>7. todo' = us /\ tracking'.value = v + 1
    BY <1>4, <1>5, <2>1, Zenon
  <2> QED
    BY <2>4, <2>5, <2>6, <2>7 DEF SuffixInv
<1>9. ASSUME NEW p \in Unshared, NEW i \in shape[p],
             Ahead(shape, tracking.position, v, p, i),
             ~Ahead(shape, tracking.position, v + 1, p, i)
      PROVE  /\ p = tracking.position /\ Index(shape, p, i) = v
             /\ Head(todo).path = Path[p] /\ i \in Head(todo).members
  <2>1. p \in Positions
    BY DEF Unshared
  <2>2. Index(shape, p, i) \in Nat
    BY <1>1, <2>1, EntriesOfValue
  <2>3. p = tracking.position /\ Index(shape, p, i) = v
    BY <1>5, <1>9, <2>2 DEF Ahead
  <2>4. /\ v + 1 \in 1 .. Len(es) /\ es[v + 1].path = Path[p]
        /\ i \in es[v + 1].members
    BY <1>1, <1>3, <2>1, <2>3, EntriesOfValue
  <2>5. Head(todo) = ts[1] /\ 1 \in DOMAIN ts
    BY <1>4, <1>5
  <2>6. ts[1] = es[v + 1]
    BY <1>6, <2>5
  <2> QED
    BY <2>3, <2>4, <2>5, <2>6, Zenon
<1> QED
  BY <1>2, <1>4, <1>8, <1>9, ZenonT(30)

(* An entry the client already has is counted and left out.                *)
LEMMA SkipEntryDelivers ==
    ASSUME SetFacts, StreamInv, StreamInv', DeliveryInv, SkipEntry
    PROVE  DeliveryInv' /\ SentStep
<1>1. /\ phase = "pump" /\ todo # << >> /\ tracking.skip > 0 /\ todo' = Tail(todo)
      /\ tracking' = [tracking EXCEPT !.skip = @ - 1, !.value = @ + 1]
      /\ UNCHANGED <<storeVars, queueVars, client, phase, last_path, frame, sink>>
  BY DEF SkipEntry
<1>2. UNCHANGED <<model, shape, target_count, expired>>
  BY <1>1 DEF storeVars
<1>3. TrackingOK /\ BuildOK /\ CursorInv /\ sink # NoClient /\ StateOK(client[sink])
  BY <1>1, Pumping, Zenon DEF StreamInv, BoundsInv
<1>4. /\ tracking'.position = tracking.position /\ tracking'.value = tracking.value + 1
      /\ tracking'.frame_start = tracking.frame_start
  BY <1>1, <1>3 DEF TrackingOK
<1>5. /\ SuffixInv' /\ tracking.position \in Positions
      /\ \A p \in Unshared : \A i \in shape[p] :
            /\ Ahead(shape, tracking.position, tracking.value, p, i)
            /\ ~Ahead(shape, tracking.position, tracking.value + 1, p, i)
            => p = tracking.position /\ Index(shape, p, i) = tracking.value
  BY <1>1, <1>4, EntryCounted
<1>6. CurrentInv'
  <2>1. PICK ts : ts = todo
    OBVIOUS
  <2>2. ts \in Seq(EntrySet) /\ ts # << >>
    BY <1>1, <1>3, <2>1 DEF BuildOK
  <2>3. PICK us : us = Tail(ts)
    BY Zenon
  <2>4. \A k \in DOMAIN us : k + 1 \in DOMAIN ts /\ us[k] = ts[k + 1]
    BY <2>2, <2>3
  <2>5. \A k \in DOMAIN us : Current(us[k], model)
    BY <2>1, <2>4, Zenon DEF DeliveryInv, CurrentInv
  <2>6. todo' = us
    BY <1>1, <2>1, <2>3
  <2> QED
    BY <1>1, <1>2, <2>5, <2>6, Zenon DEF DeliveryInv, CurrentInv
<1>7. \A p, i : Reached(p, i) => Reached(p, i)'
  BY <1>1, <1>2, <1>4, Zenon DEF Reached
<1>8. /\ tracking.start \in Nat /\ tracking.position \in Nat \ {0} /\ tracking.value \in Nat
      /\ tracking.skip \in Nat /\ client[sink].value \in Nat /\ client[sink].position \in Nat
      /\ client[sink].position = 0 => client[sink].value = 0
  BY <1>3, <1>5, PositionsAreNumbers, PlacesAreNumbers, Zenon DEF TrackingOK, StateOK
<1>9. client[sink].position = tracking.position /\ tracking.value < client[sink].value
  <2>1. /\ tracking.start = IF client[sink].position = 0 THEN 1 ELSE client[sink].position
        /\ tracking.position >= tracking.start
        /\ ~ (tracking.position > tracking.start)
        /\ tracking.value + tracking.skip = client[sink].value
    BY <1>1, <1>3, <1>8 DEF CursorInv
  <2> QED
    BY <1>1, <1>8, <2>1
<1>10. ASSUME NEW p \in Unshared, Visible(sink, p)', NEW i \in shape[p],
              Ahead(shape, client[sink].position, client[sink].value, p, i),
              ~Ahead(shape, tracking.position, tracking.value + 1, p, i)
       PROVE  Reached(p, i)
  <2>1. Visible(sink, p)
    BY <1>1, <1>2, <1>10 DEF Visible
  <2>2. ~Ahead(shape, tracking.position, tracking.value, p, i)
    <3> SUFFICES ASSUME Ahead(shape, tracking.position, tracking.value, p, i)
                 PROVE  FALSE
      BY Zenon
    <3>1. p = tracking.position /\ Index(shape, p, i) = tracking.value
      BY <1>5, <1>10, Zenon
    <3>2. ~Ahead(shape, client[sink].position, client[sink].value, p, i)
      BY <1>8, <1>9, <3>1, NotAhead, Zenon
    <3> QED
      BY <1>10, <3>2, Zenon
  <2> QED
    BY <1>3, <1>8, <1>10, <2>1, <2>2, ZenonT(30) DEF DeliveryInv, SnapshotInv
<1>11. SnapshotInv'
  BY <1>1, <1>2, <1>4, <1>7, <1>10, Zenon DEF SnapshotInv
<1> QED
  BY <1>1, <1>5, <1>6, <1>11, SnapshotStep, Zenon

(* A value joins the delta of a snapshot.                                  *)
LEMMA AddSnapshotDelivers ==
    ASSUME SetFacts, StreamInv, StreamInv', DeliveryInv, AddSnapshot
    PROVE  DeliveryInv' /\ SentStep
<1>1. /\ phase = "pump" /\ todo # << >>
      /\ frame' = AddEntry(frame, Head(todo)) /\ todo' = Tail(todo)
      /\ tracking' = [tracking EXCEPT !.value = @ + 1,
                                      !.frame_start = IF frame.entries = << >>
                                                      THEN <<tracking.position, tracking.value>>
                                                      ELSE @]
      /\ UNCHANGED <<storeVars, queueVars, client, phase, last_path, sink>>
  BY Zenon DEF AddSnapshot, Added
<1>2. UNCHANGED <<model, shape, target_count, expired>>
  BY <1>1, Zenon DEF storeVars
<1>3. StoreOK /\ TrackingOK /\ CursorInv /\ sink # NoClient /\ StateOK(client[sink])
  BY <1>1, Pumping DEF StreamInv, BoundsInv
<1>4. /\ tracking'.position = tracking.position /\ tracking'.value = tracking.value + 1
      /\ tracking'.frame_start = IF frame.entries = << >>
                                 THEN <<tracking.position, tracking.value>>
                                 ELSE tracking.frame_start
  BY <1>1, <1>3 DEF TrackingOK
<1>5. /\ SuffixInv' /\ tracking.position \in Positions
      /\ \A p \in Unshared : \A i \in shape[p] :
            /\ Ahead(shape, tracking.position, tracking.value, p, i)
            /\ ~Ahead(shape, tracking.position, tracking.value + 1, p, i)
            => /\ p = tracking.position /\ Index(shape, p, i) = tracking.value
               /\ Head(todo).path = Path[p] /\ i \in Head(todo).members
  BY <1>1, <1>4, EntryCounted, Zenon
<1>6. /\ CurrentInv'
      /\ \A p, i : Covers(frame.entries, p, i) => Covers(frame'.entries, p, i)
      /\ \A p, i : Head(todo).path = Path[p] /\ i \in Head(todo).members => Covers(frame'.entries, p, i)
  BY <1>1, <1>2, MoveCovers DEF DeliveryInv
<1>7. /\ tracking.position \in Nat \ {0} /\ tracking.value \in Nat
      /\ tracking.frame_start[1] \in Nat /\ tracking.frame_start[2] \in Nat
  BY <1>3, <1>5, PositionsAreNumbers, PlacesAreNumbers, Zenon DEF TrackingOK
<1>8. \A p, i : Reached(p, i) => Reached(p, i)'
  <2> TAKE p, i
  <2>1. Covers(frame.entries, p, i) => tracking'.frame_start = tracking.frame_start
    BY <1>4 DEF Covers
  <2> QED
    BY <1>1, <1>2, <1>6, <2>1, Zenon DEF Reached
<1>9. ASSUME NEW p \in Unshared, Visible(sink, p)', NEW i \in shape[p],
             Ahead(shape, client[sink].position, client[sink].value, p, i),
             ~Ahead(shape, tracking.position, tracking.value + 1, p, i)
      PROVE  Reached(p, i)'
  <2>1. Visible(sink, p)
    BY <1>1, <1>2, <1>9, Zenon DEF Visible
  <2>2. CASE ~Ahead(shape, tracking.position, tracking.value, p, i)
    <3>1. Reached(p, i)
      BY <1>3, <1>7, <1>9, <2>1, <2>2, ZenonT(30) DEF DeliveryInv, SnapshotInv
    <3> QED
      BY <1>8, <3>1, Zenon
  <2>3. CASE Ahead(shape, tracking.position, tracking.value, p, i)
    <3>1. p \in Positions /\ p \in Nat /\ Index(shape, p, i) \in Nat
      BY <1>3, PositionsAreNumbers, EntriesOfValue, ZenonT(30) DEF Unshared
    <3>2. Covers(frame'.entries, p, i)
      BY <1>5, <1>6, <1>9, <2>3, ZenonT(30)
    <3>3. Ahead(shape, tracking'.frame_start[1], tracking'.frame_start[2], p, i)
      <4>1. CASE frame.entries = << >>
        <5>1. tracking'.frame_start[1] = tracking.position /\ tracking'.frame_start[2] = tracking.value
          BY <1>4, <4>1
        <5> QED
          BY <2>3, <5>1, Zenon
      <4>2. CASE frame.entries # << >>
        <5>1. NotAfter(tracking.frame_start[1], tracking.frame_start[2],
                       tracking.position, tracking.value)
          BY <1>3, <4>2, ZenonT(30) DEF CursorInv
        <5>2. Ahead(shape, tracking.frame_start[1], tracking.frame_start[2], p, i)
          BY <1>7, <2>3, <3>1, <5>1, AheadEarlier, ZenonT(30)
        <5> QED
          BY <1>4, <4>2, <5>2
      <4> QED
        BY <4>1, <4>2
    <3> QED
      BY <1>2, <3>2, <3>3, ZenonT(30) DEF Reached
  <2> QED
    BY <2>2, <2>3, Zenon
<1>10. SnapshotInv'
  BY <1>1, <1>2, <1>4, <1>9, Zenon DEF SnapshotInv
<1> QED
  BY <1>1, <1>5, <1>6, <1>10, SnapshotStep

(* A step of pump_one() that writes its client's entry loses nothing if    *)
(* what the client had or was owed it still has or is owed.                *)
LEMMA SinkDelivers ==
    ASSUME SetFacts, StreamInv, StreamInv', DeliveryInv, phase = "pump", sink # NoClient, NEW t,
           client' = [client EXCEPT ![sink] = t],
           UNCHANGED <<storeVars, queueVars, phase, last_path>>,
           SameStream(client[sink], t),
           \A p \in Unshared, i \in MemberIds :
              t.sent[Path[p]][i] \in {client[sink].sent[Path[p]][i], LastUpdate(model, p)},
           \A p \in Unshared : Visible(sink, p) =>
              \A i \in shape[p] :
                 Served(client[sink], model, shape, p, i) => Served(t, model, shape, p, i)
    PROVE  SentInv' /\ KeptInv' /\ RepeatInv' /\ SentStep
<1>1. UNCHANGED <<model, shape, target_count, expired, pending, lost>>
  BY ZenonT(30) DEF storeVars, queueVars
<1>2. sink \in Clients /\ DOMAIN client = Clients
  BY Pumping, ZenonT(30) DEF StreamInv, BoundsInv
<1>3. client'[sink] = t /\ \A d \in Clients \ {sink} : client'[d] = client[d]
  BY <1>2, ZenonT(30)
<1>4. SentInv' /\ SentStep
  <2>1. ASSUME NEW c \in Clients, NEW p \in Unshared, NEW i \in MemberIds PROVE SentKept(c, p, i)
    <3>1. CASE c = sink
      <4>1. client'[c] = t /\ client[c] = client[sink] /\ LastUpdate(model', p) = LastUpdate(model, p)
        BY <1>1, <1>3, <3>1, ZenonT(30)
      <4>2. \/ t.sent[Path[p]][i] = client[sink].sent[Path[p]][i]
            \/ t.sent[Path[p]][i] = LastUpdate(model, p)
        BY ZenonT(30)
      <4> QED
        BY <4>1, <4>2, Zenon DEF SentKept
    <3>2. CASE c # sink
      BY <1>3, <3>2, ZenonT(30) DEF SentKept
    <3> QED
      BY <3>1, <3>2, Zenon
  <2>2. \A q \in Positions : model[q] <= model'[q]
    BY <1>1, SameModel, Zenon
  <2> QED
    BY <2>1, <2>2, SentStays, ZenonT(30) DEF DeliveryInv
<1>5. ASSUME NEW c \in Clients, Streaming(c)', NEW q \in Unshared \ lost', Visible(c, q)',
             NEW i \in shape'[q]
      PROVE  Served(client'[c], model', shape', q, i) \/ ChangePending(q)'
  <2>1. SameStream(client[c], client'[c])
    BY <1>3, ZenonT(30) DEF SameStream
  <2>2. Streaming(c) /\ Visible(c, q) /\ i \in shape[q] /\ q \in Unshared \ lost
    BY <1>1, <1>5, <2>1, SameVisible, ZenonT(30) DEF Streaming, SameStream
  <2>3. Served(client[c], model, shape, q, i) \/ ChangePending(q)
    BY <2>2, ZenonT(30) DEF DeliveryInv, KeptInv, Underway
  <2>4. Served(client[c], model, shape, q, i) => Served(client'[c], model, shape, q, i)
    <3>1. CASE c = sink
      BY <1>3, <2>2, <3>1, ZenonT(30)
    <3>2. CASE c # sink
      BY <1>3, <3>2, Zenon
    <3> QED
      BY <3>1, <3>2, ZenonT(30)
  <2> QED
    BY <1>1, <2>3, <2>4, Zenon DEF ChangePending
<1>6. KeptInv'
  BY <1>5, Zenon DEF KeptInv
<1>7. RepeatInv'
  BY ZenonT(30) DEF DeliveryInv, RepeatInv
<1> QED
  BY <1>4, <1>6, <1>7, ZenonT(30)

(* pump_one() is done with its client.                                     *)
LEMMA LeaveDelivers ==
    ASSUME SetFacts, StreamInv, StreamInv', DeliveryInv, phase = "pump", sink # NoClient, NEW t, Leave(t),
           SameStream(client[sink], t),
           \A p \in Unshared, i \in MemberIds :
              t.sent[Path[p]][i] \in {client[sink].sent[Path[p]][i], LastUpdate(model, p)},
           \A p \in Unshared : Visible(sink, p) =>
              \A i \in shape[p] :
                 Served(client[sink], model, shape, p, i) => Served(t, model, shape, p, i)
    PROVE  DeliveryInv' /\ SentStep
<1>1. /\ client' = [client EXCEPT ![sink] = t]
      /\ sink' = NoClient /\ frame' = NoFrame /\ todo' = << >>
      /\ UNCHANGED <<storeVars, queueVars, phase, last_path>>
  BY ZenonT(30) DEF Leave
<1>2. last_path' = NoPath
  BY <1>1, ZenonT(30) DEF DeliveryInv, RepeatInv
<1>3. SentInv' /\ KeptInv' /\ SentStep
  BY <1>1, SinkDelivers, ZenonT(30)
<1> QED
  BY <1>1, <1>2, <1>3, NothingBuilt, ZenonT(30)

(* The client has no room: what the delta held is still ahead of the       *)
(* cursor.                                                                 *)
LEMMA RefusedDelivers ==
    ASSUME SetFacts, StreamInv, StreamInv', DeliveryInv, phase = "pump", sink # NoClient,
           frame.entries # << >>, Refused
    PROVE  DeliveryInv' /\ SentStep
<1>1. PICK s : s = client[sink]
  OBVIOUS
<1>2. PICK t : t = [s EXCEPT !.position = tracking.frame_start[1],
                             !.value = tracking.frame_start[2]]
  BY Zenon
<1>3. Leave(t)
  BY <1>1, <1>2, Zenon DEF Refused
<1>4. StoreOK /\ TrackingOK /\ CursorInv /\ StateOK(s)
  BY <1>1, Pumping DEF StreamInv, BoundsInv
<1>5. /\ SameStream(s, t) /\ SameOutput(s, t)
      /\ t.resync = s.resync /\ t.resync_again = s.resync_again
      /\ t.position = tracking.frame_start[1] /\ t.value = tracking.frame_start[2]
  BY <1>2, <1>4 DEF StateOK, StateFields, SameStream, SameOutput
<1>6. /\ tracking.position \in Nat /\ tracking.value \in Nat
      /\ tracking.frame_start[1] \in Nat /\ tracking.frame_start[2] \in Nat
  BY <1>4, PlacesAreNumbers, Zenon DEF TrackingOK
<1>7. /\ tracking.position # 0
      /\ NotAfter(tracking.frame_start[1], tracking.frame_start[2],
                  tracking.position, tracking.value)
  BY <1>4 DEF CursorInv
<1>8. t.sent = s.sent
  BY <1>5 DEF SameOutput
<1>9. ASSUME NEW p \in Unshared, Visible(sink, p), NEW i \in shape[p], Served(s, model, shape, p, i)
      PROVE  Served(t, model, shape, p, i)
  <2>1. CASE Has(s, model, p, i)
    BY <1>8, <2>1, Zenon DEF Served, Has
  <2>2. CASE Owed(s, shape, p, i) /\ s.resync_again
    BY <1>5, <2>2, ZenonT(30) DEF Served, Owed
  <2>3. CASE s.resync /\ Ahead(shape, s.position, s.value, p, i)
    <3>1. p \in Positions /\ p \in Nat /\ Index(shape, p, i) \in Nat
      BY <1>4, PositionsAreNumbers, EntriesOfValue DEF Unshared
    <3>2. \/ Has(s, model, p, i)
          \/ Ahead(shape, tracking.frame_start[1], tracking.frame_start[2], p, i)
      <4>1. CASE Ahead(shape, tracking.position, tracking.value, p, i)
        BY <1>6, <1>7, <3>1, <4>1, AheadEarlier, ZenonT(30)
      <4>2. CASE ~Ahead(shape, tracking.position, tracking.value, p, i)
        <5>1. Reached(p, i)
          BY <1>1, <1>7, <1>9, <2>3, <4>2, ZenonT(30) DEF DeliveryInv, SnapshotInv
        <5> QED
          BY <1>1, <5>1, ZenonT(30) DEF Reached
      <4> QED
        BY <4>1, <4>2, Zenon
    <3>3. CASE Ahead(shape, tracking.frame_start[1], tracking.frame_start[2], p, i)
      BY <1>5, <2>3, <3>3, Zenon DEF Served, Owed
    <3> QED
      BY <2>1, <3>2, <3>3, ZenonT(30)
  <2> QED
    BY <1>9, <2>1, <2>2, <2>3, Zenon DEF Served, Owed
<1>10. \A p \in Unshared, i \in MemberIds :
          t.sent[Path[p]][i] \in {client[sink].sent[Path[p]][i], LastUpdate(model, p)}
  BY <1>1, <1>8, Zenon
<1> QED
  BY <1>1, <1>3, <1>5, <1>9, <1>10, LeaveDelivers, ZenonT(30)

(* A delta of a snapshot is sent, or refused.                              *)
LEMMA FlushSnapshotDelivers ==
    ASSUME SetFacts, StreamInv, StreamInv', DeliveryInv, FlushSnapshot
    PROVE  DeliveryInv' /\ SentStep
<1>1. /\ phase = "pump" /\ todo # << >> /\ frame.entries # << >>
  BY ZenonT(30) DEF FlushSnapshot, MustFlush
<1>2. StoreOK /\ BuildOK /\ sink # NoClient /\ sink \in Clients /\ StateOK(client[sink]) /\ DOMAIN client = Clients
  BY <1>1, Pumping DEF StreamInv, BoundsInv
<1>3. CASE Refused
  BY <1>1, <1>2, <1>3, RefusedDelivers
<1>4. CASE /\ client' = [client EXCEPT ![sink] = Delivered(client[sink], frame)] /\ frame' = NoFrame
           /\ UNCHANGED <<storeVars, queueVars, phase, last_path, todo, pumpVars>>
  <2>1. PICK t, s : t = Delivered(client[sink], frame) /\ s = client[sink]
    OBVIOUS
  <2>2. StateOK(s) /\ Fitting(frame) /\ t = Delivered(s, frame)
    BY <1>2, <2>1 DEF BuildOK, FrameOK, Fitting
  <2>3. \A k \in DOMAIN frame.entries : Current(frame.entries[k], model)
    BY Zenon DEF DeliveryInv, CurrentInv
  <2>4. SameStream(s, t) /\ SameCatchUp(s, t)
    BY <2>2, DeliveredState, ZenonT(30) DEF StateOK
  <2>5. \A p \in Unshared, i \in MemberIds :
           /\ Has(s, model, p, i) => Has(t, model, p, i)
           /\ Covers(frame.entries, p, i) => Has(t, model, p, i)
           /\ Owed(s, shape, p, i) => Owed(t, shape, p, i)
           /\ t.sent[Path[p]][i] \in {s.sent[Path[p]][i], LastUpdate(model, p)}
    BY <2>2, <2>3, DeliveredServes, ZenonT(30)
  <2>6. \A p \in Unshared : shape[p] \subseteq MemberIds
    BY <1>2, Zenon DEF StoreOK, Unshared
  <2>7. client' = [client EXCEPT ![sink] = t] /\ client'[sink] = t
    BY <1>2, <1>4, <2>1
  <2>8. \A p \in Unshared : \A i \in shape[p] :
           Served(s, model, shape, p, i) => Served(t, model, shape, p, i)
    BY <2>5, <2>6, ZenonT(30) DEF Served
  <2>9. SentInv' /\ KeptInv' /\ RepeatInv' /\ SentStep
    BY <1>1, <1>2, <1>4, <2>1, <2>4, <2>5, <2>7, <2>8, SinkDelivers, ZenonT(30)
  <2>10. UNCHANGED <<model, shape, target_count, expired, sink, tracking, todo>> /\ frame'.entries = << >>
    BY <1>4 DEF storeVars, pumpVars, NoFrame
  <2>11. CurrentInv'
    BY <2>10 DEF DeliveryInv, CurrentInv
  <2>12. SuffixInv'
    BY <2>10, Zenon DEF DeliveryInv, SuffixInv
  <2>13. ASSUME tracking.position # 0, NEW p \in Unshared, Visible(sink, p)', NEW i \in shape[p],
                Ahead(shape, t.position, t.value, p, i),
                ~Ahead(shape, tracking.position, tracking.value, p, i)
         PROVE  Has(t, model, p, i)
    <3>1. Visible(sink, p)
      BY <2>1, <2>4, <2>7, <2>10, <2>13, ZenonT(30) DEF Visible, SameStream
    <3>2. Ahead(shape, client[sink].position, client[sink].value, p, i)
      BY <2>1, <2>4, <2>13, ZenonT(30) DEF SameCatchUp
    <3>3. Reached(p, i)
      BY <1>2, <2>13, <3>1, <3>2, ZenonT(30) DEF DeliveryInv, SnapshotInv
    <3> QED
      BY <2>1, <2>5, <2>6, <3>3, ZenonT(30) DEF Reached
  <2>14. SnapshotInv'
    BY <2>7, <2>10, <2>13, ZenonT(30) DEF SnapshotInv, Reached
  <2> QED
    BY <2>9, <2>11, <2>12, <2>14, Zenon DEF DeliveryInv
<1> QED
  BY <1>3, <1>4, Zenon DEF FlushSnapshot

(* The snapshot is complete: every value was sent, or the client is caught *)
(* up once more because a request was repeated meanwhile.                  *)
LEMMA EndSnapshotDelivers ==
    ASSUME SetFacts, StreamInv, StreamInv', DeliveryInv, EndSnapshot
    PROVE  DeliveryInv' /\ SentStep
<1>1. phase = "pump" /\ sink # NoClient /\ todo = << >> /\ Remaining = {}
  BY Zenon DEF EndSnapshot
<1>2. StoreOK /\ BuildOK /\ StateOK(client[sink])
  BY <1>1, Pumping, Zenon DEF StreamInv, BoundsInv
<1>3. CASE frame.entries # << >> /\ Refused
  BY <1>1, <1>3, RefusedDelivers
<1>4. ASSUME NEW s, StateOK(s), SameStream(client[sink], s), SameCatchUp(client[sink], s),
             \A p \in Unshared, i \in MemberIds :
                /\ Has(client[sink], model, p, i) \/ Covers(frame.entries, p, i) => Has(s, model, p, i)
                /\ s.sent[Path[p]][i] \in {client[sink].sent[Path[p]][i], LastUpdate(model, p)},
             Leave(Completed(s))
      PROVE  DeliveryInv' /\ SentStep
  <2>1. PICK t : t = Completed(s)
    BY Zenon
  <2>2. /\ SameStream(s, t) /\ SameOutput(s, t)
        /\ t.position = 0 /\ t.resync = s.resync_again
    BY <1>4, <2>1, CompletedState, ZenonT(30) DEF StateOK
  <2>3. SameStream(client[sink], t)
    BY <1>4, <2>2, ZenonT(30) DEF SameStream
  <2>4. t.sent = s.sent
    BY <2>2, Zenon DEF SameOutput
  <2>5. \A p \in Unshared, i \in MemberIds :
           /\ t.sent[Path[p]][i] \in {client[sink].sent[Path[p]][i], LastUpdate(model, p)}
           /\ Has(s, model, p, i) => Has(t, model, p, i)
    BY <1>4, <2>4, Zenon DEF Has
  <2>6. \A p \in Unshared : shape[p] \subseteq MemberIds
    BY <1>2, ZenonT(30) DEF StoreOK, Unshared
  <2>7. ASSUME NEW p \in Unshared, Visible(sink, p), NEW i \in shape[p],
               Served(client[sink], model, shape, p, i)
        PROVE  Served(t, model, shape, p, i)
    <3>1. i \in MemberIds
      BY <2>6
    <3>2. CASE client[sink].resync_again
      <4>1. t.resync
        BY <1>4, <2>2, <3>2, ZenonT(30) DEF SameCatchUp
      <4>2. 0 < p
        BY PositionsAreNumbers DEF Unshared
      <4> QED
        BY <2>2, <4>1, <4>2, ZenonT(30) DEF Served, Owed, Ahead
    <3>3. CASE Reached(p, i) \/ Has(client[sink], model, p, i)
      <4>1. Has(client[sink], model, p, i) \/ Covers(frame.entries, p, i)
        BY <3>3, Zenon DEF Reached
      <4>2. Has(s, model, p, i)
        BY <1>4, <3>1, <4>1, ZenonT(30)
      <4> QED
        BY <2>5, <3>1, <4>2, ZenonT(30) DEF Served
    <3>4. CASE Ahead(shape, client[sink].position, client[sink].value, p, i)
      <4>1. Reached(p, i)
        BY <1>1, <2>7, <3>4, SnapshotDone, ZenonT(30)
      <4> QED
        BY <3>3, <4>1, ZenonT(30)
    <3> QED
      BY <2>7, <3>2, <3>3, <3>4, ZenonT(30) DEF Served, Owed
  <2>8. Leave(t)
    BY <1>4, <2>1, ZenonT(30)
  <2> QED
    BY <1>1, <2>3, <2>5, <2>7, <2>8, LeaveDelivers, ZenonT(30)
<1>5. CASE frame.entries = << >> /\ Leave(Completed(client[sink]))
  <2>1. PICK s : s = client[sink]
    OBVIOUS
  <2>2. /\ StateOK(s) /\ SameStream(client[sink], s) /\ SameCatchUp(client[sink], s)
        /\ Leave(Completed(s))
    BY <1>2, <1>5, <2>1, ZenonT(30) DEF SameStream, SameCatchUp
  <2>3. \A p \in Unshared, i \in MemberIds :
           /\ Has(client[sink], model, p, i) \/ Covers(frame.entries, p, i) => Has(s, model, p, i)
           /\ s.sent[Path[p]][i] \in {client[sink].sent[Path[p]][i], LastUpdate(model, p)}
    BY <1>5, <2>1 DEF Covers
  <2> QED
    BY <1>4, <2>2, <2>3, Zenon
<1>6. CASE frame.entries # << >> /\ Leave(Completed(Delivered(client[sink], frame))) /\ Fits(client[sink], frame)
  <2>1. PICK s : s = Delivered(client[sink], frame)
    BY Zenon
  <2>2. Fitting(frame)
    BY <1>2, ZenonT(30) DEF BuildOK, FrameOK, Fitting
  <2>3. SameStream(client[sink], s) /\ SameCatchUp(client[sink], s)
    BY <1>2, <2>1, DeliveredState, ZenonT(30) DEF StateOK
  <2>4. StateOK(s)
    BY <1>2, <1>6, <2>1, <2>2, DeliveredOK, ZenonT(30)
  <2>5. \A k \in DOMAIN frame.entries : Current(frame.entries[k], model)
    BY Zenon DEF DeliveryInv, CurrentInv
  <2>6. \A p \in Unshared, i \in MemberIds :
           /\ Has(client[sink], model, p, i) \/ Covers(frame.entries, p, i) => Has(s, model, p, i)
           /\ s.sent[Path[p]][i] \in {client[sink].sent[Path[p]][i], LastUpdate(model, p)}
    BY <1>2, <2>1, <2>2, <2>5, DeliveredServes, ZenonT(30)
  <2>7. Leave(Completed(s))
    BY <1>6, <2>1, Zenon
  <2> QED
    BY <1>4, <2>3, <2>4, <2>6, <2>7, ZenonT(30)
<1> QED
  BY <1>3, <1>5, <1>6, ZenonT(30) DEF EndSnapshot

=============================================================================
