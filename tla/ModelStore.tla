----------------------------- MODULE ModelStore -----------------------------
(***************************************************************************)
(* ModelStore and SourceValueTable of src/signalk_mini/model_store.hpp     *)
(* with the SourceValueRecorder that observes every mark, and the part of  *)
(* publish_pending that chooses the value sent for a change: what happens  *)
(* to a path that several sources report.                                  *)
(*                                                                         *)
(* An input writes the fields of one sentence into the typed model and     *)
(* marks them one by one; nothing else runs until it has returned.  The    *)
(* marks depend on the kind of sentence only: a field the sentence leaves  *)
(* blank is marked without having been written.  A value is the number of  *)
(* the sentence that wrote it, which is also its time stamp, with the      *)
(* source it came from.                                                    *)
(***************************************************************************)
EXTENDS Integers, Sequences, FiniteSetsExt

CONSTANTS
    Fields,              \* ModelField
    Path,                \* the Signal K path of each field
    Joint,               \* the paths whose value is one object made of several fields
    Kept,                \* the fields whose value is a number, a boolean or a position
    AutopilotFields,     \* AutopilotMode and AutopilotEnabled
    Sources,             \* SourceId of the connectors
    NoSource,            \* SourceId 0
    NoPath,              \* nullptr
    Sentences,           \* the sequences of fields an input marks
    Blankable,           \* the fields a sentence may leave blank
    QueueCapacity,       \* of the change queue
    NoChange,            \* the publisher's ModelChange before its first pop
    TableCapacity,       \* DefaultSourceValueCapacity
    MaxChangesPerTick,   \* config.publisher.max_changes_per_tick
    MaxSentences         \* bound of the model on inputs

Paths == {Path[f] : f \in Fields}
EntrySlots == 1 .. TableCapacity

ASSUME StoreAssumption ==
    /\ NoSource \notin Sources /\ NoPath \notin Paths
    /\ Kept \subseteq Fields /\ AutopilotFields \subseteq Fields /\ Blankable \subseteq Fields
    /\ \A s \in Sentences : s \in Seq(Fields) /\ IsInjective(s)
    /\ QueueCapacity \in Nat \ {0} /\ TableCapacity \in Nat \ {0}
    /\ IsFiniteSet(Sources) /\ MaxChangesPerTick \in Nat /\ MaxSentences \in Nat

VARIABLES
    model,              \* model_: sentence and source that wrote each field
    latest_source_id,   \* latest_source_id_
    present,            \* present_bits_
    autopilot_state,    \* autopilot_state_last_update_us_ and autopilot_state_source_id_
    sequence,           \* sequence_, which is also marked_change_count_
    pending,            \* changes_
    change,             \* publish_pending: the change popped last
    multi_source,       \* SourceValueRecorder::multi_source_
    entries,            \* source_values_.entries_
    evicted_count,      \* source_values_.evicted_count_
    sentences,          \* the number of inputs so far, the model's clock
    marking,            \* the input in progress: its source, its blanks and the fields left to mark
    publishing,         \* publish_pending is running
    processed,          \* publish_pending: changes popped in this call
    last,               \* publish_pending: source of the open delta and last_path
    delta,              \* history: the value sent last
    own                 \* history: the last mark of each field by each source

storeVars == <<latest_source_id, present, autopilot_state, sequence>>
queueVars == <<pending, change>>
tableVars == <<multi_source, entries, evicted_count>>
publishVars == <<publishing, processed, last, delta>>
vars == <<model, storeVars, queueVars, tableVars, sentences, marking, publishVars, own>>

Changes == [field : Fields, source_id : Sources, sequence : Nat]

Queue == INSTANCE CoalescingQueue WITH Change <- Changes, Capacity <- QueueCapacity

Unwritten == [at |-> 0, by |-> NoSource]
Empty == [path |-> NoPath, source_id |-> NoSource, last_update |-> 0, value |-> << >>]
NoDelta == [source_id |-> NoSource, field |-> NoPath, value |-> << >>]
Nothing == [source_id |-> NoSource, path |-> NoPath]

Init ==
    /\ model = [f \in Fields |-> Unwritten]
    /\ latest_source_id = [f \in Fields |-> NoSource]
    /\ present = {}
    /\ autopilot_state = Unwritten
    /\ sequence = 0
    /\ Queue!Init
    /\ multi_source = {}
    /\ entries = [i \in EntrySlots |-> Empty]
    /\ evicted_count = 0
    /\ sentences = 0
    /\ marking = [source |-> NoSource, blank |-> {}, fields |-> << >>]
    /\ publishing = FALSE /\ processed = 0 /\ last = Nothing /\ delta = NoDelta
    /\ own = [s \in Sources |-> [f \in Fields |-> [at |-> 0, written |-> FALSE, tracked |-> FALSE]]]

-----------------------------------------------------------------------------
(* The mapper: the value of a field's path, out of the fields it is made   *)
(* of.                                                                     *)

Parts(f) == IF Path[f] \in Joint THEN {g \in Fields : Path[g] = Path[f]} ELSE {f}
Mapped(f) == \A g \in Parts(f) : model[g] # Unwritten
Value(f) == [g \in Parts(f) |-> model[g]]

-----------------------------------------------------------------------------
(* SourceValueTable                                                        *)

Entry(path, s) == {i \in EntrySlots : entries[i].path = path /\ entries[i].source_id = s}
Free == {i \in EntrySlots : entries[i] = Empty}

(* The search for the oldest entry with > for <, and the choice of a slot  *)
(* without a search for the entry to replace, for mutation runs.           *)
Oldest_is_newest == {i \in EntrySlots : \A j \in EntrySlots : entries[i].last_update >= entries[j].last_update}

Oldest == {i \in EntrySlots : \A j \in EntrySlots : entries[i].last_update <= entries[j].last_update}

EntryFor_any(path, s) == Min(IF Free # {} THEN Free ELSE Oldest)

(* The slot record() writes: the entry of this path and source, else the   *)
(* first empty one, else the first of the oldest.                          *)
EntryFor(path, s) ==
    Min(IF Entry(path, s) # {} THEN Entry(path, s)
        ELSE IF Free # {} THEN Free
        ELSE Oldest)

record(e) ==
    /\ entries' = [entries EXCEPT ![EntryFor(e.path, e.source_id)] = e]
    /\ evicted_count' = IF Entry(e.path, e.source_id) = {} /\ Free = {}
                        THEN evicted_count + 1 ELSE evicted_count

-----------------------------------------------------------------------------
(* mark_changed                                                            *)

(* on_model_marked() that takes a field nobody wrote for one of another    *)
(* source, and one that records a value only when the source changes, for  *)
(* mutation runs.                                                          *)
on_model_marked_any_previous(f, s) ==
    /\ multi_source' = IF latest_source_id[f] # s THEN multi_source \cup {f} ELSE multi_source
    /\ IF f \in multi_source' \cap Kept /\ Mapped(f)
       THEN record([path |-> Path[f], source_id |-> s, last_update |-> sentences, value |-> Value(f)])
       ELSE UNCHANGED <<entries, evicted_count>>
on_model_marked_on_switch(f, s) ==
    LET switched == f \in present /\ latest_source_id[f] # s
    IN  /\ multi_source' = IF switched THEN multi_source \cup {f} ELSE multi_source
        /\ IF switched /\ f \in Kept /\ Mapped(f)
           THEN record([path |-> Path[f], source_id |-> s, last_update |-> sentences, value |-> Value(f)])
           ELSE UNCHANGED <<entries, evicted_count>>

(* SourceValueRecorder::on_model_marked                                    *)
on_model_marked(f, s) ==
    /\ multi_source' = IF f \in present /\ latest_source_id[f] # s
                       THEN multi_source \cup {f} ELSE multi_source
    /\ IF f \in multi_source' \cap Kept /\ Mapped(f)
       THEN record([path |-> Path[f], source_id |-> s, last_update |-> sentences, value |-> Value(f)])
       ELSE UNCHANGED <<entries, evicted_count>>

(* record_current() that leaves the presence bit alone, for a mutation     *)
(* run.                                                                    *)
record_current_absent(f, s) ==
    /\ latest_source_id' = [latest_source_id EXCEPT ![f] = s]
    /\ UNCHANGED present

record_current(f, s) ==
    /\ latest_source_id' = [latest_source_id EXCEPT ![f] = s]
    /\ present' = present \cup {f}

push(c) == Queue!Replace(c) \/ Queue!Join(c) \/ Queue!Displace(c)

mark_changed ==
    LET f == Head(marking.fields)
        s == marking.source
    IN  /\ marking.fields # << >>
        /\ on_model_marked(f, s)
        /\ record_current(f, s)
        /\ autopilot_state' = IF f \in AutopilotFields THEN [at |-> sentences, by |-> s] ELSE autopilot_state
        /\ sequence' = sequence + 1
        /\ push([field |-> f, source_id |-> s, sequence |-> sequence + 1])
        /\ marking' = [marking EXCEPT !.fields = Tail(@)]
        /\ own' = [own EXCEPT ![s][f] = [at |-> sentences, written |-> f \notin marking.blank,
                                          tracked |-> f \in multi_source']]
        /\ UNCHANGED <<model, sentences, publishVars>>

(* An input handles a sentence: the typed model is written first.          *)
Write(s, fields, blank) ==
    /\ marking.fields = << >> /\ ~publishing
    /\ sentences < MaxSentences
    /\ sentences' = sentences + 1
    /\ model' = [f \in Fields |-> IF f \in Range(fields) \ blank
                                  THEN [at |-> sentences + 1, by |-> s] ELSE model[f]]
    /\ marking' = [source |-> s, blank |-> blank, fields |-> fields]
    /\ UNCHANGED <<storeVars, queueVars, tableVars, publishVars, own>>

-----------------------------------------------------------------------------
(* publish_pending                                                         *)

BeginPublish ==
    /\ marking.fields = << >> /\ ~publishing
    /\ publishing' = TRUE
    /\ UNCHANGED <<model, storeVars, queueVars, tableVars, sentences, marking, processed, last, delta, own>>

(* The value sent for a change, without the look-up of the source's own    *)
(* value, for a mutation run.                                              *)
ValueFor_model(f, s) == Value(f)

(* The value sent for a change: what find() has for its source, or what    *)
(* the model holds.                                                        *)
ValueFor(f, s) ==
    IF Entry(Path[f], s) # {} THEN entries[Min(Entry(Path[f], s))].value ELSE Value(f)

PublishChange ==
    LET f == Head(pending).field
        s == Head(pending).source_id
        key == [source_id |-> s, path |-> Path[f]]
    IN  /\ publishing /\ processed < MaxChangesPerTick
        /\ Queue!Take
        /\ processed' = processed + 1
        /\ IF Mapped(f) /\ last # key
           THEN /\ last' = key
                /\ delta' = [source_id |-> s, field |-> f, value |-> ValueFor(f, s)]
           ELSE UNCHANGED <<last, delta>>
        /\ UNCHANGED <<model, storeVars, tableVars, sentences, marking, publishing, own>>

EndPublish ==
    /\ publishing
    /\ processed = MaxChangesPerTick \/ pending = << >>
    /\ publishing' = FALSE /\ processed' = 0 /\ last' = Nothing /\ delta' = NoDelta
    /\ UNCHANGED <<model, storeVars, queueVars, tableVars, sentences, marking, own>>

Next ==
    \/ \E s \in Sources, fields \in Sentences :
          \E blank \in SUBSET (Blankable \cap Range(fields)) : Write(s, fields, blank)
    \/ mark_changed
    \/ BeginPublish \/ PublishChange \/ EndPublish

Spec == Init /\ [][Next]_vars

-----------------------------------------------------------------------------

Idle == marking.fields = << >> /\ ~publishing

(* Every variable has its type; a field is present exactly when some       *)
(* source is on record for it.                                             *)
StoreTypeOK ==
    /\ \A f \in Fields : model[f].at \in 0 .. sentences /\ model[f].by \in Sources \cup {NoSource}
    /\ latest_source_id \in [Fields -> Sources \cup {NoSource}]
    /\ present = {f \in Fields : latest_source_id[f] # NoSource}
    /\ sequence \in Nat /\ evicted_count \in Nat
    /\ pending \in Seq(Changes) /\ Len(pending) <= QueueCapacity
    /\ multi_source \subseteq Fields
    /\ \A i \in EntrySlots : entries[i].path \in Paths \cup {NoPath}
    /\ processed \in 0 .. MaxChangesPerTick

(* "A path becomes multi-source the first time a second source overwrites  *)
(* it", and only then: the bit survives a source falling silent and does   *)
(* not come from a first write.                                            *)
MultiSourceExactly ==
    Idle => \A f \in Fields :
        f \in multi_source <=> Cardinality({s \in Sources : own[s][f].at # 0}) >= 2

(* The table has at most one entry for a path and source, whatever was     *)
(* evicted in between, so find() and the REST "values" agree.              *)
OneEntryEach ==
    \A i, j \in EntrySlots :
        /\ entries[i] # Empty
        /\ entries[i].path = entries[j].path /\ entries[i].source_id = entries[j].source_id
        => i = j

(* What source s wrote last to each field the value is made of, in a       *)
(* sentence that did not leave it blank.                                   *)
WrittenBy(s, fields) == \A f \in fields : own[s][f].written
OwnLatest(s, value) == \A f \in DOMAIN value : value[f] = [at |-> own[s][f].at, by |-> s]

(* "This bounded table keeps each source's latest value": an entry has     *)
(* what its source wrote last to each field of the path, never a value of  *)
(* another source and never an older one of its own, unless that source's  *)
(* last sentence left the field blank.                                     *)
TableHoldsLatest ==
    Idle => \A i \in EntrySlots : entries[i] # Empty =>
        LET s == entries[i].source_id
        IN  WrittenBy(s, DOMAIN entries[i].value) => OwnLatest(s, entries[i].value)

(* "The oldest is replaced when full": an entry leaves the table only when *)
(* all others have been updated at least as recently.                      *)
OldestReplaced ==
    [][\A i \in EntrySlots :
          \/ entries[i] = Empty
          \/ \E k \in EntrySlots : /\ entries'[k].path = entries[i].path
                              /\ entries'[k].source_id = entries[i].source_id
          \/ \A j \in EntrySlots : entries[j] # Empty /\ entries[i].last_update <= entries[j].last_update]_vars

(* Once a source's update was recorded and nothing was evicted since, a    *)
(* delta for it carries the source's own latest value, however many other  *)
(* sources wrote the field before it was published.                        *)
DeltaOwnValue ==
    LET s == delta.source_id
    IN  /\ delta # NoDelta /\ delta.field \in Kept /\ evicted_count = 0
        /\ own[s][delta.field].tracked /\ WrittenBy(s, DOMAIN delta.value)
        => OwnLatest(s, delta.value)

(* "each source's latest value, keyed by source ref": what the table has   *)
(* for a source came from that source.                                     *)
EntryIsOwn ==
    \A i \in EntrySlots : \A f \in DOMAIN entries[i].value : entries[i].value[f].by = entries[i].source_id

(* The table of source values is in order: one entry each, with the latest *)
(* its source wrote, and presence on record for exactly the fields seen.   *)
TableConsistent == StoreTypeOK /\ OneEntryEach /\ TableHoldsLatest

=============================================================================
