------------------------------ MODULE SkyView ------------------------------
(***************************************************************************)
(* The satellites in view: apply_gsv of nmea_gnss.hpp.                     *)
(*                                                                         *)
(* A receiver reports its satellites in a cycle of GSV sentences for each  *)
(* talker (GP, GL, ...), at most GroupSize satellites in a sentence.  The  *)
(* sentence is read into a record that keeps what it had where a field is  *)
(* blank, and from there into its place in the sky view.  An observation   *)
(* is the cycle and the sentence its elevation was reported in.            *)
(***************************************************************************)
EXTENDS Integers, FiniteSetsExt

CONSTANTS GnssTalkers,    \* GP, GL, GA, ...
          GroupSize,      \* 4, the satellites of a sentence
          MaxGsvTotal,    \* bound of the model on the sentences of a cycle
          MaxGsv          \* bound of the model on sentences

ASSUME SkyAssumption == GroupSize \in Nat \ {0} /\ MaxGsvTotal \in Nat

VARIABLES sky_rec,        \* satellites_in_view: the last value of each column
          sky_view,       \* sky_view
          sky_cycle,      \* environment: each talker's cycle and its last sentence
          sky_count,      \* sentences so far
          sky_departed    \* history: a first sentence was lost, or a field was blank

sky_vars == <<sky_rec, sky_view, sky_cycle, sky_count, sky_departed>>

Nothing == [talker |-> "none", cycle |-> 0, number |-> 0]

\* For a mutation run: the view is cleared by a first sentence only.
Cleared_First(talker, number) ==
    IF number = 1
    THEN [talker |-> talker, observations |-> [p \in {} |-> Nothing]]
    ELSE [talker |-> talker, observations |-> sky_view.observations]

\* The observations the sentence adds to.
Cleared(talker, number) ==
    IF number = 1 \/ talker # sky_view.talker
    THEN [talker |-> talker, observations |-> [p \in {} |-> Nothing]]
    ELSE [talker |-> talker, observations |-> sky_view.observations]

\* Sentence number of total of a talker's cycle, with so many satellites,
\* those of the set reported with an elevation.
apply_gsv(talker, cycle, number, total, satellites, reported) ==
    LET rec == [c \in 1..GroupSize |->
                   IF c \in reported THEN [talker |-> talker, cycle |-> cycle, number |-> number]
                   ELSE sky_rec[c]]
        start == (number - 1) * GroupSize
        base == Cleared(talker, number)
        filled == { start + c : c \in 1..satellites }
    IN /\ sky_rec' = rec
       /\ sky_view' =
            [talker |-> base.talker,
             observations |-> [p \in DOMAIN base.observations \union filled |->
                 IF p \in filled /\ rec[p - start] # Nothing THEN rec[p - start]
                 ELSE IF p \in DOMAIN base.observations THEN base.observations[p] ELSE Nothing],
             complete |-> number = total,
             sequence |-> IF number = total THEN sky_view.sequence + 1 ELSE sky_view.sequence]

\* The next sentence of a talker's cycle, or a later one if some were lost, or
\* a sentence of its next cycle.
Gsv(talker, number, next, satellites, reported) ==
    LET now == sky_cycle[talker]
        cycle == IF next THEN now.cycle + 1 ELSE now.cycle
    IN /\ sky_count < MaxGsv
       /\ sky_count' = sky_count + 1
       /\ next \/ (now.cycle # 0 /\ now.number < number)
       /\ reported \subseteq 1..satellites
       /\ number # MaxGsvTotal => satellites = GroupSize
       /\ apply_gsv(talker, cycle, number, MaxGsvTotal, satellites, reported)
       /\ sky_cycle' = [sky_cycle EXCEPT ![talker] = [cycle |-> cycle, number |-> number]]
       /\ sky_departed' = (sky_departed \/ (next /\ number # 1) \/ reported # 1..satellites)

SkyInit ==
    /\ sky_rec = [c \in 1..GroupSize |-> Nothing]
    /\ sky_view = [talker |-> "none", observations |-> [p \in {} |-> Nothing],
                   complete |-> FALSE, sequence |-> 0]
    /\ sky_cycle = [t \in GnssTalkers |-> [cycle |-> 0, number |-> 0]]
    /\ sky_count = 0
    /\ sky_departed = FALSE

SkyNext ==
    \E talker \in GnssTalkers, number \in 1..MaxGsvTotal, next \in BOOLEAN :
        \E satellites \in 1..GroupSize, reported \in SUBSET (1..GroupSize) :
            Gsv(talker, number, next, satellites, reported)

SkySpec == SkyInit /\ [][SkyNext]_sky_vars

\* The sky view shows satellites of one talker and one cycle, each in the
\* sentence that reported it, whatever sentences after the first were lost and
\* however the talkers alternate.  It does not hold once a first sentence was
\* lost (the cycle before shows through) or a field was blank (the record's
\* last value of the column is taken).
SkyOneCycle ==
    ~sky_departed => \A p, q \in DOMAIN sky_view.observations :
        LET o == sky_view.observations[p]
            r == sky_view.observations[q]
        IN o # Nothing /\ r # Nothing =>
               /\ o.talker = sky_view.talker
               /\ o.cycle = r.cycle
               /\ o.number = (p - 1) \div GroupSize + 1

=============================================================================
