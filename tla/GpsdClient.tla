------------------------------ MODULE GpsdClient ------------------------------
(***************************************************************************)
(* The GPSD client (gpsd_client.hpp): records separated by newlines, with  *)
(* a record that is too long discarded up to its end, and the session      *)
(* state.  Connections end anywhere in a record.                           *)
(*                                                                         *)
(* A byte of a record is the number of its record and its place in it.     *)
(***************************************************************************)
EXTENDS Naturals, SequencesExt

CONSTANTS
    GpsdRecordLimit,  \* MaxRecordLength
    GpsdLengths,      \* lengths of the records sent
    MaxGpsdRecords    \* bound: records sent

VARIABLES
    gpsd  \* the client and the rest of the record on its way

gpsdVars == <<gpsd>>

Newline == <<0, 1>>
Return == <<0, 2>>

\* Records that change the session, and all others.
RecordKinds == {"WATCH", "other"}
NoRecord == [n |-> 0, kind |-> "none", length |-> 0, cr |-> FALSE]
RecordBytes(r) == [i \in 1 .. r.length |-> <<r.n, i>>]

GpsdInit ==
    gpsd = [connected |-> FALSE, state |-> "Disconnected", record |-> <<>>, discarding |-> FALSE,
            incoming |-> NoRecord, line |-> <<>>, count |-> 0,
            accepted |-> <<>>, watched |-> FALSE]

\* As if a record that is being discarded stayed so.
reset_record_Discards(g) == [g EXCEPT !.record = <<>>]

reset_record(g) == [g EXCEPT !.record = <<>>, !.discarding = FALSE]

\* What a record that is whole says; anything else is no JSON object.
accept_record(g, record) ==
    LET r == g.incoming
        whole == record = RecordBytes(r)
    IN  IF record = <<>> THEN g
        ELSE [g EXCEPT !.accepted = record,
                       !.state = IF whole /\ r.kind = "WATCH" THEN "Watching" ELSE @]

WithoutReturns(record) ==
    IF record # <<>> /\ Last(record) = Return THEN Front(record) ELSE record

accept_octet(g, byte) ==
    IF g.discarding THEN (IF byte = Newline THEN reset_record(g) ELSE g)
    ELSE IF byte = Newline THEN reset_record(accept_record(g, WithoutReturns(g.record)))
    ELSE IF Len(g.record) >= GpsdRecordLimit THEN [g EXCEPT !.discarding = TRUE]
    ELSE [g EXCEPT !.record = Append(@, byte)]
------------------------------------------------------------------------------
\* As if the session went on where the last connection ended.
on_connected_Resumes ==
    /\ ~gpsd.connected
    /\ gpsd' = [reset_record(gpsd) EXCEPT !.connected = TRUE, !.watched = FALSE]

on_connected ==
    /\ ~gpsd.connected
    /\ gpsd' = [reset_record(gpsd) EXCEPT !.connected = TRUE, !.state = "WaitingForVersion", !.watched = FALSE]

\* What is left of the record on its way is lost with the connection.
on_disconnected ==
    /\ gpsd.connected
    /\ gpsd' = [reset_record(gpsd) EXCEPT !.connected = FALSE, !.state = "Disconnected",
                                          !.incoming = NoRecord, !.line = <<>>]

\* The server sends the next record, with or without a carriage return.
SendRecord(kind, length, cr) ==
    LET r == [n |-> gpsd.count + 1, kind |-> kind, length |-> length, cr |-> cr]
    IN  /\ gpsd.connected /\ gpsd.line = <<>> /\ gpsd.count < MaxGpsdRecords
        /\ gpsd' = [gpsd EXCEPT !.incoming = r, !.count = @ + 1, !.accepted = <<>>,
                                !.line = RecordBytes(r) \o (IF cr THEN <<Return>> ELSE <<>>) \o <<Newline>>]

\* The carriage return takes a place in the buffer.
Fits(r) == r.length > 0 /\ r.length + (IF r.cr THEN 1 ELSE 0) <= GpsdRecordLimit

\* accept_octets with the next n bytes of the connection.
AcceptOctets(n) ==
    LET taken == FoldLeft(accept_octet, gpsd, SubSeq(gpsd.line, 1, n))
        rest == SubSeq(gpsd.line, n + 1, Len(gpsd.line))
        watch == rest = <<>> /\ gpsd.incoming.kind = "WATCH" /\ Fits(gpsd.incoming)
    IN  gpsd' = [taken EXCEPT !.line = rest, !.watched = @ \/ watch]

GpsdNext ==
    \/ on_connected
    \/ on_disconnected
    \/ \E kind \in RecordKinds, length \in GpsdLengths, cr \in BOOLEAN : SendRecord(kind, length, cr)
    \/ \E n \in 1 .. Len(gpsd.line) : AcceptOctets(n)

GpsdSpec == GpsdInit /\ [][GpsdNext]_gpsdVars
------------------------------------------------------------------------------
(***************************************************************************)
(* A record is accepted as it was sent on this connection, in whatever     *)
(* pieces it arrives, and every record that fits is: neither a record that *)
(* is too long nor a connection that ends inside one costs the next record *)
(* or gives it a beginning that is not its own.                            *)
(***************************************************************************)
GpsdRecords ==
    gpsd.incoming # NoRecord =>
        gpsd.accepted = IF gpsd.line = <<>> /\ Fits(gpsd.incoming) THEN RecordBytes(gpsd.incoming) ELSE <<>>

(***************************************************************************)
(* The session is what the records of this connection made it: a server    *)
(* that was watched before a reconnect is not taken to be watched after.   *)
(***************************************************************************)
GpsdSession ==
    gpsd.state = IF ~gpsd.connected THEN "Disconnected"
                 ELSE IF gpsd.watched THEN "Watching" ELSE "WaitingForVersion"

(***************************************************************************)
(* Records and session both are of the present connection.                 *)
(***************************************************************************)
GpsdConsistent == GpsdRecords /\ GpsdSession

===============================================================================
