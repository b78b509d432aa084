----------------------------- MODULE RestStream -----------------------------
(***************************************************************************)
(* A REST response that does not fit the client's transmit buffer          *)
(* (signalk_rest_stream.hpp, signalk_http.hpp).  Each pass generates the   *)
(* document again from the model, skips the leaves that were sent, checks  *)
(* that the skipped part has the structure it had, and sends leaf by leaf  *)
(* while there is room.  The model changes between passes: values change,  *)
(* appear and are withdrawn.                                               *)
(*                                                                         *)
(* A document is the sequence of its leaves in the writer's order; the     *)
(* structure of a part of it is the sequence of the leaves' keys.  The CRC *)
(* over the structure is taken to tell structures apart.                   *)
(***************************************************************************)
EXTENDS Integers, SequencesExt

CONSTANTS
    LeafCount,      \* leaves the model can have; leaf i is written before i + 1
    LongLeaves,     \* leaves longer than a segment of the sink (in two pieces)
    RoomLimit,      \* pieces the transmit buffer holds
    RestTimeout,    \* publisher.stalled_client_timeout_ms
    MaxModelSteps   \* bound: changes of the model's structure

VARIABLES
    rs  \* [present, steps, queued, job, header, sent, crc, idle, got, result]

rsVars == <<rs>>

Leaves == 1 .. LeafCount

\* The document's leaves, as write_api_path writes them.
Document(present) == SelectSeq([i \in Leaves |-> i], LAMBDA i : i \in present)
Room(r) == RoomLimit - r.queued

RsInit ==
    \E present \in SUBSET Leaves :
        /\ present # {}
        /\ rs = [present |-> present, steps |-> 0, queued |-> 0,
                 job |-> FALSE, header |-> FALSE, sent |-> 0, crc |-> <<>>, idle |-> 0,
                 got |-> <<>>, result |-> "none"]

\* As if a document that lost leaves were taken for the rest of the response.
Unchanged_Prefix(r, doc) == Len(doc) >= r.sent => SubSeq(doc, 1, r.sent) = r.crc

\* boundary() at the last leaf that was sent, and finish(): the part skipped
\* is as long as what was sent, and has its structure.
Unchanged(r, doc) == Len(doc) >= r.sent /\ SubSeq(doc, 1, r.sent) = r.crc

\* append() and commit() of the next leaf: a leaf that fits a segment waits
\* for room, a longer one that does not fit now cannot be resumed.
Pieces(leaf) == IF leaf \in LongLeaves THEN 2 ELSE 1
CommitLeaf(r, doc, i) ==
    IF r.result # "none" THEN r
    ELSE IF Room(r) >= Pieces(doc[i])
    THEN [r EXCEPT !.queued = @ + Pieces(doc[i]), !.got = Append(@, doc[i]),
                   !.sent = i, !.crc = SubSeq(doc, 1, i)]
    ELSE [r EXCEPT !.result = IF doc[i] \in LongLeaves THEN "Failed" ELSE "Paused"]

\* The punctuation that closes the document is committed by finish().
FinishDocument(r) ==
    IF r.result # "none" THEN r
    ELSE IF Room(r) >= 1 THEN [r EXCEPT !.queued = @ + 1, !.result = "Complete"]
    ELSE [r EXCEPT !.result = "Paused"]

\* One pass of the sink over the regenerated document.
Pass(r) ==
    LET doc == Document(r.present)
        rest == [i \in 1 .. Len(doc) - r.sent |-> r.sent + i]
        Commit(acc, i) == CommitLeaf(acc, doc, i)
    IN  IF doc = <<>> \/ ~Unchanged(r, doc) THEN [r EXCEPT !.result = "Failed"]
        ELSE FinishDocument(FoldLeft(Commit, r, rest))

\* The header goes out before the first leaf, when there is room for it.
WithHeader(r) ==
    IF ~r.header /\ Room(r) >= 1 THEN [r EXCEPT !.header = TRUE, !.queued = @ + 1, !.idle = 0] ELSE r

\* As if every pass counted as progress.
Progressed_Always(before, after) == TRUE

Progressed(before, after) == after.sent # before.sent

\* A pass that ends or fails gives the job back; one that pauses for longer
\* than the timeout without a leaf sent is given up.
pump_job(r) ==
    LET h == WithHeader(r)
        p == IF h.header THEN Pass(h) ELSE [h EXCEPT !.result = "Paused"]
        q == IF Progressed(h, p) THEN [p EXCEPT !.idle = 0] ELSE p
        result == IF q.result = "Paused" /\ q.idle > RestTimeout THEN "Failed" ELSE q.result
    IN  IF result = "Paused" THEN [q EXCEPT !.result = "none"]
        ELSE [q EXCEPT !.job = FALSE, !.result = result]
------------------------------------------------------------------------------
\* A request whose document, counted first, does not fit the room left is held
\* as a job; one that fits is written in the same call.
Request ==
    LET doc == Document(rs.present)
        size == FoldLeft(LAMBDA n, leaf : n + Pieces(leaf), 2, doc)
    IN  /\ ~rs.job /\ rs.result = "none" /\ doc # <<>>
        /\ rs' = IF size > Room(rs) THEN [rs EXCEPT !.job = TRUE]
                 ELSE [rs EXCEPT !.got = doc, !.header = TRUE, !.result = "Complete", !.queued = @ + size]

\* pump() when the socket took the queue, pump_all() from the timer.
Pump ==
    /\ rs.job
    /\ rs' = pump_job(rs)

\* The model: a leaf appears or is withdrawn (its values change at any time).
Appear(i) ==
    /\ rs.steps < MaxModelSteps /\ i \notin rs.present /\ rs.result = "none"
    /\ rs' = [rs EXCEPT !.present = @ \cup {i}, !.steps = @ + 1]
Withdraw(i) ==
    /\ rs.steps < MaxModelSteps /\ i \in rs.present /\ rs.result = "none"
    /\ rs' = [rs EXCEPT !.present = @ \ {i}, !.steps = @ + 1]

\* The client reads, or time passes without it reading.
Read(n) ==
    /\ rs.queued >= n
    /\ rs' = [rs EXCEPT !.queued = @ - n]
Elapse ==
    /\ rs.job /\ rs.idle <= RestTimeout
    /\ rs' = [rs EXCEPT !.idle = @ + 1]

RsNext ==
    \/ Request
    \/ Pump
    \/ \E i \in Leaves : Appear(i) \/ Withdraw(i)
    \/ \E n \in 1 .. RoomLimit : Read(n)
    \/ Elapse

RsSpec == RsInit /\ [][RsNext]_rsVars

\* The publish timer pumps the jobs and the clock runs; nothing is assumed of
\* the client.
RsFairness == WF_rsVars(Pump) /\ WF_rsVars(Elapse)
------------------------------------------------------------------------------
(***************************************************************************)
(* A response that completes has the leaves of the document as it was in   *)
(* the last pass, each once and in order, although it was put together     *)
(* from documents of several passes; while it is held, what the job        *)
(* remembers is what the client was sent.                                  *)
(***************************************************************************)
RestOneDocument ==
    /\ rs.result = "Complete" => rs.got = Document(rs.present)
    /\ rs.got = rs.crc \/ ~rs.job

(***************************************************************************)
(* A held response ends, completed or given up, also when its client does  *)
(* not read: it holds its job for a bounded time.                          *)
(***************************************************************************)
RestEnds == rs.job ~> ~rs.job
==============================================================================
