----------------------------- MODULE JsonStreams -----------------------------
(***************************************************************************)
(* The two readers of JSON text that keep no document: JsonProtocolReader  *)
(* (protocol_reader.hpp) cuts a stream into messages, and JsonLeafLexer    *)
(* (signalk_rest_stream.hpp) finds the leaves of a response, where it may  *)
(* be interrupted and resumed.  Both go byte by byte and must not be       *)
(* misled by quotes, escapes and brackets inside strings.                  *)
(*                                                                         *)
(* The bytes are the brackets, comma, colon, space, the quote Q, the       *)
(* escape E, the digit 1 and the point (a number ends with a digit and has *)
(* one point at most), and the two bytes t and f of a literal "tf".        *)
(***************************************************************************)
EXTENDS Naturals, SequencesExt

CONSTANTS
    JsonValues,      \* the values that are written
    NotNumbers,      \* texts that begin like a number and are none
    JsonBufferSize   \* BufferSize of the reader

VARIABLES
    json  \* the reader, the lexer, the text on its way, and what they made of it

jsonVars == <<json>>

\* A value is an atom (its text), an array, or an object of keyed values.
Atom(text) == [kind |-> "atom", text |-> text, items |-> <<>>]
Array(items) == [kind |-> "array", text |-> <<>>, items |-> items]
Object(items) == [kind |-> "object", text |-> <<>>, items |-> items]
Keyed(key, value) == [kind |-> "keyed", text |-> key, items |-> <<value>>]

Joined(texts) ==
    FoldLeft(LAMBDA all, text : IF all = <<>> THEN text ELSE all \o <<",">> \o text, <<>>, texts)

RECURSIVE JsonText(_)
JsonText(v) ==
    LET inner == Joined([i \in DOMAIN v.items |-> JsonText(v.items[i])])
    IN  CASE v.kind = "atom" -> v.text
          [] v.kind = "keyed" -> v.text \o <<":">> \o inner
          [] v.kind = "array" -> <<"[">> \o inner \o <<"]">>
          [] v.kind = "object" -> <<"{">> \o inner \o <<"}">>

RECURSIVE LeafTexts(_)
LeafTexts(v) ==
    IF v.kind = "atom" THEN <<v.text>>
    ELSE FlattenSeq([i \in DOMAIN v.items |-> LeafTexts(v.items[i])])

NumberBytes == {"1", "."}
Opens == {"{", "["}
Closes == {"}", "]"}
Matching(open) == IF open = "{" THEN "}" ELSE "]"
------------------------------------------------------------------------------
(* JsonProtocolReader *)
IdleReader == [state |-> "Idle", buffer |-> <<>>, stack |-> <<>>, in_string |-> FALSE, escape |-> FALSE]

reset(j) == [j EXCEPT !.reader = IdleReader]
emit_json(j) == [j EXCEPT !.reader = IdleReader, !.emitted = Append(@, j.reader.buffer)]

valid_number(text) ==
    /\ text[1] = "1" /\ Last(text) = "1"
    /\ \A i, k \in DOMAIN text : text[i] = "." /\ text[k] = "." => i = k

Full(j) == Len(j.reader.buffer) >= JsonBufferSize
Kept(j, c) == [j EXCEPT !.reader.buffer = Append(@, c)]

consume_idle(j, c) ==
    LET To(state) == [Kept(j, c) EXCEPT !.reader.state = state]
    IN  CASE c = " " -> j
          [] c \in Opens -> [To("Container") EXCEPT !.reader.stack = <<c>>]
          [] c = "Q" -> To("StringValue")
          [] c = "1" -> To("NumberValue")
          [] c = "t" -> To("LiteralValue")
          [] OTHER -> reset(j)

\* As if a byte after an escape were read like any other.
InString_Unescaped(r, c) ==
    [r EXCEPT !.in_string = c # "Q", !.escape = FALSE]

\* A string ends with the first quote that is not escaped.
InString(r, c) ==
    [r EXCEPT !.in_string = r.escape \/ c # "Q", !.escape = ~r.escape /\ c = "E"]

\* A message ends with the bracket that closes its first one; a bracket of
\* another kind than the innermost open one drops it.
consume_container(j, c) ==
    LET r == j.reader
        k == Kept(j, c)
        popped == [k EXCEPT !.reader.stack = Front(@)]
    IN  CASE r.in_string -> [k EXCEPT !.reader = InString(@, c)]
          [] ~r.in_string /\ c = "Q" -> [k EXCEPT !.reader.in_string = TRUE]
          [] ~r.in_string /\ c \in Opens -> [k EXCEPT !.reader.stack = Append(@, c)]
          [] ~r.in_string /\ c \in Closes ->
                IF c # Matching(Last(r.stack)) THEN reset(j)
                ELSE IF Len(r.stack) = 1 THEN emit_json(popped) ELSE popped
          [] OTHER -> k

consume_string_value(j, c) ==
    LET k == [Kept(j, c) EXCEPT !.reader = InString(@, c)]
    IN  IF k.reader.in_string THEN k ELSE emit_json(k)

\* A number ends before the first byte that is none of a number's.
consume_number_value(j, c) ==
    IF c \in NumberBytes THEN (IF Full(j) THEN reset(j) ELSE Kept(j, c))
    ELSE consume_idle(IF valid_number(j.reader.buffer) THEN emit_json(j) ELSE reset(j), c)

consume_literal_value(j, c) == IF c = "f" THEN emit_json(Kept(j, c)) ELSE reset(j)

consume_json(j, c) ==
    LET state == j.reader.state
    IN  CASE state = "Idle" -> consume_idle(j, c)
          [] state = "NumberValue" -> consume_number_value(j, c)
          [] state \notin {"Idle", "NumberValue"} /\ Full(j) -> reset(j)
          [] state = "Container" /\ ~Full(j) -> consume_container(j, c)
          [] state = "StringValue" /\ ~Full(j) -> consume_string_value(j, c)
          [] state = "LiteralValue" /\ ~Full(j) -> consume_literal_value(j, c)
------------------------------------------------------------------------------
(* JsonLeafLexer *)
NewLexer == [objects |-> <<>>, in_string |-> FALSE, escape |-> FALSE, is_key |-> FALSE,
             in_scalar |-> FALSE, expect_key |-> FALSE]

\* As if an array were taken for an object.
TopIsObject_Any(l) == l.objects # <<>>

TopIsObject(l) == l.objects # <<>> /\ Last(l.objects)
LeafEnds(j) == [j EXCEPT !.leaves = Append(@, j.leaf), !.leaf = <<>>]

\* Punctuation and the quote of a key are structure, the rest is of a leaf.
feed_structure(j, c) ==
    LET l == j.lexer
        Becomes(lexer) == [j EXCEPT !.lexer = lexer]
        key == l.expect_key /\ TopIsObject(l)
    IN  CASE c \in Opens -> Becomes([l EXCEPT !.objects = Append(@, c = "{"), !.expect_key = c = "{"])
          [] c \in Closes -> Becomes([l EXCEPT !.objects = Front(@), !.expect_key = FALSE])
          [] c = "," -> Becomes([l EXCEPT !.expect_key = TopIsObject(l)])
          [] c = ":" -> Becomes([l EXCEPT !.expect_key = FALSE])
          [] c = "Q" -> [Becomes([l EXCEPT !.in_string = TRUE, !.is_key = key])
                            EXCEPT !.leaf = IF key THEN @ ELSE <<c>>]
          [] OTHER -> [Becomes([l EXCEPT !.in_scalar = TRUE]) EXCEPT !.leaf = <<c>>]

feed_string(j, c) ==
    LET k == [j EXCEPT !.lexer = InString(@, c), !.leaf = IF j.lexer.is_key THEN @ ELSE Append(@, c)]
    IN  IF k.lexer.in_string \/ k.lexer.is_key THEN k ELSE LeafEnds(k)

feed(j, c) ==
    CASE j.lexer.in_string -> feed_string(j, c)
      [] ~j.lexer.in_string /\ j.lexer.in_scalar ->
            IF c \notin Closes \cup {","} THEN [j EXCEPT !.leaf = Append(@, c)]
            ELSE feed_structure([LeafEnds(j) EXCEPT !.lexer.in_scalar = FALSE], c)
      [] OTHER -> feed_structure(j, c)

\* A document that ends with a bare number or literal.
finish_leaf(j) == IF j.lexer.in_scalar THEN LeafEnds(j) ELSE j
------------------------------------------------------------------------------
JsonInit ==
    json = [line |-> <<>>, due |-> <<>>, value |-> Array(<<>>),
            reader |-> IdleReader, emitted |-> <<>>,
            lexer |-> NewLexer, leaf |-> <<>>, leaves |-> <<>>]

\* A text on the stream of the reader; the lexer sees it as a response.  What
\* begins like a number is followed by a space.
OnStream(text, value, due) ==
    /\ json.line = <<>>
    /\ json' = [json EXCEPT !.line = IF Head(text) = "1" THEN Append(text, " ") ELSE text,
                            !.due = due, !.value = value, !.emitted = <<>>,
                            !.lexer = NewLexer, !.leaf = <<>>, !.leaves = <<>>]
Message(value) ==
    LET text == JsonText(value)
    IN  Len(text) <= JsonBufferSize /\ OnStream(text, value, <<text>>)
NotMessage(text) == OnStream(text, Atom(text), <<>>)

\* The next byte; the last one of a response is followed by its end.
Byte ==
    LET c == Head(json.line)
        read == consume_json(json, c)
        lexed == IF c = " " THEN read ELSE feed(read, c)
    IN  /\ json.line # <<>>
        /\ json' = [(IF Len(json.line) = 1 THEN finish_leaf(lexed) ELSE lexed) EXCEPT !.line = Tail(@)]

JsonNext ==
    \/ \E value \in JsonValues : Message(value)
    \/ \E text \in NotNumbers : NotMessage(text)
    \/ Byte

JsonSpec == JsonInit /\ [][JsonNext]_jsonVars
------------------------------------------------------------------------------
(***************************************************************************)
(* The reader emits the messages of the stream, each as it was written and *)
(* none of their parts, whatever their strings hold.                       *)
(***************************************************************************)
JsonFramed == json.emitted = IF json.line = <<>> THEN json.due ELSE <<>>

(***************************************************************************)
(* The lexer ends a leaf where a value of the document ends and nowhere    *)
(* else: the leaves it counts are the ones of the document, keys and       *)
(* punctuation left out.                                                   *)
(***************************************************************************)
JsonLeavesFound == json.line = <<>> => json.leaves = LeafTexts(json.value)

(***************************************************************************)
(* Reader and lexer find the boundaries the text of a value has by         *)
(* definition, whatever is in its strings and numbers.                     *)
(***************************************************************************)
JsonBoundaries == JsonFramed /\ JsonLeavesFound

==============================================================================
