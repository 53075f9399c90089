---------------------------- MODULE LineProtocol ----------------------------
(***************************************************************************)
(* LineProtocolEncoder (impl/enc/), which turns points into the body of a  *)
(* write, and a reader of that body as a server has one.                   *)
(*                                                                         *)
(* A string is a sequence of the characters that the two treat             *)
(* differently; "a" stands for all the others, and numbers, booleans and   *)
(* timestamps, which never need an escape, are one element of the text: a  *)
(* number of the model is one that has been printed, with its suffix i or  *)
(* u if it has one, and a double with six digits.                          *)
(***************************************************************************)
EXTENDS Timestamps, Sequences, SequencesExt

CONSTANTS
    Batches,        \* the arguments of Encode: sequences of points
    TimeToken(_)    \* a timestamp in decimal

COMMA == ","
EQUAL == "="
SPACE == " "
DQUOTE == "\""
BSLASH == "\\"
LF == "\n"
Chars == {"a", COMMA, EQUAL, SPACE, DQUOTE, BSLASH, LF}

Numbers == {"1i", "1u", "T", "0.5"}
FieldValue == [kind : {"string"}, text : Seq(Chars)] \cup [kind : {"number"}, text : {<<n>> : n \in Numbers}]

Point ==
    [measurement : Seq(Chars),
     tags        : Seq([key : Seq(Chars), value : Seq(Chars)]),
     fields      : Seq([key : Seq(Chars), value : FieldValue]),
     time        : Times,
     precision   : Units]

ASSUME BatchesAssumption == \A batch \in Batches : batch \in Seq(Point)

VARIABLES
    points,         \* the points to encode
    single,         \* Encode(Point) was called, not Encode(vector)
    next,           \* which of them is next
    os,             \* os_: what was appended so far
    state,          \* the encoder, then the reader: see below
    place,          \* where in a line the reader is
    word,           \* the name or value it is reading
    line,           \* the point it is putting together
    read            \* the points it has read

encoderVars == <<points, single, next>>
readerVars  == <<place, word, line, read>>
vars == <<encoderVars, os, state, readerVars>>

(* "encoding", then "thrown" or "reading", and from there "read" or        *)
(* "malformed".                                                            *)
States == {"encoding", "thrown", "reading", "read", "malformed"}
Places == {"measurement", "tag key", "tag value", "field key", "field value",
           "string", "after string", "time"}

(* The time of a point that has none.                                      *)
Now == "now"

(* A timestamp in decimal has none of the characters above.                *)
ASSUME TimeTokenAssumption == \A t \in Times : TimeToken(t) \notin Chars \cup {Now}
Nothing == [measurement |-> <<>>, tags |-> <<>>, fields |-> <<>>, time |-> Now]

Init ==
    /\ points \in Batches
    /\ single \in BOOLEAN /\ (single => Len(points) = 1)
    /\ next = 1
    /\ os = <<>>
    /\ state = "encoding"
    /\ place = "measurement"
    /\ word = <<>>
    /\ line = Nothing
    /\ read = <<>>

-----------------------------------------------------------------------------
ESCAPE_CHARS_MEASUREMENT == {COMMA, SPACE}
ESCAPE_CHARS_TAG         == {COMMA, EQUAL, SPACE}
ESCAPE_CHARS_FIELD_KEY   == {COMMA, EQUAL, SPACE}
ESCAPE_CHARS_FIELD_VALUE == {DQUOTE, BSLASH}

(* AppendEscapeString. Before it, one that forgets to escape.              *)
NotEscaped(origin, escapes) == origin

Escaped(origin, escapes) ==
    FlattenSeq([i \in DOMAIN origin |->
        IF origin[i] \in escapes THEN <<BSLASH, origin[i]>> ELSE <<origin[i]>>])

Tags(tags) ==
    FlattenSeq([i \in DOMAIN tags |->
        <<COMMA>> \o Escaped(tags[i].key, ESCAPE_CHARS_TAG)
        \o <<EQUAL>> \o Escaped(tags[i].value, ESCAPE_CHARS_TAG)])

Value(value) ==
    IF value.kind = "string"
    THEN <<DQUOTE>> \o Escaped(value.text, ESCAPE_CHARS_FIELD_VALUE) \o <<DQUOTE>>
    ELSE value.text

(* Fields are separated by commas, with none after the last.               *)
Fields(fields) ==
    FlattenSeq([i \in DOMAIN fields |->
        Escaped(fields[i].key, ESCAPE_CHARS_FIELD_KEY) \o <<EQUAL>> \o Value(fields[i].value)
        \o IF i < Len(fields) THEN <<COMMA>> ELSE <<>>])

Timestamp(count) == IF Omitted(count) THEN <<>> ELSE <<SPACE, TimeToken(count)>>

(* The encoder throws at a point without a measurement or without fields.  *)
Invalid(point) == point.measurement = <<>> \/ point.fields = <<>>

AppendPoint(point, count) ==
    Escaped(point.measurement, ESCAPE_CHARS_MEASUREMENT)
    \o Tags(point.tags) \o <<SPACE>> \o Fields(point.fields) \o Timestamp(count)

(* One point is appended to the stream, in a vector with a line feed.      *)
EncodeNext ==
    /\ state = "encoding"
    /\ next <= Len(points)
    /\ ~Invalid(points[next])
    /\ \E count \in Counts(points[next].time, points[next].precision) :
        os' = os \o AppendPoint(points[next], count) \o (IF single THEN <<>> ELSE <<LF>>)
    /\ next' = next + 1
    /\ UNCHANGED <<points, single, state, readerVars>>

(* An exception leaves Encode, and the stream is destroyed with it. Before *)
(* it, an encoder that skips the point.                                    *)
EncodeSkips ==
    /\ state = "encoding"
    /\ next <= Len(points)
    /\ Invalid(points[next])
    /\ next' = next + 1
    /\ UNCHANGED <<points, single, os, state, readerVars>>

EncodeThrows ==
    /\ state = "encoding"
    /\ next <= Len(points)
    /\ Invalid(points[next])
    /\ os' = <<>>
    /\ state' = "thrown"
    /\ UNCHANGED <<encoderVars, readerVars>>

(* The text is complete and goes to the server.                            *)
EncodeReturns ==
    /\ state = "encoding"
    /\ next > Len(points)
    /\ state' = "reading"
    /\ UNCHANGED <<encoderVars, os, readerVars>>

-----------------------------------------------------------------------------
(* The reader. A backslash before a character that has a meaning in this   *)
(* place takes the meaning away, any other backslash is an ordinary        *)
(* character.                                                              *)
Meaningful ==
    CASE place = "measurement" -> {COMMA, SPACE}
      [] place \in {"tag key", "tag value", "field key"} -> {COMMA, EQUAL, SPACE}
      [] place = "string" -> {DQUOTE, BSLASH}
      [] OTHER -> {}

Escape == Len(os) > 1 /\ os[1] = BSLASH /\ os[2] \in Meaningful

(* A character of a word, escaped or without a meaning here.               *)
Ends ==
    CASE place = "measurement" -> {COMMA, SPACE, LF}
      [] place \in {"tag key", "tag value", "field key"} -> {COMMA, EQUAL, SPACE, LF}
      [] place \in {"field value", "after string", "time"} -> {COMMA, EQUAL, SPACE, DQUOTE, LF}
      [] place = "string" -> {DQUOTE}

ReadChar ==
    /\ state = "reading" /\ os # <<>>
    /\ \/ /\ Escape
          /\ word' = Append(word, os[2])
          /\ os' = Tail(Tail(os))
       \/ /\ ~Escape /\ Head(os) \notin Ends
          /\ place # "after string"
          /\ word' = Append(word, Head(os))
          /\ os' = Tail(os)
    /\ UNCHANGED <<encoderVars, state, place, line, read>>

(* The character c ends a word here and the reader goes on at `then`.      *)
Turn(c, then) ==
    /\ state = "reading" /\ os # <<>> /\ ~Escape
    /\ Head(os) = c
    /\ os' = Tail(os)
    /\ word' = <<>>
    /\ place' = then

WordEnds(c, then) ==
    /\ word # <<>>
    /\ Turn(c, then)
    /\ UNCHANGED <<encoderVars, state, read>>

LastTag == Len(line.tags)
LastField == Len(line.fields)

ReadMeasurement ==
    /\ place = "measurement"
    /\ WordEnds(COMMA, "tag key") \/ WordEnds(SPACE, "field key")
    /\ line' = [line EXCEPT !.measurement = word]

ReadTagKey ==
    /\ place = "tag key"
    /\ WordEnds(EQUAL, "tag value")
    /\ line' = [line EXCEPT !.tags = Append(@, [key |-> word, value |-> <<>>])]

ReadTagValue ==
    /\ place = "tag value"
    /\ WordEnds(COMMA, "tag key") \/ WordEnds(SPACE, "field key")
    /\ line' = [line EXCEPT !.tags[LastTag].value = word]

ReadFieldKey ==
    /\ place = "field key"
    /\ WordEnds(EQUAL, "field value")
    /\ line' = [line EXCEPT !.fields =
                    Append(@, [key |-> word, value |-> [kind |-> "string", text |-> <<>>]])]

OpenString ==
    /\ place = "field value" /\ word = <<>>
    /\ Turn(DQUOTE, "string")
    /\ UNCHANGED <<encoderVars, state, line, read>>

CloseString ==
    /\ place = "string"
    /\ Turn(DQUOTE, "after string")
    /\ line' = [line EXCEPT !.fields[LastField].value.text = word]
    /\ UNCHANGED <<encoderVars, state, read>>

(* The line with the value that has just ended.                            *)
WithValue ==
    IF place = "after string" THEN line
    ELSE [line EXCEPT !.fields[LastField].value = [kind |-> "number", text |-> word]]

ValueEnds == place = "after string" \/ (place = "field value" /\ word # <<>>)

ReadFieldValue ==
    /\ ValueEnds
    /\ Turn(COMMA, "field key") \/ Turn(SPACE, "time")
    /\ line' = WithValue
    /\ UNCHANGED <<encoderVars, state, read>>

LineComplete == ValueEnds \/ (place = "time" /\ word # <<>>)

(* The end of the text ends a line as a line feed does.                    *)
TextEnds ==
    /\ state = "reading" /\ os = <<>>
    /\ word' = <<>>
    /\ place' = "measurement"
    /\ UNCHANGED os

ReadLineEnd ==
    /\ LineComplete
    /\ Turn(LF, "measurement") \/ TextEnds
    /\ read' = Append(read, IF place = "time" THEN [line EXCEPT !.time = word[1]] ELSE WithValue)
    /\ line' = Nothing
    /\ UNCHANGED <<encoderVars, state>>

ReadStep ==
    \/ ReadChar
    \/ ReadMeasurement \/ ReadTagKey \/ ReadTagValue \/ ReadFieldKey
    \/ OpenString \/ CloseString \/ ReadFieldValue \/ ReadLineEnd

(* The characters that end what is read here and are expected to.          *)
Turns ==
    CASE place \in {"measurement", "tag value"} -> IF word = <<>> THEN {} ELSE {COMMA, SPACE}
      [] place \in {"tag key", "field key"} -> IF word = <<>> THEN {} ELSE {EQUAL}
      [] place = "field value" -> IF word = <<>> THEN {DQUOTE} ELSE {COMMA, SPACE, LF}
      [] place = "string" -> {DQUOTE}
      [] place = "after string" -> {COMMA, SPACE, LF}
      [] place = "time" -> IF word = <<>> THEN {} ELSE {LF}

(* Nothing of the above applies: a character that cannot stand here.       *)
ReadFails ==
    /\ state = "reading"
    /\ os # <<>> /\ ~Escape
    /\ Head(os) \in Ends \/ place = "after string"
    /\ Head(os) \notin Turns
    /\ state' = "malformed"
    /\ UNCHANGED <<encoderVars, os, readerVars>>

ReadEnds ==
    /\ state = "reading" /\ os = <<>> /\ ~LineComplete
    /\ state' = IF place = "measurement" /\ word = <<>> THEN "read" ELSE "malformed"
    /\ UNCHANGED <<encoderVars, os, readerVars>>

Next ==
    \/ EncodeNext \/ EncodeThrows \/ EncodeReturns
    \/ ReadStep \/ ReadFails \/ ReadEnds

Spec == Init /\ [][Next]_vars

-----------------------------------------------------------------------------
(* A name that survives: not empty, without line feeds, and not with a     *)
(* backslash at its end, where it would take the meaning from what follows.*)
Clean(name) ==
    /\ name # <<>>
    /\ LF \notin Range(name)
    /\ name[Len(name)] # BSLASH

CleanPoint(p) ==
    /\ Clean(p.measurement)
    /\ \A i \in DOMAIN p.tags : Clean(p.tags[i].key) /\ Clean(p.tags[i].value)
    /\ \A i \in DOMAIN p.fields : Clean(p.fields[i].key)
    /\ Representable(p.time, p.precision)

(* The time read is the nearest one of the precision asked for; only what  *)
(* is nearest to the epoch is left to the server's clock.                  *)
SameTime(p, r) ==
    IF r.time = Now THEN 2 * Distance(p.time, 0) <= p.precision
    ELSE \E t \in Times :
            /\ r.time = TimeToken(t)
            /\ t % p.precision = 0
            /\ 2 * Distance(p.time, t) <= p.precision

SamePoint(p, r) ==
    r.measurement = p.measurement /\ r.tags = p.tags /\ r.fields = p.fields /\ SameTime(p, r)

(* Whatever separators, quotes and backslashes names and values contain, a *)
(* server reads the points that were written, in order and complete, as    *)
(* long as names are clean and times round without an overflow; texts of   *)
(* fields need not be clean. Numbers are compared as they were printed:    *)
(* that the printed form stands for the number the user gave is a          *)
(* condition and not a result. It holds of integers, whose suffix i or u   *)
(* tells their type, and of no double with more significant digits than    *)
(* six.                                                                    *)
RoundTrip ==
    /\ state \in {"read", "malformed"} /\ \A i \in DOMAIN points : CleanPoint(points[i])
    => /\ state = "read"
       /\ Len(read) = Len(points)
       /\ \A i \in DOMAIN read : SamePoint(points[i], read[i])

(* A batch is sent as a whole or not at all: when the server has read it,  *)
(* no point was left out as invalid.                                       *)
NoPartialBatch ==
    state \in {"reading", "read", "malformed"} => \A i \in DOMAIN points : ~Invalid(points[i])
=============================================================================
