----------------------------- MODULE LineFormat -----------------------------
(***************************************************************************)
(* What the daemon sends of a meter: the lines influxAppendData and        *)
(* grafanaAppendData of emmbus2influx.cpp put into the buffer of a client  *)
(* by influxdb_format_line of influxdb-post.c, and the message mqttSendData*)
(* builds.  A text is the sequence of its elements, each with what         *)
(* separates it from the one before; names and values are left as they are *)
(* (escaping changes no element into another) and the buffers grow.        *)
(***************************************************************************)
EXTENDS Naturals, Sequences, SequencesExt

CONSTANT NoArray    \* a field without arr=

MEAS == 1
TAG == 2
STRING_FIELD == 3
INTEGER_FIELD == 5
BOOLEAN_FIELD == 6
TIMESTAMP == 7

\* A client's buffer, the last type it was given, and whether a call failed.
EmptyBuffer == [text |-> <<>>, last |-> 0, failed |-> FALSE]

\* Whether an element of this type may follow the last one.
Refuses(last, t) ==
    \/ /\ t \in TAG..BOOLEAN_FIELD
       /\ last \notin MEAS..(IF t = TAG THEN TAG ELSE BOOLEAN_FIELD)
    \/ t = MEAS /\ last \in MEAS..TAG
    \/ t = TIMESTAMP /\ last \notin STRING_FIELD..BOOLEAN_FIELD

Separator(last, t) ==
    IF t = MEAS THEN (IF last # 0 THEN "newline" ELSE "none")
    ELSE IF t = TIMESTAMP \/ (last <= TAG /\ t > TAG) THEN "space"
    ELSE "comma"

\* influxdb_format_line: one element.  A buffer that is not there is a new one;
\* a failure frees it.
format_line(c, e) ==
    LET last == IF c.text = <<>> THEN 0 ELSE c.last
    IN IF c.failed THEN c
       ELSE IF Refuses(last, e.type) THEN [text |-> <<>>, last |-> last, failed |-> TRUE]
       ELSE [text |-> Append(c.text, [type |-> e.type, name |-> e.name,
                                      after |-> Separator(last, e.type)]),
             last |-> e.type, failed |-> FALSE]

Element(t, n) == [type |-> t, name |-> n]
FieldElements(fields) ==
    [i \in DOMAIN fields |-> Element(INTEGER_FIELD, fields[i].name)]
EnabledFor(sink, fields) ==
    FoldLeft(LAMBDA chosen, f : IF f.enabled[sink] = 1 THEN Append(chosen, f) ELSE chosen,
             <<>>, fields)

AppendLine(c, head, fields) ==
    FoldLeft(format_line, c,
             head \o FieldElements(fields) \o <<Element(TIMESTAMP, "now")>>)

-----------------------------------------------------------------------------
(***************************************************************************)
(* A meter here: name, disabled, registers, formulas, and for how many of  *)
(* them each sink is enabled.  The formulas of a meter go to InfluxDB      *)
(* whatever their influx= says.                                            *)
(***************************************************************************)
NothingToWrite(sink, m) == m.disabled \/ m.numEnabled[sink] = 0

influxAppendData(c, m) ==
    IF NothingToWrite("influx", m) THEN c
    ELSE AppendLine(c, <<Element(MEAS, "measurement"), Element(TAG, m.name)>>,
                    EnabledFor("influx", m.registers) \o m.formulas)

grafanaAppendData(c, m) ==
    IF NothingToWrite("grafana", m) THEN c
    ELSE AppendLine(c, <<Element(MEAS, m.name)>>,
                    EnabledFor("grafana", m.registers \o m.formulas))

-----------------------------------------------------------------------------
(***************************************************************************)
(* mqttSendData: an object with a member for every field, but one array    *)
(* for a run of fields with the same arr=.                                 *)
(***************************************************************************)
Token(k, n) == [kind |-> k, name |-> n]
CloseArray_never(s) == <<>>
CloseArray(s) == IF s.array # NoArray THEN <<Token("close", s.array)>> ELSE <<>>
Comma(s) == IF s.first THEN <<>> ELSE <<Token("comma", NoArray)>>

appendField(s, f) ==
    IF f.array # NoArray /\ f.array = s.array
    THEN [s EXCEPT !.text = @ \o <<Token("comma", NoArray), Token("element", f.name)>>]
    ELSE IF f.array # NoArray
    THEN [text |-> s.text \o CloseArray(s) \o Comma(s)
                     \o <<Token("open", f.array), Token("element", f.name)>>,
          array |-> f.array, first |-> FALSE]
    ELSE [text |-> s.text \o CloseArray(s) \o Comma(s) \o <<Token("member", f.name)>>,
          array |-> NoArray, first |-> FALSE]

mqttSendData(m) ==
    IF NothingToWrite("mqtt", m) THEN <<>>
    ELSE LET s == FoldLeft(appendField,
                           [text |-> <<Token("begin", NoArray)>>, array |-> NoArray, first |-> TRUE],
                           EnabledFor("mqtt", m.registers \o m.formulas))
         IN s.text \o CloseArray(s) \o <<Token("end", NoArray)>>
-----------------------------------------------------------------------------
(***************************************************************************)
(* Line protocol: measurement, tags, a space, at least one field, a space  *)
(* and the timestamp, and a line break between two lines.                  *)
(***************************************************************************)
IsField(e) == e.type \in STRING_FIELD..BOOLEAN_FIELD

LegalAfter(p, e) ==
    \/ e.type = MEAS /\ p.type = TIMESTAMP /\ e.after = "newline"
    \/ e.type = TAG /\ p.type \in {MEAS, TAG} /\ e.after = "comma"
    \/ IsField(e) /\ p.type \in {MEAS, TAG} /\ e.after = "space"
    \/ IsField(e) /\ IsField(p) /\ e.after = "comma"
    \/ e.type = TIMESTAMP /\ IsField(p) /\ e.after = "space"

LineProtocol(text) ==
    text # <<>> =>
        /\ text[1].type = MEAS /\ text[1].after = "none"
        /\ text[Len(text)].type = TIMESTAMP
        /\ \A i \in 2..Len(text) : LegalAfter(text[i - 1], text[i])

\* The elements of a JSON object whose members are values and arrays of values.
Json(text) ==
    LET k(i) == text[i].kind
        In(i) == \E a \in 1..(i - 1) : k(a) = "open" /\ \A b \in (a + 1)..(i - 1) : k(b) # "close"
    IN text # <<>> =>
        /\ k(1) = "begin" /\ k(Len(text)) = "end"
        /\ \A i \in 2..Len(text) :
              CASE k(i) = "begin" -> FALSE
                [] k(i) = "end" -> i = Len(text) /\ ~In(i) /\ k(i - 1) # "comma"
                [] k(i) = "comma" -> k(i - 1) \in {"member", "element", "close"}
                [] k(i) = "close" -> In(i) /\ k(i - 1) = "element"
                [] k(i) = "open" -> ~In(i) /\ k(i - 1) \in {"begin", "comma"}
                [] k(i) = "member" -> ~In(i) /\ k(i - 1) \in {"begin", "comma"}
                [] k(i) = "element" -> In(i) /\ k(i - 1) \in {"open", "comma"}
=============================================================================
