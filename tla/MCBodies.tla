------------------------------ MODULE MCBodies ------------------------------
(***************************************************************************)
(* Record bodies are written field by field, every bounded value of every  *)
(* field, and read back.                                                   *)
(***************************************************************************)
EXTENDS RecordData

Kinds == {"u8", "u16", "u32", "str", "name", "params", "rest"}

CONSTANT FieldValues  \* for each kind of field the values to write

Byte == 0..255
Word == {n \in Nat : n <= 65535}

\* A service parameter: its key and its value.
Param == Word \X Seq(Byte)

\* A value a body can hold: a length fits its one or two bytes, and that of a
\* label is not taken for a compression pointer.
Writable(kind, v) ==
    /\ kind = "u8"     => v \in Byte
    /\ kind = "u16"    => v \in Word
    /\ kind = "u32"    => v \in Nat /\ v \div 65536 <= 65535
    /\ kind = "str"    => v \in Seq(Byte) /\ Len(v) < 256
    /\ kind = "name"   => v \in Seq(Seq(Byte)) /\ \A i \in DOMAIN v : Len(v[i]) \in 1..191
    /\ kind = "params" => /\ v \in Seq(Param)
                          /\ \A i \in DOMAIN v : Len(v[i][2]) < 65536
    /\ kind = "rest"   => v \in Seq(Byte)

ASSUME FieldsAssumption == \A kind \in Kinds : \A v \in FieldValues[kind] : Writable(kind, v)

VARIABLE body

BodyInit == body \in [layout : Layouts, values : {<<>>}]

BodyNext ==
    /\ Len(body.values) < Len(body.layout)
    /\ \E v \in FieldValues[body.layout[Len(body.values) + 1]] :
           body' = [body EXCEPT !.values = Append(@, v)]

BodySpec == BodyInit /\ [][BodyNext]_body

----------------------------------------------------------------------------
\* What goes over the wire, and what a reader makes of it.

U16(v) == <<v \div 256, v % 256>>
Str(s) == <<Len(s)>> \o s

WireLabels(labels) == FlattenSeq([i \in DOMAIN labels |-> Str(labels[i])])
WireName(labels) == WireLabels(labels) \o <<0>>

WireParam(param) == U16(param[1]) \o U16(Len(param[2])) \o param[2]

Wire(kind, v) ==
    CASE kind = "u8"     -> <<v>>
      [] kind = "u16"    -> U16(v)
      [] kind = "u32"    -> U16(v \div 65536) \o U16(v % 65536)
      [] kind = "str"    -> Str(v)
      [] kind = "name"   -> WireName(v)
      [] kind = "params" -> FlattenSeq([i \in DOMAIN v |-> WireParam(v[i])])
      [] kind = "rest"   -> v

WireBody(layout, values) == FlattenSeq([i \in DOMAIN layout |-> Wire(layout[i], values[i])])

Shown(kind, v) ==
    IF kind # "name" THEN v
    ELSE IF v = <<>> THEN <<Dot>> ELSE FlattenSeq([i \in DOMAIN v |-> Append(v[i], Dot)])

\* A field that takes all that is left.
Open == {"rest", "params"}

(* A body is read back as it was written, whatever follows it; one cut     *)
(* short is refused, unless it ends in a field that takes what is left,    *)
(* which is then a beginning of the value; and a name that ends in a       *)
(* compression pointer is refused rather than misread.  (The record types  *)
(* dns/lookup.go decodes, parseCharString, parseWireName, parseSVCBParams.) *)
DecodeFaithful ==
    body.values # <<>> /\ Len(body.values) = Len(body.layout) =>
        LET layout == body.layout
            values == body.values
            wire   == WireBody(layout, values)
            shown  == [i \in DOMAIN layout |-> Shown(layout[i], values[i])]
            open   == Last(layout) \in Open
        IN  /\ Decode(layout, wire) = Got(shown, Len(wire))
            /\ ~open => Decode(layout, wire \o <<7, 7>>) = Got(shown, Len(wire))
            /\ \A n \in 0..(Len(wire) - 1) :
                   LET cut == Decode(layout, SubSeq(wire, 1, n))
                   IN  cut.ok => /\ open /\ Front(cut.value) = Front(shown)
                                 /\ IsPrefix(Last(cut.value), Last(shown))
            /\ \A i \in DOMAIN layout : layout[i] = "name" =>
                   ~Decode(layout, WireBody(SubSeq(layout, 1, i - 1), values)
                                   \o WireLabels(values[i]) \o <<192, 12>>
                                   \o [k \in 1..200 |-> 0]).ok
=============================================================================
