----------------------------- MODULE RecordData -----------------------------
(***************************************************************************)
(* The record bodies dns/lookup.go decodes by itself, from raw bytes: the  *)
(* readers, and for each type the order in which it calls them.            *)
(*                                                                         *)
(* Data is a sequence of bytes.  A reader takes the data and the number of *)
(* bytes already read and returns a value and the new number, or Failed.   *)
(* Every "return cannot unmarshal" of a body is Failed here.               *)
(***************************************************************************)
EXTENDS Integers, Sequences, SequencesExt

Failed == [ok |-> FALSE, value |-> <<>>, off |-> 0]

Got(value, off) == [ok |-> TRUE, value |-> value, off |-> off]

Dot == 46

\* An unsigned integer of n bytes, the most significant first.
Uint(n, data, off) ==
    IF off + n > Len(data) THEN Failed
    ELSE Got(FoldLeft(LAMBDA v, b : 256 * v + b, 0, SubSeq(data, off + 1, off + n)), off + n)

parseCharString_neverLast(data, off) ==
    IF off >= Len(data) THEN Failed
    ELSE LET n == data[off + 1]
         IN  IF off + 1 + n >= Len(data) THEN Failed
             ELSE Got(SubSeq(data, off + 2, off + 1 + n), off + 1 + n)
parseCharString(data, off) ==
    IF off >= Len(data) THEN Failed
    ELSE LET n == data[off + 1]
         IN  IF off + 1 + n > Len(data) THEN Failed
             ELSE Got(SubSeq(data, off + 2, off + 1 + n), off + 1 + n)

\* Labels up to the empty one.  A length of 192 or more is a compression
\* pointer, which cannot be followed without the rest of the message.
parseWireName(data, off) ==
    LET Labels[o \in 0..Len(data)] ==
            IF o = Len(data) THEN Failed
            ELSE LET n == data[o + 1]
                     rest == Labels[o + 1 + n]
                 IN  CASE n = 0                                  -> Got(<<>>, o + 1)
                       [] n >= 192 \/ o + 1 + n > Len(data)      -> Failed
                       [] n \in 1..191 /\ o + 1 + n <= Len(data) ->
                             [rest EXCEPT !.value =
                                 Append(SubSeq(data, o + 2, o + 1 + n), Dot) \o @]
        name == Labels[off]
    IN  IF off > Len(data) \/ ~name.ok THEN Failed
        ELSE IF name.value = <<>> THEN [name EXCEPT !.value = <<Dot>>]
        ELSE name

\* Pairs of a key and a value with its length, to the end of the data.
parseSVCBParams(data, off) ==
    LET Params[o \in 0..Len(data)] ==
            IF o = Len(data) THEN Got(<<>>, o)
            ELSE LET key  == Uint(2, data, o)
                     len  == Uint(2, data, o + 2)
                     next == o + 4 + len.value
                 IN  IF ~len.ok \/ next > Len(data) THEN Failed
                     ELSE [Params[next] EXCEPT !.value =
                              <<<<key.value, SubSeq(data, o + 5, next)>>>> \o @]
    IN  Params[off]

\* data[off:]
Rest(data, off) == Got(SubSeq(data, off + 1, Len(data)), Len(data))

ReadField(kind, data, off) ==
    CASE kind = "u8"     -> Uint(1, data, off)
      [] kind = "u16"    -> Uint(2, data, off)
      [] kind = "u32"    -> Uint(4, data, off)
      [] kind = "str"    -> parseCharString(data, off)
      [] kind = "name"   -> parseWireName(data, off)
      [] kind = "params" -> parseSVCBParams(data, off)
      [] kind = "rest"   -> Rest(data, off)

DNAME == <<"name">>
HINFO == <<"str", "str">>
RP    == <<"name", "name">>
AFSDB == <<"u16", "name">>
LOC   == <<"u8", "u8", "u8", "u8", "u32", "u32", "u32">>
NAPTR == <<"u16", "u16", "str", "str", "str", "name">>
KX    == <<"u16", "name">>
SSHFP == <<"u8", "u8", "rest">>
SVCB  == <<"u16", "name", "params">>
HTTPS == <<"u16", "name", "params">>
CAA   == <<"u8", "str", "rest">>
URI   == <<"u16", "u16", "rest">>

Layouts == {DNAME, HINFO, RP, AFSDB, LOC, NAPTR, KX, SSHFP, SVCB, HTTPS, CAA, URI}

\* The body of a record: its fields in order.  What follows the last is ignored.
Decode(layout, data) ==
    LET Step(acc, kind) ==
            LET field == ReadField(kind, data, acc.off)
            IN  IF ~acc.ok \/ ~field.ok THEN Failed
                ELSE Got(Append(acc.value, field.value), field.off)
    IN  FoldLeft(Step, Got(<<>>, 0), layout)
=============================================================================
