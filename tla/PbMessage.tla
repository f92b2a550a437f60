------------------------------ MODULE PbMessage ------------------------------
(* The messages between the ripper and a drive elsewhere on the network       *)
(* (sacd_ripper.pb.c) and how nanopb writes and reads them (pb_encode.c,      *)
(* pb_decode.c).  What travels is a sequence of units, each read or written   *)
(* by one call of pb_read or pb_write: the tag of a field, a varint, the      *)
(* length of a byte string and its bytes.  A tag of zero ends a message.      *)
(*                                                                            *)
(* The decoder is a record that takes one unit at a time, so that the stream  *)
(* may run dry, or end, between any two of them.                              *)
EXTENDS Integers, Sequences, SequencesExt

CONSTANT MAX_DATA    \* the halves of sectors that fit the data of an answer

ASSUME MaxDataAssumption == MAX_DATA \in Nat \ {0}

ServerRequest_Type == [DISC_OPEN |-> 1, DISC_CLOSE |-> 2, DISC_READ |-> 3, DISC_SIZE |-> 4]
ServerResponse_Type == [DISC_OPENED |-> 1, DISC_CLOSED |-> 2, DISC_READ |-> 3, DISC_SIZE |-> 4]

PB_WT_VARINT == 0
PB_WT_64BIT == 1
PB_WT_STRING == 2
PB_WT_32BIT == 5

PbField(tag, name, htype, ltype) ==
  [tag |-> tag, name |-> name, htype |-> htype, ltype |-> ltype]

ServerRequest_fields ==
  <<PbField(1, "type", "required", "varint"), PbField(2, "sector_offset", "required", "varint"),
    PbField(3, "sector_count", "required", "varint")>>
ServerResponse_fields ==
  <<PbField(1, "type", "required", "varint"), PbField(2, "result", "required", "varint"),
    PbField(3, "data", "optional", "bytes")>>

ServerRequest(type, offset, count) ==
  [type |-> type, sector_offset |-> offset, sector_count |-> count]

\* An answer: the bytes of its data are halves of sectors.
ServerResponse(type, result, has_data, data) ==
  [type |-> type, result |-> result, has_data |-> has_data, data |-> data]

Tag(n, wire_type) == [unit |-> "tag", tag |-> n, wire_type |-> wire_type]
Varint(v) == [unit |-> "varint", v |-> v]
Bytes(b) == [unit |-> "bytes", b |-> b]
EndOfMessage == Tag(0, PB_WT_VARINT)

------------------------------------------------------------------------------
pb_encode_tag_for_field(field) ==
  Tag(field.tag, IF field.ltype = "varint" THEN PB_WT_VARINT ELSE PB_WT_STRING)

pb_enc_varint(v) == <<Varint(v)>>
\* Without any bytes there is only the length.
pb_enc_bytes(b) == <<Varint(Len(b))>> \o (IF b = <<>> THEN <<>> ELSE <<Bytes(b)>>)

EncodeField(field, msg) ==
  IF field.htype = "optional" /\ ~msg.has_data
  THEN <<>>
  ELSE <<pb_encode_tag_for_field(field)>>
         \o (IF field.ltype = "varint" THEN pb_enc_varint(msg[field.name])
                                       ELSE pb_enc_bytes(msg[field.name]))

\* Both messages have three fields.
pb_encode(fields, msg) ==
  EncodeField(fields[1], msg) \o EncodeField(fields[2], msg) \o EncodeField(fields[3], msg)

------------------------------------------------------------------------------
(* at: what the decoder reads next, or how it ended.                          *)

pb_message_set_to_defaults == ServerResponse(0, 0, FALSE, <<>>)

\* The start of pb_decode for an answer.
NewDecoder == [at |-> "tag", iter |-> 1, seen |-> {}, msg |-> pb_message_set_to_defaults]

\* The field with this tag, or 0.  The code searches in a circle from the field it
\* found last; a tag is there only once.
pb_field_find(fields, tag) ==
  IF \E i \in DOMAIN fields : fields[i].tag = tag
  THEN CHOOSE i \in DOMAIN fields : fields[i].tag = tag
  ELSE 0

\* The required fields must all have been there when the message ends.
CheckRequired(fields, d) ==
  [d EXCEPT !.at = IF \A i \in DOMAIN fields : fields[i].htype = "required" => i \in d.seen
                   THEN "decoded" ELSE "failed"]

\* What skip reads first: the length of a string is a varint too.
skip(wire_type) ==
  CASE wire_type = PB_WT_VARINT -> "skip varint"
    [] wire_type = PB_WT_STRING -> "skip length"
    [] wire_type \in {PB_WT_64BIT, PB_WT_32BIT} -> "skip bytes"
    [] OTHER -> "failed"

decode_field(field, d) ==
  [d EXCEPT !.at = IF field.ltype = "varint" THEN "varint" ELSE "length",
            !.msg.has_data = @ \/ field.htype = "optional"]

ReadTag(fields, d, unit) ==
  LET i == pb_field_find(fields, unit.tag) IN
  IF unit = EndOfMessage THEN CheckRequired(fields, d)
  ELSE IF i = 0 THEN [d EXCEPT !.at = skip(unit.wire_type)]
  ELSE decode_field(fields[i], [d EXCEPT !.iter = i, !.seen = @ \cup {i}])

pb_dec_varint(fields, d, unit) ==
  [d EXCEPT !.at = "tag", !.msg[fields[d.iter].name] = unit.v]

\* The bytes must fit the data of an answer; they go to the caller's buffer.  A
\* read of no bytes returns zero, which is taken for the end of the connection.
ReadLength(d, unit) ==
  [d EXCEPT !.at = IF unit.v > MAX_DATA \/ unit.v = 0 THEN "failed" ELSE "bytes"]
pb_dec_bytes(d, unit) == [d EXCEPT !.at = "tag", !.msg.data = unit.b]

\* Bytes that are skipped are read from the socket one at a time by a loop that
\* counts them past zero, and so reports that it failed once it has read them all,
\* or at once when there are none.
SkipLength(d, unit) == [d EXCEPT !.at = IF unit.v = 0 THEN "failed" ELSE "skip bytes"]
SkipBytes(d) == [d EXCEPT !.at = "failed"]

pb_decode(fields, d, unit) ==
  CASE d.at = "tag" -> ReadTag(fields, d, unit)
    [] d.at = "varint" -> pb_dec_varint(fields, d, unit)
    [] d.at = "length" -> ReadLength(d, unit)
    [] d.at = "bytes" -> pb_dec_bytes(d, unit)
    [] d.at = "skip varint" -> [d EXCEPT !.at = "tag"]
    [] d.at = "skip length" -> SkipLength(d, unit)
    [] d.at = "skip bytes" -> SkipBytes(d)

\* The kind of unit that the decoder reads next.
Expected(d) ==
  CASE d.at = "tag" -> "tag"
    [] d.at \in {"varint", "length", "skip varint", "skip length"} -> "varint"
    [] d.at \in {"bytes", "skip bytes"} -> "bytes"

\* A mutant: the end of the stream is not noticed.
WaitsAtEof(fields, d, lastByteOnly) == d

\* The stream ends: where a tag is expected the message ends with it; that the
\* last byte of what is skipped is missing is not noticed before.
DecodeAtEof(fields, d, lastByteOnly) ==
  IF d.at = "tag" \/ (d.at = "skip bytes" /\ lastByteOnly)
  THEN CheckRequired(fields, d)
  ELSE [d EXCEPT !.at = "failed"]
==============================================================================
