---------------------------- MODULE SacdInputProofs ----------------------------
(* What a read of the disc delivers, proved for every disc, file, server and    *)
(* place of the reads: SectorsDelivered of SacdInput, under the program of      *)
(* ScarletbookOpen.                                                             *)
(*                                                                              *)
(* For a file the invariant says where its pieces are.  Over the network it     *)
(* says what is still to come of the answer to the request under way, for each  *)
(* state of the decoder, as long as no answer has been left half read.          *)
EXTENDS ScarletbookOpen, SequenceTheorems, TLAPS

(* What travels, and the messages the server answers with.                      *)
Unit ==
    [unit : {"tag"}, tag : Nat, wire_type : Nat]
      \cup [unit : {"varint"}, v : Int] \cup [unit : {"bytes"}, b : Seq(Int)]
Message == [type : Nat, result : Int, has_data : BOOLEAN, data : Seq(Int)]

(* What follows the known fields of an answer, and what is to come of the       *)
(* answer from its third field, from its second, and from its first.            *)
Ends == {<<EndOfMessage>>} \cup {NewField(w) \o <<EndOfMessage>> : w \in NewFields}
FromBytes(a, e) == IF a.data = <<>> THEN e ELSE <<Bytes(a.data)>> \o e
FromData(a, e) ==
    IF a.has_data
    THEN <<Tag(3, PB_WT_STRING)>> \o (<<Varint(Len(a.data))>> \o FromBytes(a, e))
    ELSE e
FromResult(a, e) == <<Tag(2, PB_WT_VARINT)>> \o (<<Varint(a.result)>> \o FromData(a, e))
FromType(a, e) == <<Tag(1, PB_WT_VARINT)>> \o (<<Varint(a.type)>> \o FromResult(a, e))

(* The decoder, and what it has seen and kept of a message.                     *)
Places ==
    {"tag", "varint", "length", "bytes", "skip varint", "skip length", "skip bytes",
     "decoded", "failed"}
Decoder == [at : Places, iter : 1 .. 3, seen : SUBSET (1 .. 3), msg : Message]
Kept(d, seen, type, result, has_data) ==
    /\ d.seen = seen
    /\ d.msg.type = type /\ d.msg.result = result /\ d.msg.has_data = has_data

(* s is to come of answer a, whose end is e, when the decoder is d: before the  *)
(* first known field, in the fields, and behind them.  Nothing is said of s     *)
(* while a field of bytes is skipped, since that fails.                         *)
Skipping(d) == d.at \in {"skip length", "skip bytes"}
Before(a, d, s, e) ==
    /\ Kept(d, {}, 0, 0, FALSE)
    /\ \/ d.at = "tag" /\ s = FromType(a, e)
       \/ d.at = "tag" /\ \E w \in NewFields : s = NewField(w) \o FromType(a, e)
       \/ d.at = "skip varint" /\ s = <<Varint(1)>> \o FromType(a, e)
       \/ Skipping(d)
AtType(a, d, s, e) ==
    /\ Kept(d, {1}, 0, 0, FALSE) /\ d.at = "varint" /\ d.iter = 1
    /\ s = <<Varint(a.type)>> \o FromResult(a, e)
AfterType(a, d, s, e) ==
    /\ Kept(d, {1}, a.type, 0, FALSE) /\ d.at = "tag"
    /\ s = FromResult(a, e)
AtResult(a, d, s, e) ==
    /\ Kept(d, {1, 2}, a.type, 0, FALSE) /\ d.at = "varint" /\ d.iter = 2
    /\ s = <<Varint(a.result)>> \o FromData(a, e)
AfterResult(a, d, s, e) ==
    /\ a.has_data
    /\ Kept(d, {1, 2}, a.type, a.result, FALSE) /\ d.at = "tag"
    /\ s = FromData(a, e)
AtData(a, d, s, e) ==
    /\ a.has_data
    /\ Kept(d, {1, 2, 3}, a.type, a.result, TRUE)
    /\ \/ d.at = "length" /\ s = <<Varint(Len(a.data))>> \o FromBytes(a, e)
       \/ d.at = "bytes" /\ s = <<Bytes(a.data)>> \o e
Behind(a, d, s, e) ==
    /\ Kept(d, IF a.has_data THEN {1, 2, 3} ELSE {1, 2}, a.type, a.result, a.has_data)
    /\ \/ d.at = "tag" /\ s = e
       \/ d.at = "skip varint" /\ s = <<Varint(1)>> \o <<EndOfMessage>>
       \/ Skipping(d)
       \/ d.at = "decoded" /\ s = <<>>

Stage(a, d, s, e) ==
    \/ Before(a, d, s, e) \/ AtType(a, d, s, e) \/ AfterType(a, d, s, e)
    \/ AtResult(a, d, s, e) \/ AfterResult(a, d, s, e) \/ AtData(a, d, s, e)
    \/ Behind(a, d, s, e)
Parsing(a, d, s) == d \in Decoder /\ \E e \in Ends : Stage(a, d, s, e)

(* The data of an answer are in the buffer, as far as they fit.                 *)
Filled(a) == \A i \in DOMAIN a.data : i \in DOMAIN buffer => buffer[i] = a.data[i]
HasData(d) == 3 \in d.seen /\ d.at \notin {"length", "bytes"}

(* The request under way, its answers, and s on its way from the server: what   *)
(* is there of it when the connection is gone is at most its first unit.        *)
Request == RequestOf(call)
AnswersTo == Answers(Request.type, Request.sector_offset, Request.sector_count)
Coming(s) ==
    \/ toClient = <<>> /\ (up => owed = s)
    \/ s # <<>> /\ toClient = <<Head(s)>> /\ (up => owed = Tail(s))

Asking == /\ up /\ toServer = pb_encode(ServerRequest_fields, Request) \o <<EndOfMessage>>
          /\ toClient = <<>> /\ owed = <<>> /\ decoder = NewDecoder
Answering == /\ toServer = <<>>
             /\ \E a \in AnswersTo, s \in Seq(Unit) :
                    /\ Coming(s) /\ Parsing(a, decoder, s)
                    /\ HasData(decoder) => Filled(a)
Answered ==
    /\ decoder \in Decoder
    /\ \E a \in AnswersTo :
         /\ decoder.msg.type = a.type /\ decoder.msg.result = a.result
         /\ decoder.msg.has_data => a.has_data /\ Filled(a)

StreamInv ==
    /\ ~up => toServer = <<>> /\ owed = <<>>
    /\ inStep /\ Decoding => Asking \/ Answering
    /\ inStep /\ ~Decoding => toServer = <<>> /\ toClient = <<>> /\ owed = <<>>
    /\ inStep /\ call.net /\ call.at = "decode" /\ decoder.at = "decoded" => Answered

(* A call, the file's pieces, the buffer, and what an operation returns.        *)
Ops == {"open", "close", "total", "read"}
CallInv ==
    \/ call = NoCall
    \/ /\ call \in [op : Ops, at : {"start", "connect", "send", "decode", "destroy", "reading"},
                     net : BOOLEAN, pos : Nat, n : Nat, left : Nat, failed : BOOLEAN]
       /\ call.at = "reading" => call.op = "read" /\ ~call.net
BufferInv ==
    /\ buffer = [i \in DOMAIN buffer |-> buffer[i]]
    /\ call.op = "read" => DOMAIN buffer = 1 .. 2 * call.n
FileInv ==
    /\ fileSize \in 0 .. 2 * Sectors
    /\ call.at = "reading" =>
         /\ call.left \in 0 .. 2 * call.n
         /\ call.left < 2 * call.n => 2 * call.pos + (2 * call.n - call.left) <= fileSize
         /\ ~pieces /\ call.left < 2 * call.n =>
              /\ \A i \in 1 .. 2 * call.n - call.left : buffer[i] = 2 * call.pos + i - 1
              /\ call.left = 0 \/ FileAt = fileSize
ReturnInv ==
    inStep => /\ ret.v \in -1 .. Sectors
              /\ ret.op = "read" /\ ret.v > 0 => ret.pos + ret.v <= Sectors

InputInv == CallInv /\ BufferInv /\ FileInv /\ StreamInv /\ ReturnInv /\ SectorsDelivered

(* The program asks the input for one thing at a time and waits for it; where   *)
(* the book says an area's tables lie is a place and a size.                    *)
Waits == {"opening", "master", "read 1", "read 2", "ready", "free reader", "end"}
HasTables(b) == {"starts", "sizes"} \subseteq DOMAIN b /\ {b.starts, b.sizes} \subseteq [1 .. 2 -> Nat]
BookInv ==
    /\ ~Idle => pc \in Waits
    /\ disc \in Discs
    /\ HasTables(book)

IInv == InputInv /\ BookInv
------------------------------------------------------------------------------
(* What travels                                                               *)

LEMMA Units ==
    /\ EndOfMessage \in Unit
    /\ \A n \in Nat, w \in Nat : Tag(n, w) \in Unit
    /\ \A v \in Int : Varint(v) \in Unit
    /\ \A b \in Seq(Int) : Bytes(b) \in Unit
BY DEF EndOfMessage, Tag, Varint, Bytes, Unit, PB_WT_VARINT

LEMMA OneMore ==
    ASSUME NEW x \in Unit, NEW t \in Seq(Unit)
    PROVE  LET s == <<x>> \o t
           IN s \in Seq(Unit) /\ s # <<>> /\ Head(s) = x /\ Tail(s) = t
<1> DEFINE s == <<x>> \o t
<1>1. <<x>> \in Seq(Unit) /\ Len(<<x>>) = 1 /\ <<x>>[1] = x
  OBVIOUS
<1>2. s \in Seq(Unit) /\ Len(s) = 1 + Len(t) /\ s[1] = x
      /\ \A i \in 1 .. Len(t) : s[i + 1] = t[i]
  BY <1>1
<1>3. s # <<>> /\ Head(s) = x
  BY <1>2
<1>4. Tail(s) \in Seq(Unit) /\ Len(Tail(s)) = Len(t)
      /\ \A i \in 1 .. Len(t) : Tail(s)[i] = t[i]
  <2> HIDE DEF s
  <2> QED BY <1>2, <1>3
<1>5. Tail(s) = t
  <2> HIDE DEF s
  <2> QED BY <1>4, SeqEqual
<1> QED
  BY <1>2, <1>3, <1>5

LEMMA NewFieldIs ==
    ASSUME NEW w \in NewFields, NEW t \in Seq(Unit)
    PROVE  /\ NewField(w) \in Seq(Unit)
           /\ \E u \in Seq(Unit) :
                /\ NewField(w) \o t = <<Tag(4, w)>> \o u
                /\ w = PB_WT_VARINT => u = <<Varint(1)>> \o t
<1>0. w \in {PB_WT_VARINT, PB_WT_64BIT, PB_WT_STRING, PB_WT_32BIT} /\ w \in Nat
  BY NetAssumption DEF PB_WT_VARINT, PB_WT_64BIT, PB_WT_STRING, PB_WT_32BIT
<1> DEFINE v == CASE w = PB_WT_VARINT -> pb_enc_varint(1)
                  [] w = PB_WT_STRING -> pb_enc_bytes(<<0>>)
                  [] OTHER -> <<Bytes(<<0>>)>>
<1>1. <<0>> \in Seq(Int) /\ Len(<<0>>) = 1
  OBVIOUS
<1>2. Varint(1) \in Unit /\ Bytes(<<0>>) \in Unit /\ Tag(4, w) \in Unit
  <2>1. Bytes(<<0>>) \in Unit
    BY <1>1, Units, Zenon
  <2> QED BY <1>0, <2>1, Units
<1>3. /\ v \in Seq(Unit)
      /\ w = PB_WT_VARINT => v = <<Varint(1)>>
  <2>1. /\ w = PB_WT_VARINT => v = <<Varint(1)>>
        /\ w = PB_WT_STRING => v = <<Varint(1)>> \o <<Bytes(<<0>>)>>
        /\ w # PB_WT_VARINT /\ w # PB_WT_STRING => v = <<Bytes(<<0>>)>>
    <3>1. <<0>> # <<>>
      OBVIOUS
    <3> QED BY <1>1, <3>1 DEF pb_enc_varint, pb_enc_bytes, PB_WT_VARINT, PB_WT_STRING
  <2>2. \A x, y \in Unit : <<x>> \in Seq(Unit) /\ <<x>> \o <<y>> \in Seq(Unit)
    OBVIOUS
  <2> HIDE DEF v
  <2>3. CASE w = PB_WT_VARINT
    BY <2>1, <2>2, <2>3, <1>2
  <2>4. CASE w = PB_WT_STRING
    BY <2>1, <2>2, <2>4, <1>2 DEF PB_WT_VARINT, PB_WT_STRING
  <2>5. CASE w # PB_WT_VARINT /\ w # PB_WT_STRING
    BY <2>1, <2>2, <2>5, <1>2
  <2> QED BY <2>3, <2>4, <2>5
<1>4. NewField(w) = <<Tag(4, w)>> \o v
  BY DEF NewField
<1> HIDE DEF v
<1>5. NewField(w) \in Seq(Unit)
  BY <1>2, <1>3, <1>4, OneMore
<1>6. (<<Tag(4, w)>> \o v) \o t = <<Tag(4, w)>> \o (v \o t) /\ v \o t \in Seq(Unit)
  <2>1. <<Tag(4, w)>> \in Seq(Unit)
    BY <1>2
  <2> QED BY <2>1, <1>3, ConcatAssociative
<1> QED
  BY <1>3, <1>4, <1>5, <1>6

LEMMA EndsAre == \A e \in Ends : e \in Seq(Unit) /\ e # <<>>
<1>1. <<EndOfMessage>> \in Seq(Unit)
  BY Units
<1>2. ASSUME NEW w \in NewFields
      PROVE  NewField(w) \o <<EndOfMessage>> \in Seq(Unit) \ {<<>>}
  <2>1. /\ NewField(w) \in Seq(Unit)
        /\ \E u \in Seq(Unit) : NewField(w) \o <<EndOfMessage>> = <<Tag(4, w)>> \o u
    BY <1>1, NewFieldIs
  <2>2. w \in Nat
    BY NetAssumption DEF PB_WT_VARINT, PB_WT_64BIT, PB_WT_STRING, PB_WT_32BIT
  <2>3. Tag(4, w) \in Unit
    BY <2>2, Units
  <2>4. NewField(w) \o <<EndOfMessage>> \in Seq(Unit)
    BY <2>1, <1>1, ConcatProperties
  <2>5. NewField(w) \o <<EndOfMessage>> # <<>>
    BY <2>1, <2>3, OneMore
  <2> QED BY <2>4, <2>5
<1>3. <<EndOfMessage>> # <<>>
  OBVIOUS
<1> QED
  BY <1>1, <1>2, <1>3, Zenon DEF Ends

LEMMA Streams ==
    ASSUME NEW a \in Message, NEW e \in Ends
    PROVE  /\ FromData(a, e) \in Seq(Unit) /\ FromData(a, e) # <<>>
           /\ FromResult(a, e) \in Seq(Unit) /\ FromResult(a, e) # <<>>
           /\ FromType(a, e) \in Seq(Unit) /\ FromType(a, e) # <<>>
           /\ <<Varint(a.type)>> \o FromResult(a, e) \in Seq(Unit)
           /\ <<Varint(a.result)>> \o FromData(a, e) \in Seq(Unit)
           /\ <<Bytes(a.data)>> \o e \in Seq(Unit) /\ FromBytes(a, e) \in Seq(Unit)
           /\ <<Varint(Len(a.data))>> \o FromBytes(a, e) \in Seq(Unit)
<1>1. /\ a.type \in Nat /\ a.result \in Int /\ a.data \in Seq(Int) /\ Len(a.data) \in Int
      /\ a.type \in Int
  BY DEF Message
<1>2. /\ Varint(a.type) \in Unit /\ Varint(a.result) \in Unit
      /\ Varint(Len(a.data)) \in Unit /\ Bytes(a.data) \in Unit
      /\ Tag(1, PB_WT_VARINT) \in Unit /\ Tag(2, PB_WT_VARINT) \in Unit
      /\ Tag(3, PB_WT_STRING) \in Unit
  BY <1>1, Units DEF PB_WT_VARINT, PB_WT_STRING
<1>3. e \in Seq(Unit) /\ e # <<>>
  BY EndsAre
<1>4. <<Bytes(a.data)>> \o e \in Seq(Unit) /\ FromBytes(a, e) \in Seq(Unit)
  BY <1>2, <1>3, OneMore DEF FromBytes
<1>5. <<Varint(Len(a.data))>> \o FromBytes(a, e) \in Seq(Unit)
  BY <1>2, <1>4, OneMore
<1>6. FromData(a, e) \in Seq(Unit) /\ FromData(a, e) # <<>>
  BY <1>2, <1>3, <1>5, OneMore DEF FromData
<1>7. <<Varint(a.result)>> \o FromData(a, e) \in Seq(Unit)
  BY <1>2, <1>6, OneMore
<1>8. FromResult(a, e) \in Seq(Unit) /\ FromResult(a, e) # <<>>
  BY <1>2, <1>7, OneMore DEF FromResult
<1>9. <<Varint(a.type)>> \o FromResult(a, e) \in Seq(Unit)
  BY <1>2, <1>8, OneMore
<1>10. FromType(a, e) \in Seq(Unit) /\ FromType(a, e) # <<>>
  BY <1>2, <1>9, OneMore DEF FromType
<1> QED
  BY <1>4, <1>5, <1>6, <1>7, <1>8, <1>9, <1>10
------------------------------------------------------------------------------
(* The decoder, one unit at a time                                            *)

LEMMA FieldOf ==
    /\ pb_field_find(ServerResponse_fields, 1) = 1
    /\ pb_field_find(ServerResponse_fields, 2) = 2
    /\ pb_field_find(ServerResponse_fields, 3) = 3
    /\ pb_field_find(ServerResponse_fields, 4) = 0
<1> DEFINE f == ServerResponse_fields
<1>1. DOMAIN f = {1, 2, 3} /\ f[1].tag = 1 /\ f[2].tag = 2 /\ f[3].tag = 3
  BY DEF ServerResponse_fields, PbField
<1> HIDE DEF f
<1>2. ASSUME NEW n \in {1, 2, 3} PROVE pb_field_find(f, n) = n
  <2>1. \E i \in DOMAIN f : f[i].tag = n
    BY <1>1
  <2>2. \A i \in DOMAIN f : f[i].tag = n <=> i = n
    BY <1>1
  <2> QED BY <2>1, <2>2 DEF pb_field_find
<1>3. pb_field_find(f, 4) = 0
  <2>1. ~ \E i \in DOMAIN f : f[i].tag = 4
    BY <1>1
  <2> QED BY <2>1 DEF pb_field_find
<1> QED
  BY <1>2, <1>3 DEF f

LEMMA FieldShapes ==
    LET f == ServerResponse_fields
    IN /\ DOMAIN f = {1, 2, 3}
       /\ f[1].ltype = "varint" /\ f[2].ltype = "varint" /\ f[3].ltype = "bytes"
       /\ f[1].htype = "required" /\ f[2].htype = "required" /\ f[3].htype = "optional"
       /\ f[1].name = "type" /\ f[2].name = "result"
BY DEF ServerResponse_fields, PbField

Is(n, x, iter, seen, m) ==
    n \in Decoder /\ n.at = x /\ n.iter = iter /\ n.seen = seen /\ n.msg = m

LEMMA Rebuilt ==
    ASSUME NEW d \in Decoder, NEW x \in Places, NEW m \in Message,
           NEW n, n = [d EXCEPT !.at = x, !.msg = m]
    PROVE  Is(n, x, d.iter, d.seen, m)
<1> DEFINE o == [d EXCEPT !.at = x]
<1>1. [d EXCEPT !.at = x, !.msg = m] = [o EXCEPT !.msg = m]
  OBVIOUS
<1>2. o \in Decoder /\ o.at = x /\ o.iter = d.iter /\ o.seen = d.seen
  BY DEF Decoder
<1> HIDE DEF o
<1>3. /\ [o EXCEPT !.msg = m] \in Decoder /\ [o EXCEPT !.msg = m].at = o.at
      /\ [o EXCEPT !.msg = m].msg = m /\ [o EXCEPT !.msg = m].iter = o.iter
      /\ [o EXCEPT !.msg = m].seen = o.seen
  BY <1>2 DEF Decoder
<1> QED
  BY <1>1, <1>2, <1>3 DEF Is

(* A tag of a known field, one of another, and the end of the message.          *)
LEMMA KnownTag ==
    ASSUME NEW d \in Decoder, d.at = "tag", NEW i \in 1 .. 3, NEW w
    PROVE  LET n == pb_decode(ServerResponse_fields, d, Tag(i, w))
           IN /\ n \in Decoder /\ n.iter = i /\ n.seen = d.seen \cup {i}
              /\ n.at = IF i = 3 THEN "length" ELSE "varint"
              /\ n.msg.type = d.msg.type /\ n.msg.result = d.msg.result
              /\ n.msg.has_data = (d.msg.has_data \/ i = 3)
<1> DEFINE f == ServerResponse_fields
           n == pb_decode(f, d, Tag(i, w))
           b == [d EXCEPT !.iter = i, !.seen = @ \cup {i}]
<1>1. Tag(i, w) # EndOfMessage /\ Tag(i, w).tag = i
  BY DEF Tag, EndOfMessage
<1>2. pb_field_find(f, i) = i /\ i # 0
  BY FieldOf
<1>3. n = decode_field(f[i], b)
  <2> HIDE DEF f
  <2> QED BY <1>1, <1>2 DEF pb_decode, ReadTag
<1>4. /\ f[i].ltype = IF i = 3 THEN "bytes" ELSE "varint"
      /\ f[i].htype = "optional" <=> i = 3
  BY FieldShapes
<1>5. /\ b \in Decoder /\ b.iter = i /\ b.seen = d.seen \cup {i} /\ b.msg = d.msg
  BY DEF Decoder
<1> HIDE DEF f, b
<1>6. n = [b EXCEPT !.at = IF i = 3 THEN "length" ELSE "varint",
                    !.msg.has_data = @ \/ i = 3]
  BY <1>3, <1>4 DEF decode_field
<1> HIDE DEF n
<1> DEFINE m == [d.msg EXCEPT !.has_data = @ \/ i = 3]
           x == IF i = 3 THEN "length" ELSE "varint"
<1>7. d.msg \in Message
  BY DEF Decoder
<1>8. /\ m \in Message /\ m.type = d.msg.type /\ m.result = d.msg.result
      /\ m.has_data = (d.msg.has_data \/ i = 3)
  BY <1>7 DEF Message
<1>9. n = [b EXCEPT !.at = x, !.msg = m] /\ x \in Places
  <2>1. n = [b EXCEPT !.at = x, !.msg = [b.msg EXCEPT !.has_data = @ \/ i = 3]]
    BY <1>6
  <2>2. [b.msg EXCEPT !.has_data = @ \/ i = 3] = m
    BY <1>5
  <2>3. x \in Places
    BY DEF Places
  <2> HIDE DEF x, m
  <2> QED BY <2>1, <2>2, <2>3
<1> HIDE DEF m, x
<1>10. Is(n, x, b.iter, b.seen, m)
  BY <1>5, <1>8, <1>9, Rebuilt, Zenon
<1> QED
  BY <1>5, <1>8, <1>10 DEF n, f, x, Is

LEMMA OtherTag ==
    ASSUME NEW d \in Decoder, d.at = "tag", NEW w \in NewFields
    PROVE  LET n == pb_decode(ServerResponse_fields, d, Tag(4, w))
           IN n = [d EXCEPT !.at = CASE w = PB_WT_VARINT -> "skip varint"
                                     [] w = PB_WT_STRING -> "skip length"
                                     [] OTHER -> "skip bytes"]
<1>1. Tag(4, w) # EndOfMessage /\ Tag(4, w).tag = 4 /\ Tag(4, w).wire_type = w
  BY DEF Tag, EndOfMessage
<1>2. skip(w) = CASE w = PB_WT_VARINT -> "skip varint"
                  [] w = PB_WT_STRING -> "skip length"
                  [] OTHER -> "skip bytes"
  <2>1. w = 0 \/ w = 1 \/ w = 2 \/ w = 5
    BY NetAssumption DEF PB_WT_VARINT, PB_WT_64BIT, PB_WT_STRING, PB_WT_32BIT
  <2>2. CASE w = 0
    BY <2>2 DEF skip, PB_WT_VARINT, PB_WT_64BIT, PB_WT_STRING, PB_WT_32BIT
  <2>3. CASE w = 1
    BY <2>3 DEF skip, PB_WT_VARINT, PB_WT_64BIT, PB_WT_STRING, PB_WT_32BIT
  <2>4. CASE w = 2
    BY <2>4 DEF skip, PB_WT_VARINT, PB_WT_64BIT, PB_WT_STRING, PB_WT_32BIT
  <2>5. CASE w = 5
    BY <2>5 DEF skip, PB_WT_VARINT, PB_WT_64BIT, PB_WT_STRING, PB_WT_32BIT
  <2> QED BY <2>1, <2>2, <2>3, <2>4, <2>5
<1>3. pb_field_find(ServerResponse_fields, 4) = 0
  BY FieldOf
<1>4. pb_decode(ServerResponse_fields, d, Tag(4, w)) = [d EXCEPT !.at = skip(w)]
  BY <1>1, <1>3 DEF pb_decode, ReadTag
<1> QED
  BY <1>2, <1>4

LEMMA Checked ==
    ASSUME NEW d \in Decoder
    PROVE  CheckRequired(ServerResponse_fields, d)
             = [d EXCEPT !.at = IF {1, 2} \subseteq d.seen THEN "decoded" ELSE "failed"]
<1> DEFINE f == ServerResponse_fields
<1>1. (\A i \in DOMAIN f : f[i].htype = "required" => i \in d.seen) <=> {1, 2} \subseteq d.seen
  BY FieldShapes
<1> QED
  BY <1>1 DEF CheckRequired

LEMMA EndTag ==
    ASSUME NEW d \in Decoder, d.at = "tag"
    PROVE  pb_decode(ServerResponse_fields, d, EndOfMessage)
             = [d EXCEPT !.at = IF {1, 2} \subseteq d.seen THEN "decoded" ELSE "failed"]
BY Checked DEF pb_decode, ReadTag

LEMMA ReadVarint ==
    ASSUME NEW d \in Decoder, d.at = "varint", NEW v \in Nat \cup Int,
           (d.iter = 1 /\ v \in Nat) \/ d.iter = 2
    PROVE  LET n == pb_decode(ServerResponse_fields, d, Varint(v))
           IN /\ n \in Decoder /\ n.at = "tag" /\ n.seen = d.seen /\ n.iter = d.iter
              /\ n.msg.type = IF d.iter = 1 THEN v ELSE d.msg.type
              /\ n.msg.result = IF d.iter = 1 THEN d.msg.result ELSE v
              /\ n.msg.has_data = d.msg.has_data
<1> DEFINE f == ServerResponse_fields
           n == pb_decode(f, d, Varint(v))
           name == f[d.iter].name
<1>1. name = IF d.iter = 1 THEN "type" ELSE "result"
  BY FieldShapes
<1>2. Varint(v).v = v
  BY DEF Varint
<1>3. n = pb_dec_varint(f, d, Varint(v))
  BY DEF pb_decode
<1>4. n = [d EXCEPT !.at = "tag", !.msg[name] = v]
  BY <1>2, <1>3 DEF pb_dec_varint
<1>5. n = [d EXCEPT !.at = "tag", !.msg = [d.msg EXCEPT ![name] = v]]
  BY <1>4 DEF Decoder
<1> HIDE DEF n, name
<1> DEFINE m == [d.msg EXCEPT ![name] = v]
<1>6. d.msg \in Message
  BY DEF Decoder
<1>7. CASE d.iter = 1
  <2>1. m = [d.msg EXCEPT !.type = v] /\ v \in Nat
    BY <1>1, <1>7
  <2>2. m \in Message /\ m.type = v /\ m.result = d.msg.result /\ m.has_data = d.msg.has_data
    BY <2>1, <1>6 DEF Message
  <2> HIDE DEF m
  <2>3. Is(n, "tag", d.iter, d.seen, m)
    <3>1. "tag" \in Places
      BY DEF Places
    <3>2. n = [d EXCEPT !.at = "tag", !.msg = m]
      BY <1>5 DEF m
    <3> QED BY <2>2, <3>1, <3>2, Rebuilt, Zenon
  <2> QED BY <2>2, <2>3, <1>7 DEF n, Is
<1>8. CASE d.iter = 2
  <2>1. m = [d.msg EXCEPT !.result = v] /\ v \in Int
    BY <1>1, <1>8
  <2>2. m \in Message /\ m.result = v /\ m.type = d.msg.type /\ m.has_data = d.msg.has_data
    BY <2>1, <1>6 DEF Message
  <2> HIDE DEF m
  <2>3. Is(n, "tag", d.iter, d.seen, m)
    <3>1. "tag" \in Places
      BY DEF Places
    <3>2. n = [d EXCEPT !.at = "tag", !.msg = m]
      BY <1>5 DEF m
    <3> QED BY <2>2, <3>1, <3>2, Rebuilt, Zenon
  <2> QED BY <2>2, <2>3, <1>8 DEF n, Is
<1> QED
  BY <1>7, <1>8

LEMMA ReadBytes ==
    ASSUME NEW d \in Decoder, d.at = "bytes", NEW b \in Seq(Int)
    PROVE  LET n == pb_decode(ServerResponse_fields, d, Bytes(b))
           IN /\ n \in Decoder /\ n.at = "tag" /\ n.seen = d.seen /\ n.iter = d.iter
              /\ n.msg.type = d.msg.type /\ n.msg.result = d.msg.result
              /\ n.msg.has_data = d.msg.has_data
<1> DEFINE n == pb_decode(ServerResponse_fields, d, Bytes(b))
<1>1. Bytes(b).b = b
  BY DEF Bytes
<1>2. n = [d EXCEPT !.at = "tag", !.msg.data = b]
  BY <1>1 DEF pb_decode, pb_dec_bytes
<1>3. d.msg \in Message
  BY DEF Decoder
<1>4. n = [d EXCEPT !.at = "tag", !.msg = [d.msg EXCEPT !.data = b]]
  BY <1>2
<1> DEFINE m == [d.msg EXCEPT !.data = b]
<1>5. /\ m \in Message /\ m.type = d.msg.type /\ m.result = d.msg.result
      /\ m.has_data = d.msg.has_data
  BY <1>3 DEF Message
<1> HIDE DEF m
<1>6. Is(n, "tag", d.iter, d.seen, m)
  <2>1. "tag" \in Places
    BY DEF Places
  <2>2. n = [d EXCEPT !.at = "tag", !.msg = m]
    BY <1>4 DEF m
  <2> QED BY <1>5, <2>1, <2>2, Rebuilt, Zenon
<1> QED
  BY <1>5, <1>6 DEF Is

LEMMA MovedTo ==
    ASSUME NEW d \in Decoder, NEW x \in Places
    PROVE  Is([d EXCEPT !.at = x], x, d.iter, d.seen, d.msg)
BY DEF Decoder, Is

LEMMA SkipField ==
    ASSUME NEW d \in Decoder, NEW u, d.at = "skip varint" \/ Skipping(d)
    PROVE  LET n == pb_decode(ServerResponse_fields, d, u)
           IN /\ n.at = "failed" => Skipping(d)
              /\ n.at # "failed" =>
                   Is(n, IF Skipping(d) THEN "skip bytes" ELSE "tag", d.iter, d.seen, d.msg)
<1>1. CASE d.at = "skip varint"
  <2>1. pb_decode(ServerResponse_fields, d, u) = [d EXCEPT !.at = "tag"]
    BY <1>1 DEF pb_decode
  <2>2. Is([d EXCEPT !.at = "tag"], "tag", d.iter, d.seen, d.msg)
    BY MovedTo DEF Places
  <2> QED BY <1>1, <2>1, <2>2 DEF Is, Skipping
<1>2. CASE d.at = "skip length"
  <2>1. \/ pb_decode(ServerResponse_fields, d, u) = [d EXCEPT !.at = "skip bytes"]
        \/ pb_decode(ServerResponse_fields, d, u) = [d EXCEPT !.at = "failed"]
    BY <1>2 DEF pb_decode, SkipLength
  <2>2. /\ Is([d EXCEPT !.at = "skip bytes"], "skip bytes", d.iter, d.seen, d.msg)
        /\ [d EXCEPT !.at = "failed"].at = "failed"
    BY MovedTo DEF Places, Decoder
  <2> QED BY <1>2, <2>1, <2>2 DEF Skipping
<1>3. CASE d.at = "skip bytes"
  <2>1. pb_decode(ServerResponse_fields, d, u) = [d EXCEPT !.at = "failed"]
    BY <1>3 DEF pb_decode, SkipBytes
  <2>2. [d EXCEPT !.at = "failed"].at = "failed"
    BY DEF Decoder
  <2> QED BY <1>3, <2>1, <2>2 DEF Skipping
<1> QED
  BY <1>1, <1>2, <1>3 DEF Skipping

(* Behind the known fields, or before them, a new field or the end may come.    *)
LEMMA AfterNewTag ==
    ASSUME NEW d \in Decoder, d.at = "tag", NEW w \in NewFields,
           NEW n, n = pb_decode(ServerResponse_fields, d, Tag(4, w))
    PROVE  /\ n \in Decoder /\ n.msg = d.msg /\ n.seen = d.seen
           /\ w = PB_WT_VARINT => n.at = "skip varint"
           /\ w # PB_WT_VARINT => Skipping(n)
<1> DEFINE x == CASE w = PB_WT_VARINT -> "skip varint"
                  [] w = PB_WT_STRING -> "skip length"
                  [] OTHER -> "skip bytes"
<1>1. n = [d EXCEPT !.at = x]
  BY OtherTag
<1>2. /\ x \in Places
      /\ w = PB_WT_VARINT => x = "skip varint"
      /\ w # PB_WT_VARINT => x \in {"skip length", "skip bytes"}
  BY DEF Places, PB_WT_VARINT, PB_WT_STRING
<1> HIDE DEF x
<1>3. Is([d EXCEPT !.at = x], x, d.iter, d.seen, d.msg)
  BY <1>2, MovedTo
<1> QED
  BY <1>1, <1>2, <1>3 DEF Skipping, Is

(* What reading a unit of an answer leads to.                                   *)
Goes(a, d, n, t) ==
    n.at = "failed" \/ (Parsing(a, n, t) /\ (HasData(n) => HasData(d) \/ d.at = "bytes"))

LEMMA GoesOn ==
    ASSUME NEW a, NEW d, NEW n \in Decoder, NEW t, NEW e \in Ends, Stage(a, n, t, e),
           HasData(n) => HasData(d) \/ d.at = "bytes"
    PROVE  Goes(a, d, n, t)
BY DEF Goes, Parsing

LEMMA UnitBefore ==
    ASSUME NEW a \in Message, NEW d \in Decoder, NEW e \in Ends, NEW s \in Seq(Unit), s # <<>>,
           Before(a, d, s, e)
    PROVE  Goes(a, d, pb_decode(ServerResponse_fields, d, Head(s)), Tail(s))
<1> DEFINE n == pb_decode(ServerResponse_fields, d, Head(s))
<1> SUFFICES Goes(a, d, n, Tail(s))
  OBVIOUS
<1>1. Kept(d, {}, 0, 0, FALSE) /\ ~HasData(d) /\ d.seen = {}
  BY DEF Before, Kept, HasData
<1>2. FromType(a, e) \in Seq(Unit) /\ <<Varint(a.type)>> \o FromResult(a, e) \in Seq(Unit)
  BY Streams
<1>3. Tag(1, PB_WT_VARINT) \in Unit /\ Varint(1) \in Unit
  BY Units DEF PB_WT_VARINT
<1>4. ASSUME n \in Decoder, n.msg = d.msg, n.seen = d.seen
      PROVE  Kept(n, {}, 0, 0, FALSE) /\ ~HasData(n)
  BY <1>1, <1>4 DEF Kept, HasData
<1>5. CASE d.at = "tag" /\ s = FromType(a, e)
  <2>1. Head(s) = Tag(1, PB_WT_VARINT) /\ Tail(s) = <<Varint(a.type)>> \o FromResult(a, e)
    BY <1>2, <1>3, <1>5, OneMore DEF FromType
  <2>2. /\ n \in Decoder /\ n.iter = 1 /\ n.seen = d.seen \cup {1} /\ n.at = "varint"
        /\ n.msg.type = d.msg.type /\ n.msg.result = d.msg.result
        /\ n.msg.has_data = d.msg.has_data
    <3>1. d.msg.has_data \in BOOLEAN
      BY DEF Decoder, Message
    <3> QED BY <1>5, <2>1, <3>1, KnownTag
  <2> HIDE DEF n
  <2>3. AtType(a, n, Tail(s), e) /\ ~HasData(n)
    BY <1>1, <2>1, <2>2 DEF AtType, Kept, HasData
  <2> QED BY <2>2, <2>3, GoesOn DEF Stage
<1>6. ASSUME NEW w \in NewFields, d.at = "tag", s = NewField(w) \o FromType(a, e)
      PROVE  Goes(a, d, n, Tail(s))
  <2>1. PICK u \in Seq(Unit) : /\ NewField(w) \o FromType(a, e) = <<Tag(4, w)>> \o u
                               /\ w = PB_WT_VARINT => u = <<Varint(1)>> \o FromType(a, e)
    BY <1>2, NewFieldIs
  <2>2. Tag(4, w) \in Unit
    BY NetAssumption, Units DEF PB_WT_VARINT, PB_WT_64BIT, PB_WT_STRING, PB_WT_32BIT
  <2>3. Head(s) = Tag(4, w) /\ Tail(s) = u
    BY <1>6, <2>1, <2>2, OneMore
  <2>4. /\ n \in Decoder /\ n.msg = d.msg /\ n.seen = d.seen
        /\ w = PB_WT_VARINT => n.at = "skip varint"
        /\ w # PB_WT_VARINT => Skipping(n)
    <3>1. n = pb_decode(ServerResponse_fields, d, Tag(4, w))
      BY <2>3
    <3> QED BY <1>6, <3>1, AfterNewTag, Zenon
  <2> HIDE DEF n
  <2>5. Before(a, n, Tail(s), e)
    BY <1>4, <2>1, <2>3, <2>4 DEF Before
  <2> QED BY <1>4, <2>4, <2>5, GoesOn DEF Stage
<1>7. CASE d.at = "skip varint" /\ s = <<Varint(1)>> \o FromType(a, e)
  <2>1. Tail(s) = FromType(a, e)
    BY <1>2, <1>3, <1>7, OneMore
  <2>2. n.at = "failed" \/ Is(n, "tag", d.iter, d.seen, d.msg)
    BY <1>7, SkipField DEF Skipping
  <2> HIDE DEF n
  <2>3. CASE Is(n, "tag", d.iter, d.seen, d.msg)
    <3>1. n \in Decoder /\ n.at = "tag" /\ n.seen = d.seen /\ n.msg = d.msg
      BY <2>3 DEF Is
    <3>2. Before(a, n, Tail(s), e)
      BY <1>4, <2>1, <3>1 DEF Before
    <3> QED BY <1>4, <3>1, <3>2, GoesOn DEF Stage
  <2> QED BY <2>2, <2>3 DEF Goes
<1>8. CASE Skipping(d)
  <2>1. n.at = "failed" \/ Is(n, "skip bytes", d.iter, d.seen, d.msg)
    BY <1>8, SkipField
  <2> HIDE DEF n
  <2>2. CASE Is(n, "skip bytes", d.iter, d.seen, d.msg)
    <3>1. n \in Decoder /\ n.at = "skip bytes" /\ n.seen = d.seen /\ n.msg = d.msg
      BY <2>2 DEF Is
    <3>2. Before(a, n, Tail(s), e)
      BY <1>4, <3>1 DEF Before, Skipping
    <3> QED BY <1>4, <3>1, <3>2, GoesOn DEF Stage
  <2> QED BY <2>1, <2>2 DEF Goes
<1> QED
  BY <1>5, <1>6, <1>7, <1>8 DEF Before

LEMMA UnitKnown ==
    ASSUME NEW a \in Message, NEW d \in Decoder, NEW e \in Ends, NEW s \in Seq(Unit), s # <<>>,
           \/ AtType(a, d, s, e) \/ AfterType(a, d, s, e) \/ AtResult(a, d, s, e)
           \/ AfterResult(a, d, s, e) \/ AtData(a, d, s, e)
    PROVE  Goes(a, d, pb_decode(ServerResponse_fields, d, Head(s)), Tail(s))
<1> DEFINE n == pb_decode(ServerResponse_fields, d, Head(s))
<1> SUFFICES Goes(a, d, n, Tail(s))
  OBVIOUS
<1>1. /\ a.type \in Nat /\ a.result \in Int /\ a.data \in Seq(Int) /\ Len(a.data) \in Int
      /\ a.type \in Int /\ a.has_data \in BOOLEAN
  BY DEF Message
<1>2. /\ Varint(a.type) \in Unit /\ Varint(a.result) \in Unit
      /\ Varint(Len(a.data)) \in Unit /\ Bytes(a.data) \in Unit
      /\ Tag(2, PB_WT_VARINT) \in Unit /\ Tag(3, PB_WT_STRING) \in Unit
  BY <1>1, Units DEF PB_WT_VARINT, PB_WT_STRING
<1>3. e \in Seq(Unit)
  BY EndsAre
<1>4. /\ FromData(a, e) \in Seq(Unit) /\ FromResult(a, e) \in Seq(Unit)
      /\ <<Varint(a.result)>> \o FromData(a, e) \in Seq(Unit)
      /\ <<Bytes(a.data)>> \o e \in Seq(Unit) /\ FromBytes(a, e) \in Seq(Unit)
      /\ <<Varint(Len(a.data))>> \o FromBytes(a, e) \in Seq(Unit)
  BY Streams
<1>5. d.msg.has_data \in BOOLEAN
  BY DEF Decoder, Message
<1>6. CASE AtType(a, d, s, e)
  <2>1. Head(s) = Varint(a.type) /\ Tail(s) = FromResult(a, e)
    BY <1>2, <1>4, <1>6, OneMore DEF AtType
  <2>2. d.at = "varint" /\ d.iter = 1 /\ Kept(d, {1}, 0, 0, FALSE)
    BY <1>6 DEF AtType
  <2>3. /\ n \in Decoder /\ n.at = "tag" /\ n.seen = d.seen /\ n.msg.type = a.type
        /\ n.msg.result = d.msg.result /\ n.msg.has_data = d.msg.has_data
    BY <1>1, <2>1, <2>2, ReadVarint
  <2> HIDE DEF n
  <2>4. AfterType(a, n, Tail(s), e) /\ ~HasData(n)
    BY <2>1, <2>2, <2>3 DEF AfterType, Kept, HasData
  <2> QED BY <2>3, <2>4, GoesOn DEF Stage
<1>7. CASE AfterType(a, d, s, e)
  <2>1. Head(s) = Tag(2, PB_WT_VARINT) /\ Tail(s) = <<Varint(a.result)>> \o FromData(a, e)
    BY <1>2, <1>4, <1>7, OneMore DEF AfterType, FromResult
  <2>2. d.at = "tag" /\ Kept(d, {1}, a.type, 0, FALSE)
    BY <1>7 DEF AfterType
  <2>3. /\ n \in Decoder /\ n.at = "varint" /\ n.iter = 2 /\ n.seen = d.seen \cup {2}
        /\ n.msg.type = d.msg.type /\ n.msg.result = d.msg.result
        /\ n.msg.has_data = d.msg.has_data
    BY <1>5, <2>1, <2>2, KnownTag
  <2> HIDE DEF n
  <2>4. AtResult(a, n, Tail(s), e) /\ ~HasData(n)
    BY <2>1, <2>2, <2>3 DEF AtResult, Kept, HasData
  <2> QED BY <2>3, <2>4, GoesOn DEF Stage
<1>8. CASE AtResult(a, d, s, e)
  <2>1. Head(s) = Varint(a.result) /\ Tail(s) = FromData(a, e)
    BY <1>2, <1>4, <1>8, OneMore DEF AtResult
  <2>2. d.at = "varint" /\ d.iter = 2 /\ Kept(d, {1, 2}, a.type, 0, FALSE)
    BY <1>8 DEF AtResult
  <2>3. /\ n \in Decoder /\ n.at = "tag" /\ n.seen = d.seen /\ n.msg.type = d.msg.type
        /\ n.msg.result = a.result /\ n.msg.has_data = d.msg.has_data
    BY <1>1, <2>1, <2>2, ReadVarint
  <2> HIDE DEF n
  <2>4. Kept(n, {1, 2}, a.type, a.result, FALSE) /\ ~HasData(n)
    BY <2>2, <2>3 DEF Kept, HasData
  <2>5. CASE a.has_data
    <3>1. AfterResult(a, n, Tail(s), e)
      BY <2>1, <2>3, <2>4, <2>5 DEF AfterResult
    <3> QED BY <2>3, <2>4, <3>1, GoesOn DEF Stage
  <2>6. CASE ~a.has_data
    <3>1. Behind(a, n, Tail(s), e)
      BY <1>1, <2>1, <2>3, <2>4, <2>6 DEF Behind, FromData
    <3> QED BY <2>3, <2>4, <3>1, GoesOn DEF Stage
  <2> QED BY <2>5, <2>6
<1>9. CASE AfterResult(a, d, s, e)
  <2>1. /\ Head(s) = Tag(3, PB_WT_STRING)
        /\ Tail(s) = <<Varint(Len(a.data))>> \o FromBytes(a, e)
    BY <1>2, <1>4, <1>9, OneMore DEF AfterResult, FromData
  <2>2. d.at = "tag" /\ Kept(d, {1, 2}, a.type, a.result, FALSE) /\ a.has_data
    BY <1>9 DEF AfterResult
  <2>3. /\ n \in Decoder /\ n.at = "length" /\ n.iter = 3 /\ n.seen = d.seen \cup {3}
        /\ n.msg.type = d.msg.type /\ n.msg.result = d.msg.result
        /\ n.msg.has_data = TRUE
    <3>1. /\ n \in Decoder /\ n.at = "length" /\ n.iter = 3 /\ n.seen = d.seen \cup {3}
          /\ n.msg.type = d.msg.type /\ n.msg.result = d.msg.result
          /\ n.msg.has_data = (d.msg.has_data \/ 3 = 3)
      BY <2>1, <2>2, KnownTag
    <3> HIDE DEF n
    <3> QED BY <3>1
  <2> HIDE DEF n
  <2>4. AtData(a, n, Tail(s), e) /\ ~HasData(n)
    BY <2>1, <2>2, <2>3 DEF AtData, Kept, HasData
  <2> QED BY <2>3, <2>4, GoesOn DEF Stage
<1>10. CASE AtData(a, d, s, e) /\ d.at = "length"
  <2>1. Head(s) = Varint(Len(a.data)) /\ Tail(s) = FromBytes(a, e)
    BY <1>2, <1>4, <1>10, OneMore DEF AtData
  <2>2. Kept(d, {1, 2, 3}, a.type, a.result, TRUE) /\ a.has_data
    BY <1>10 DEF AtData
  <2>3. n = [d EXCEPT !.at = "failed"] \/ n = [d EXCEPT !.at = "bytes"]
    BY <1>10 DEF pb_decode, ReadLength
  <2>4. /\ Is([d EXCEPT !.at = "failed"], "failed", d.iter, d.seen, d.msg)
        /\ Is([d EXCEPT !.at = "bytes"], "bytes", d.iter, d.seen, d.msg)
    BY MovedTo DEF Places
  <2>5. n.at = "failed" \/ Is(n, "bytes", d.iter, d.seen, d.msg)
    BY <2>3, <2>4 DEF Is
  <2>6. a.data = <<>> => n = [d EXCEPT !.at = "failed"]
    <3>1. a.data = <<>> => Head(s).v = 0
      BY <2>1 DEF Varint
    <3> QED BY <1>10, <3>1 DEF pb_decode, ReadLength
  <2> HIDE DEF n
  <2>7. CASE Is(n, "bytes", d.iter, d.seen, d.msg)
    <3>1. Tail(s) = <<Bytes(a.data)>> \o e
      BY <2>1, <2>4, <2>6, <2>7 DEF FromBytes, Is
    <3>2. AtData(a, n, Tail(s), e) /\ ~HasData(n) /\ n \in Decoder
      BY <2>2, <2>7, <3>1 DEF AtData, Kept, HasData, Is
    <3> QED BY <3>2, GoesOn DEF Stage
  <2> QED BY <2>5, <2>7 DEF Goes
<1>11. CASE AtData(a, d, s, e) /\ d.at = "bytes"
  <2>1. Head(s) = Bytes(a.data) /\ Tail(s) = e
    BY <1>2, <1>3, <1>11, OneMore DEF AtData
  <2>2. Kept(d, {1, 2, 3}, a.type, a.result, TRUE) /\ a.has_data
    BY <1>11 DEF AtData
  <2>3. /\ n \in Decoder /\ n.at = "tag" /\ n.seen = d.seen /\ n.msg.type = d.msg.type
        /\ n.msg.result = d.msg.result /\ n.msg.has_data = d.msg.has_data
    BY <1>1, <1>11, <2>1, ReadBytes
  <2> HIDE DEF n
  <2>4. Behind(a, n, Tail(s), e)
    BY <2>1, <2>2, <2>3 DEF Behind, Kept
  <2> QED BY <1>11, <2>3, <2>4, GoesOn DEF Stage
<1> QED
  BY <1>6, <1>7, <1>8, <1>9, <1>10, <1>11 DEF AtData

LEMMA UnitBehind ==
    ASSUME NEW a \in Message, NEW d \in Decoder, NEW e \in Ends, NEW s \in Seq(Unit), s # <<>>,
           Behind(a, d, s, e), d.at # "decoded"
    PROVE  Goes(a, d, pb_decode(ServerResponse_fields, d, Head(s)), Tail(s))
<1> DEFINE n == pb_decode(ServerResponse_fields, d, Head(s))
           seen == IF a.has_data THEN {1, 2, 3} ELSE {1, 2}
<1> SUFFICES Goes(a, d, n, Tail(s))
  OBVIOUS
<1>1. Kept(d, seen, a.type, a.result, a.has_data) /\ {1, 2} \subseteq d.seen
  BY DEF Behind, Kept
<1>2. EndOfMessage \in Unit /\ Varint(1) \in Unit /\ <<EndOfMessage>> \in Seq(Unit)
      /\ <<>> \in Seq(Unit) /\ <<EndOfMessage>> = <<EndOfMessage>> \o <<>>
  BY Units
<1>3. ASSUME n \in Decoder, n.msg = d.msg, n.seen = d.seen
      PROVE  /\ Kept(n, seen, a.type, a.result, a.has_data)
             /\ d.at \notin {"length", "bytes"} /\ HasData(n) => HasData(d)
  BY <1>1, <1>3 DEF Kept, HasData
<1>4. d.at \notin {"length", "bytes"}
  BY DEF Behind, Skipping
<1>5. CASE d.at = "tag" /\ s = <<EndOfMessage>>
  <2>1. Head(s) = EndOfMessage /\ Tail(s) = <<>>
    BY <1>2, <1>5, OneMore
  <2>2. n = [d EXCEPT !.at = "decoded"]
    BY <1>1, <1>5, <2>1, EndTag
  <2>3. Is([d EXCEPT !.at = "decoded"], "decoded", d.iter, d.seen, d.msg)
    BY MovedTo DEF Places
  <2>4. n \in Decoder /\ n.at = "decoded" /\ n.seen = d.seen /\ n.msg = d.msg
    BY <2>2, <2>3 DEF Is
  <2> HIDE DEF n
  <2>5. Behind(a, n, Tail(s), e)
    BY <1>3, <2>1, <2>4 DEF Behind
  <2> QED BY <1>3, <1>4, <2>4, <2>5, GoesOn DEF Stage
<1>6. ASSUME NEW w \in NewFields, d.at = "tag", s = NewField(w) \o <<EndOfMessage>>
      PROVE  Goes(a, d, n, Tail(s))
  <2>1. PICK u \in Seq(Unit) : /\ NewField(w) \o <<EndOfMessage>> = <<Tag(4, w)>> \o u
                               /\ w = PB_WT_VARINT => u = <<Varint(1)>> \o <<EndOfMessage>>
    BY <1>2, NewFieldIs
  <2>2. Tag(4, w) \in Unit
    BY NetAssumption, Units DEF PB_WT_VARINT, PB_WT_64BIT, PB_WT_STRING, PB_WT_32BIT
  <2>3. Head(s) = Tag(4, w) /\ Tail(s) = u
    BY <1>6, <2>1, <2>2, OneMore
  <2>4. /\ n \in Decoder /\ n.msg = d.msg /\ n.seen = d.seen
        /\ w = PB_WT_VARINT => n.at = "skip varint"
        /\ w # PB_WT_VARINT => Skipping(n)
    <3>1. n = pb_decode(ServerResponse_fields, d, Tag(4, w))
      BY <2>3
    <3> QED BY <1>6, <3>1, AfterNewTag, Zenon
  <2> HIDE DEF n
  <2>5. Behind(a, n, Tail(s), e)
    BY <1>3, <2>1, <2>3, <2>4 DEF Behind
  <2> QED BY <1>3, <1>4, <2>4, <2>5, GoesOn DEF Stage
<1>7. CASE d.at = "skip varint" /\ s = <<Varint(1)>> \o <<EndOfMessage>>
  <2>1. Tail(s) = <<EndOfMessage>> /\ <<EndOfMessage>> \in Ends
    BY <1>2, <1>7, OneMore DEF Ends
  <2>2. n.at = "failed" \/ Is(n, "tag", d.iter, d.seen, d.msg)
    BY <1>7, SkipField DEF Skipping
  <2> HIDE DEF n
  <2>3. CASE Is(n, "tag", d.iter, d.seen, d.msg)
    <3>1. n \in Decoder /\ n.at = "tag" /\ n.seen = d.seen /\ n.msg = d.msg
      BY <2>3 DEF Is
    <3>2. Behind(a, n, Tail(s), <<EndOfMessage>>)
      BY <1>3, <2>1, <3>1 DEF Behind
    <3> QED BY <1>3, <1>4, <2>1, <3>1, <3>2, GoesOn DEF Stage
  <2> QED BY <2>2, <2>3 DEF Goes
<1>8. CASE Skipping(d)
  <2>1. n.at = "failed" \/ Is(n, "skip bytes", d.iter, d.seen, d.msg)
    BY <1>8, SkipField
  <2> HIDE DEF n
  <2>2. CASE Is(n, "skip bytes", d.iter, d.seen, d.msg)
    <3>1. n \in Decoder /\ n.at = "skip bytes" /\ n.seen = d.seen /\ n.msg = d.msg
      BY <2>2 DEF Is
    <3>2. Behind(a, n, Tail(s), e)
      BY <1>3, <3>1 DEF Behind, Skipping
    <3> QED BY <1>3, <1>4, <3>1, <3>2, GoesOn DEF Stage
  <2> QED BY <2>1, <2>2 DEF Goes
<1> QED
  BY <1>5, <1>6, <1>7, <1>8 DEF Behind, Ends

LEMMA NextUnit ==
    ASSUME NEW a \in Message, NEW d, NEW s \in Seq(Unit), s # <<>>,
           Parsing(a, d, s), d.at \notin {"decoded", "failed"}
    PROVE  Goes(a, d, pb_decode(ServerResponse_fields, d, Head(s)), Tail(s))
<1>1. d \in Decoder
  BY DEF Parsing
<1>2. PICK e \in Ends : Stage(a, d, s, e)
  BY DEF Parsing
<1>3. CASE Before(a, d, s, e)
  BY <1>1, <1>3, UnitBefore
<1>4. CASE Behind(a, d, s, e)
  BY <1>1, <1>4, UnitBehind
<1>5. CASE \/ AtType(a, d, s, e) \/ AfterType(a, d, s, e) \/ AtResult(a, d, s, e)
           \/ AfterResult(a, d, s, e) \/ AtData(a, d, s, e)
  BY <1>1, <1>5, UnitKnown
<1> QED
  BY <1>2, <1>3, <1>4, <1>5 DEF Stage

(* The end of the stream taken for the end of the answer.                       *)
LEMMA AtEof ==
    ASSUME NEW a \in Message, NEW d, NEW s, NEW last, Parsing(a, d, s),
           NEW n, n = DecodeAtEof(ServerResponse_fields, d, last), n.at # "failed"
    PROVE  /\ n \in Decoder /\ n.at = "decoded"
           /\ n.msg.type = a.type /\ n.msg.result = a.result
           /\ n.msg.has_data => a.has_data /\ HasData(d)
<1>1. d \in Decoder
  BY DEF Parsing
<1>2. PICK e \in Ends : Stage(a, d, s, e)
  BY DEF Parsing
<1>3. /\ Is([d EXCEPT !.at = "failed"], "failed", d.iter, d.seen, d.msg)
      /\ Is([d EXCEPT !.at = "decoded"], "decoded", d.iter, d.seen, d.msg)
  BY <1>1, MovedTo DEF Places
<1>4. CASE (d.at = "tag" \/ (d.at = "skip bytes" /\ last)) /\ {1, 2} \subseteq d.seen
  <2>1. n = [d EXCEPT !.at = "decoded"]
    BY <1>1, <1>4, Checked DEF DecodeAtEof
  <2>2. Is(n, "decoded", d.iter, d.seen, d.msg)
    BY <1>3, <2>1
  <2>3. AfterResult(a, d, s, e) \/ Behind(a, d, s, e)
    <3>1. 1 \in d.seen /\ 2 \in d.seen
      BY <1>4
    <3>2. d.seen # {} /\ d.seen # {1}
      BY <3>1
    <3>3. ~Before(a, d, s, e) /\ ~AtType(a, d, s, e) /\ ~AfterType(a, d, s, e)
      BY <3>2, Zenon DEF Before, AtType, AfterType, Kept
    <3>4. ~AtResult(a, d, s, e) /\ ~AtData(a, d, s, e)
      BY <1>4 DEF AtResult, AtData
    <3> QED BY <1>2, <3>3, <3>4, Zenon DEF Stage
  <2>4. d.msg.type = a.type /\ d.msg.result = a.result
    BY <2>3 DEF AfterResult, Behind, Kept
  <2>5. d.msg.has_data => a.has_data /\ 3 \in d.seen
    BY <2>3 DEF AfterResult, Behind, Kept
  <2>6. d.at \notin {"length", "bytes"}
    BY <1>4
  <2> QED BY <2>2, <2>4, <2>5, <2>6 DEF Is, HasData
<1>5. CASE ~((d.at = "tag" \/ (d.at = "skip bytes" /\ last)) /\ {1, 2} \subseteq d.seen)
  <2>1. n = [d EXCEPT !.at = "failed"]
    BY <1>1, <1>5, Checked DEF DecodeAtEof
  <2> QED BY <1>3, <2>1 DEF Is
<1> QED
  BY <1>4, <1>5
------------------------------------------------------------------------------
(* Requests and answers                                                       *)

LEMMA Joined ==
    \A x, y, z \in Seq(Unit) : x \o y \in Seq(Unit) /\ (x \o y) \o z = x \o (y \o z)
BY ConcatAssociative, ConcatProperties

LEMMA FieldIs ==
    ASSUME NEW t \in Unit, NEW v \in Unit
    PROVE  /\ <<t>> \o <<v>> \in Seq(Unit) /\ Len(<<t>> \o <<v>>) = 2
           /\ (<<t>> \o <<v>>)[2] = v
           /\ \A x \in Seq(Unit) : (<<t>> \o <<v>>) \o x = <<t>> \o (<<v>> \o x)
<1>1. <<t>> \in Seq(Unit) /\ <<v>> \in Seq(Unit) /\ Len(<<t>>) = 1 /\ Len(<<v>>) = 1 /\ <<v>>[1] = v
  OBVIOUS
<1> QED
  BY <1>1, ConcatAssociative

Regrouped(p, q, r, e) == ((p \o q) \o r) \o e = p \o (q \o (r \o e))

LEMMA JoinedMore ==
    ASSUME NEW p \in Seq(Unit), NEW q \in Seq(Unit), NEW r \in Seq(Unit), NEW e \in Seq(Unit)
    PROVE  /\ (p \o q) \o r \in Seq(Unit)
           /\ Regrouped(p, q, r, e)
<1>1. p \o q \in Seq(Unit) /\ (p \o q) \o r \in Seq(Unit) /\ r \o e \in Seq(Unit)
  OBVIOUS
<1>2. ((p \o q) \o r) \o e = (p \o q) \o (r \o e)
  BY <1>1
<1>3. (p \o q) \o (r \o e) = p \o (q \o (r \o e))
  BY <1>1
<1> QED
  BY <1>1, <1>2, <1>3, Zenon DEF Regrouped

Rejoined(t, l, b, e) == (t \o (l \o b)) \o e = t \o (l \o (b \o e))

LEMMA JoinedRight ==
    ASSUME NEW t \in Seq(Unit), NEW l \in Seq(Unit), NEW b \in Seq(Unit), NEW e \in Seq(Unit)
    PROVE  /\ t \o (l \o b) \in Seq(Unit)
           /\ t \o (l \o (b \o e)) \in Seq(Unit)
           /\ Rejoined(t, l, b, e)
<1>1. /\ l \o b \in Seq(Unit) /\ t \o (l \o b) \in Seq(Unit) /\ b \o e \in Seq(Unit)
      /\ l \o (b \o e) \in Seq(Unit) /\ t \o (l \o (b \o e)) \in Seq(Unit)
  OBVIOUS
<1>2. (t \o (l \o b)) \o e = t \o ((l \o b) \o e)
  BY <1>1
<1>3. (l \o b) \o e = l \o (b \o e)
  BY <1>1
<1> QED
  BY <1>1, <1>2, <1>3, Zenon DEF Rejoined

LEMMA Ahead ==
    ASSUME NEW x \in Unit, NEW y \in Unit, NEW s \in Seq(Unit)
    PROVE  LET z == <<x>> \o (<<y>> \o s)
           IN /\ z \in Seq(Unit) /\ Len(z) = Len(s) + 2 /\ z[2] = y
              /\ \A i \in 1 .. Len(s) : z[i + 2] = s[i]
<1>1. /\ <<x>> \in Seq(Unit) /\ Len(<<x>>) = 1 /\ <<y>>[1] = y
      /\ <<y>> \in Seq(Unit) /\ Len(<<y>>) = 1 /\ Len(s) \in Nat
  OBVIOUS
<1> DEFINE u == <<y>> \o s
           z == <<x>> \o u
<1>2. /\ u \in Seq(Unit) /\ Len(u) = Len(s) + 1 /\ u[1] = y
      /\ \A i \in 1 .. Len(s) : u[i + 1] = s[i]
  BY <1>1
<1> HIDE DEF u
<1>3. /\ z \in Seq(Unit) /\ Len(z) = Len(u) + 1
      /\ \A i \in 1 .. Len(u) : z[i + 1] = u[i]
  BY <1>1, <1>2
<1> HIDE DEF z
<1>4. z[2] = y
  <2>1. z[1 + 1] = u[1]
    BY <1>1, <1>2, <1>3
  <2> QED BY <2>1, <1>2
<1>5. ASSUME NEW i \in 1 .. Len(s) PROVE z[i + 2] = s[i]
  <2>1. i + 1 \in 1 .. Len(u) /\ (i + 1) + 1 = i + 2
    BY <1>1, <1>2
  <2> QED BY <1>2, <1>3, <2>1
<1>6. Len(z) = Len(s) + 2
  BY <1>1, <1>2, <1>3
<1> QED
  BY <1>3, <1>4, <1>5, <1>6 DEF z, u

(* The second, fourth and sixth of six units.                                   *)
Values(t, b, d, g) == t[2] = b /\ t[4] = d /\ t[6] = g

LEMMA InPairs ==
    ASSUME NEW a \in Unit, NEW b \in Unit, NEW c \in Unit, NEW d \in Unit,
           NEW f \in Unit, NEW g \in Unit, NEW e \in Seq(Unit)
    PROVE  LET t == <<a>> \o (<<b>> \o (<<c>> \o (<<d>> \o (<<f>> \o (<<g>> \o e)))))
           IN Values(t, b, d, g)
<1> DEFINE w == <<f>> \o (<<g>> \o e)
           u == <<c>> \o (<<d>> \o w)
           t == <<a>> \o (<<b>> \o u)
<1>1. w \in Seq(Unit) /\ Len(w) = Len(e) + 2 /\ w[2] = g
  BY Ahead
<1> HIDE DEF w
<1>2. /\ u \in Seq(Unit) /\ Len(u) = Len(w) + 2 /\ u[2] = d
      /\ \A i \in 1 .. Len(w) : u[i + 2] = w[i]
  BY <1>1, Ahead
<1> HIDE DEF u
<1>3. /\ t[2] = b /\ \A i \in 1 .. Len(u) : t[i + 2] = u[i]
  BY <1>2, Ahead
<1>4. Len(e) \in Nat /\ 2 \in 1 .. Len(w) /\ 2 \in 1 .. Len(u) /\ 4 \in 1 .. Len(u)
  <2>1. Len(e) \in Nat
    OBVIOUS
  <2> QED BY <2>1, <1>1, <1>2
<1> HIDE DEF t
<1>5. u[2 + 2] = w[2] /\ t[2 + 2] = u[2] /\ t[4 + 2] = u[4]
  BY <1>2, <1>3, <1>4, Zenon
<1> QED
  BY <1>1, <1>2, <1>3, <1>5 DEF t, u, w, Values

Reads(t, type, offset, count) == t[2].v = type /\ t[4].v = offset /\ t[6].v = count

LEMMA RequestRead ==
    ASSUME NEW type \in Nat, NEW offset \in Nat, NEW count \in Nat, NEW t,
           t = pb_encode(ServerRequest_fields, ServerRequest(type, offset, count)) \o <<EndOfMessage>>
    PROVE  Reads(t, type, offset, count)
<1> DEFINE p == <<Tag(1, PB_WT_VARINT)>> \o <<Varint(type)>>
           q == <<Tag(2, PB_WT_VARINT)>> \o <<Varint(offset)>>
           r == <<Tag(3, PB_WT_VARINT)>> \o <<Varint(count)>>
           e == <<EndOfMessage>>
<1>1. t = ((p \o q) \o r) \o e
  BY DEF pb_encode, EncodeField, ServerRequest_fields, ServerRequest, PbField,
         pb_encode_tag_for_field, pb_enc_varint
<1>2. /\ Tag(1, PB_WT_VARINT) \in Unit /\ Tag(2, PB_WT_VARINT) \in Unit
      /\ Tag(3, PB_WT_VARINT) \in Unit
      /\ Varint(type) \in Unit /\ Varint(offset) \in Unit /\ Varint(count) \in Unit
  BY Units DEF PB_WT_VARINT
<1>3. /\ p \in Seq(Unit) /\ q \in Seq(Unit) /\ r \in Seq(Unit) /\ e \in Seq(Unit)
      /\ \A x \in Seq(Unit) : p \o x = <<Tag(1, PB_WT_VARINT)>> \o (<<Varint(type)>> \o x)
      /\ \A x \in Seq(Unit) : q \o x = <<Tag(2, PB_WT_VARINT)>> \o (<<Varint(offset)>> \o x)
      /\ \A x \in Seq(Unit) : r \o x = <<Tag(3, PB_WT_VARINT)>> \o (<<Varint(count)>> \o x)
  BY <1>2, Units, FieldIs
<1> HIDE DEF p, q, r, e
<1>4. t = p \o (q \o (r \o e)) /\ r \o e \in Seq(Unit) /\ q \o (r \o e) \in Seq(Unit)
  <2>1. r \o e \in Seq(Unit) /\ q \o (r \o e) \in Seq(Unit)
    BY <1>3
  <2>2. Regrouped(p, q, r, e)
    BY <1>3, JoinedMore, Zenon
  <2> QED BY <1>1, <2>1, <2>2, Zenon DEF Regrouped
<1>5. Values(t, Varint(type), Varint(offset), Varint(count))
  <2> DEFINE w == <<Tag(3, PB_WT_VARINT)>> \o (<<Varint(count)>> \o e)
             u == <<Tag(2, PB_WT_VARINT)>> \o (<<Varint(offset)>> \o w)
             all == <<Tag(1, PB_WT_VARINT)>> \o (<<Varint(type)>> \o u)
  <2>1. r \o e = w
    BY <1>3, Zenon
  <2>2. Values(all, Varint(type), Varint(offset), Varint(count))
    BY <1>2, <1>3, InPairs, Zenon
  <2> HIDE DEF w
  <2>3. q \o (r \o e) = u
    BY <1>3, <1>4, <2>1, Zenon
  <2> HIDE DEF u
  <2>4. t = all
    BY <1>3, <1>4, <2>3, Zenon
  <2> HIDE DEF all
  <2> QED BY <2>2, <2>4, Zenon
<1>6. Varint(type).v = type /\ Varint(offset).v = offset /\ Varint(count).v = count
  BY DEF Varint
<1> QED
  BY <1>5, <1>6 DEF Values, Reads

LEMMA AnswerEncoded ==
    ASSUME NEW a \in Message, NEW e \in Seq(Unit)
    PROVE  LET known == pb_encode(ServerResponse_fields, a)
               data == IF a.has_data
                       THEN <<Tag(3, PB_WT_STRING)>> \o (<<Varint(Len(a.data))>> \o FromBytes(a, e))
                       ELSE e
           IN /\ known \in Seq(Unit)
              /\ known \o e = <<Tag(1, PB_WT_VARINT)>> \o (<<Varint(a.type)>>
                                \o (<<Tag(2, PB_WT_VARINT)>> \o (<<Varint(a.result)>> \o data)))
<1> DEFINE known == pb_encode(ServerResponse_fields, a)
           p == <<Tag(1, PB_WT_VARINT)>> \o <<Varint(a.type)>>
           q == <<Tag(2, PB_WT_VARINT)>> \o <<Varint(a.result)>>
           r == IF a.has_data
                THEN <<Tag(3, PB_WT_STRING)>>
                       \o (<<Varint(Len(a.data))>> \o (IF a.data = <<>> THEN <<>> ELSE <<Bytes(a.data)>>))
                ELSE <<>>
           data == IF a.has_data
                   THEN <<Tag(3, PB_WT_STRING)>> \o (<<Varint(Len(a.data))>> \o FromBytes(a, e))
                   ELSE e
<1>0. /\ a.type \in Nat /\ a.result \in Int /\ a.data \in Seq(Int) /\ Len(a.data) \in Int
      /\ a.type \in Int /\ a.has_data \in BOOLEAN
  BY DEF Message
<1>1. known = (p \o q) \o r
  BY <1>0 DEF pb_encode, EncodeField, ServerResponse_fields, PbField,
         pb_encode_tag_for_field, pb_enc_varint, pb_enc_bytes
<1>2. /\ Varint(a.type) \in Unit /\ Varint(a.result) \in Unit
      /\ Varint(Len(a.data)) \in Unit /\ Bytes(a.data) \in Unit
      /\ Tag(1, PB_WT_VARINT) \in Unit /\ Tag(2, PB_WT_VARINT) \in Unit
      /\ Tag(3, PB_WT_STRING) \in Unit
  BY <1>0, Units DEF PB_WT_VARINT, PB_WT_STRING
<1>3. /\ p \in Seq(Unit) /\ q \in Seq(Unit)
      /\ \A x \in Seq(Unit) : p \o x = <<Tag(1, PB_WT_VARINT)>> \o (<<Varint(a.type)>> \o x)
      /\ \A x \in Seq(Unit) : q \o x = <<Tag(2, PB_WT_VARINT)>> \o (<<Varint(a.result)>> \o x)
  BY <1>2, FieldIs
<1>4. r \in Seq(Unit) /\ r \o e = data /\ data \in Seq(Unit)
  <2>1. CASE a.has_data
    <3> DEFINE t == <<Tag(3, PB_WT_STRING)>>
               l == <<Varint(Len(a.data))>>
               b == IF a.data = <<>> THEN <<>> ELSE <<Bytes(a.data)>>
    <3>1. t \in Seq(Unit) /\ l \in Seq(Unit) /\ b \in Seq(Unit)
      BY <1>2
    <3>2. r = t \o (l \o b) /\ data = t \o (l \o (b \o e))
      <4>1. FromBytes(a, e) = b \o e
        <5>1. <<>> \o e = e
          OBVIOUS
        <5> QED BY <5>1 DEF FromBytes
      <4> QED BY <2>1, <4>1
    <3> HIDE DEF t, l, b, r, data
    <3>3. /\ t \o (l \o b) \in Seq(Unit) /\ t \o (l \o (b \o e)) \in Seq(Unit)
          /\ Rejoined(t, l, b, e)
      BY <3>1, JoinedRight, Zenon
    <3> QED BY <3>2, <3>3, Zenon DEF Rejoined
  <2>2. CASE ~a.has_data
    BY <2>2
  <2> QED BY <1>0, <2>1, <2>2
<1> HIDE DEF p, q, r, data, known
<1>5. known \in Seq(Unit) /\ known \o e = p \o (q \o (r \o e))
  <2>1. r \in Seq(Unit) /\ p \in Seq(Unit) /\ q \in Seq(Unit) /\ e \in Seq(Unit)
    BY <1>3, <1>4
  <2>2. Regrouped(p, q, r, e) /\ (p \o q) \o r \in Seq(Unit)
    BY <2>1, JoinedMore, Zenon
  <2> QED BY <1>1, <2>2, Zenon DEF Regrouped
<1>6. q \o data \in Seq(Unit)
  BY <1>3, <1>4
<1> QED
  BY <1>3, <1>4, <1>5, <1>6 DEF known, data

LEMMA AnswerSent ==
    ASSUME NEW a \in Message, NEW o,
           LET known == pb_encode(ServerResponse_fields, a) IN
           o \in {known \o <<EndOfMessage>>}
                   \cup {NewField(w) \o known \o <<EndOfMessage>> : w \in NewFields}
                   \cup {known \o NewField(w) \o <<EndOfMessage>> : w \in NewFields}
    PROVE  o \in Seq(Unit) /\ Parsing(a, NewDecoder, o) /\ o # <<>>
<1> DEFINE known == pb_encode(ServerResponse_fields, a)
           end == <<EndOfMessage>>
<1>1. /\ NewDecoder \in Decoder /\ NewDecoder.at = "tag" /\ Kept(NewDecoder, {}, 0, 0, FALSE)
  BY DEF NewDecoder, pb_message_set_to_defaults, ServerResponse, Decoder, Message, Places, Kept
<1>2. end \in Seq(Unit) /\ end \in Ends
  BY Units DEF Ends
<1>3. \A e \in Ends : known \in Seq(Unit) /\ known \o e = FromType(a, e)
  BY AnswerEncoded, EndsAre DEF FromType, FromResult, FromData
<1>4. \A w \in NewFields : NewField(w) \in Seq(Unit) /\ NewField(w) \o end \in Ends
  BY <1>2, NewFieldIs DEF Ends
<1> HIDE DEF known, end
<1>5. \/ o = known \o end
      \/ \E w \in NewFields : o = (NewField(w) \o known) \o end
      \/ \E w \in NewFields : o = (known \o NewField(w)) \o end
  BY DEF known, end
<1>6. CASE o = known \o end
  <2>1. o = FromType(a, end)
    BY <1>2, <1>3, <1>6
  <2>2. Stage(a, NewDecoder, o, end)
    BY <1>1, <2>1 DEF Stage, Before
  <2> QED BY <1>1, <1>2, <2>1, <2>2, Streams DEF Parsing
<1>7. ASSUME NEW w \in NewFields, o = (NewField(w) \o known) \o end
      PROVE  o \in Seq(Unit) /\ Parsing(a, NewDecoder, o) /\ o # <<>>
  <2>1. o = NewField(w) \o FromType(a, end)
    <3>1. (NewField(w) \o known) \o end = NewField(w) \o (known \o end)
      BY <1>2, <1>3, <1>4, Joined, Zenon
    <3> QED BY <1>2, <1>3, <1>7, <3>1
  <2>2. Stage(a, NewDecoder, o, end)
    BY <1>1, <2>1 DEF Stage, Before
  <2>3. FromType(a, end) \in Seq(Unit) /\ FromType(a, end) # <<>>
    BY <1>2, Streams
  <2>4. o \in Seq(Unit) /\ o # <<>>
    BY <1>4, <2>1, <2>3
  <2> QED BY <1>1, <1>2, <2>2, <2>4 DEF Parsing
<1>8. ASSUME NEW w \in NewFields, o = (known \o NewField(w)) \o end
      PROVE  o \in Seq(Unit) /\ Parsing(a, NewDecoder, o) /\ o # <<>>
  <2> DEFINE e == NewField(w) \o end
  <2>1. o = known \o e /\ e \in Ends
    <3>1. (known \o NewField(w)) \o end = known \o (NewField(w) \o end)
      BY <1>2, <1>3, <1>4, Joined, Zenon
    <3> QED BY <1>4, <1>8, <3>1
  <2> HIDE DEF e
  <2>2. o = FromType(a, e)
    BY <1>3, <2>1
  <2>3. Stage(a, NewDecoder, o, e)
    BY <1>1, <2>2 DEF Stage, Before
  <2> QED BY <1>1, <2>1, <2>2, <2>3, Streams DEF Parsing
<1> QED
  BY <1>5, <1>6, <1>7, <1>8

LEMMA RequestIsSeq ==
    ASSUME NEW type \in Nat, NEW offset \in Nat, NEW count \in Nat
    PROVE  pb_encode(ServerRequest_fields, ServerRequest(type, offset, count)) \in Seq(Unit)
<1> DEFINE p == <<Tag(1, PB_WT_VARINT)>> \o <<Varint(type)>>
           q == <<Tag(2, PB_WT_VARINT)>> \o <<Varint(offset)>>
           r == <<Tag(3, PB_WT_VARINT)>> \o <<Varint(count)>>
<1>1. pb_encode(ServerRequest_fields, ServerRequest(type, offset, count)) = (p \o q) \o r
  BY DEF pb_encode, EncodeField, ServerRequest_fields, ServerRequest, PbField,
         pb_encode_tag_for_field, pb_enc_varint
<1>2. /\ Tag(1, PB_WT_VARINT) \in Unit /\ Tag(2, PB_WT_VARINT) \in Unit
      /\ Tag(3, PB_WT_VARINT) \in Unit
      /\ Varint(type) \in Unit /\ Varint(offset) \in Unit /\ Varint(count) \in Unit
  BY Units DEF PB_WT_VARINT
<1>3. p \in Seq(Unit) /\ q \in Seq(Unit) /\ r \in Seq(Unit)
  BY <1>2, FieldIs
<1> HIDE DEF p, q, r
<1> QED
  BY <1>1, <1>3

(* What may be answered, whatever is asked.                                     *)
LEMMA SectorsAre ==
    ASSUME NEW pos \in Nat, NEW k \in Nat
    PROVE  /\ SectorsFrom(pos, k) \in Seq(Int) /\ DOMAIN SectorsFrom(pos, k) = 1 .. 2 * k
           /\ \A i \in 1 .. 2 * k : SectorsFrom(pos, k)[i] = 2 * pos + i - 1
<1>1. \A i \in 1 .. 2 * k : 2 * pos + i - 1 \in Int
  OBVIOUS
<1>2. 2 * k \in Nat
  OBVIOUS
<1> QED
  BY <1>1, <1>2 DEF SectorsFrom

RightAnswer(a, c) ==
    /\ a \in Message /\ a.result \in -1 .. Sectors
    /\ c.op = "read" /\ a.has_data =>
         /\ a.result \in 0 .. c.n /\ a.data = SectorsFrom(c.pos, a.result)
         /\ a.result > 0 => c.pos + a.result <= Sectors

LEMMA AnswersAre ==
    ASSUME NEW c, c.op \in Ops, c.pos \in Nat, c.n \in Nat
    PROVE  LET r == RequestOf(c)
               A == Answers(r.type, r.sector_offset, r.sector_count)
           IN /\ r.type \in Nat /\ r.sector_offset \in Nat /\ r.sector_count \in Nat
              /\ r = ServerRequest(r.type, r.sector_offset, r.sector_count)
              /\ A # {} /\ \A a \in A : RightAnswer(a, c)
<1> DEFINE r == RequestOf(c)
           A == Answers(r.type, r.sector_offset, r.sector_count)
<1>0. Sectors \in Nat /\ <<>> \in Seq(Int)
  BY NetAssumption
<1>1. CASE c.op = "open"
  <2>1. r = ServerRequest(1, 0, 0)
    BY <1>1 DEF RequestOf, ServerRequest_Type
  <2>2. A = {ServerResponse(1, x, FALSE, <<>>) : x \in {0, -1}}
    BY <2>1 DEF Answers, ServerRequest, ServerRequest_Type, ServerResponse_Type
  <2>3. \A x \in {0, -1} : ServerResponse(1, x, FALSE, <<>>) \in Message
    BY <1>0 DEF ServerResponse, Message
  <2>4. ASSUME NEW x \in {0, -1} PROVE RightAnswer(ServerResponse(1, x, FALSE, <<>>), c)
    <3>1. x \in -1 .. Sectors
      BY <1>0
    <3> QED BY <1>1, <2>3, <3>1 DEF RightAnswer, ServerResponse
  <2> HIDE DEF A
  <2>5. A # {} /\ \A a \in A : RightAnswer(a, c)
    BY <2>2, <2>4
  <2> QED BY <2>1, <2>5 DEF ServerRequest, A
<1>2. CASE c.op = "close"
  <2>1. r = ServerRequest(2, 0, 0)
    BY <1>2 DEF RequestOf, ServerRequest_Type
  <2>2. A = {ServerResponse(2, 0, FALSE, <<>>)}
    BY <2>1 DEF Answers, ServerRequest, ServerRequest_Type, ServerResponse_Type
  <2>3. ServerResponse(2, 0, FALSE, <<>>) \in Message
    BY <1>0 DEF ServerResponse, Message
  <2>4. 0 \in -1 .. Sectors
    BY <1>0
  <2>5. RightAnswer(ServerResponse(2, 0, FALSE, <<>>), c)
    BY <1>2, <2>3, <2>4 DEF RightAnswer, ServerResponse
  <2> HIDE DEF A
  <2>6. A # {} /\ \A a \in A : RightAnswer(a, c)
    BY <2>2, <2>5
  <2> QED BY <2>1, <2>6 DEF ServerRequest, A
<1>3. CASE c.op = "total"
  <2>1. r = ServerRequest(4, 0, 0)
    BY <1>3 DEF RequestOf, ServerRequest_Type
  <2>2. A = {ServerResponse(4, Sectors, FALSE, <<>>)}
    BY <2>1 DEF Answers, ServerRequest, ServerRequest_Type, ServerResponse_Type
  <2>3. ServerResponse(4, Sectors, FALSE, <<>>) \in Message
    BY <1>0 DEF ServerResponse, Message
  <2>4. Sectors \in -1 .. Sectors
    BY <1>0
  <2>5. RightAnswer(ServerResponse(4, Sectors, FALSE, <<>>), c)
    BY <1>3, <2>3, <2>4 DEF RightAnswer, ServerResponse
  <2> HIDE DEF A
  <2>6. A # {} /\ \A a \in A : RightAnswer(a, c)
    BY <2>2, <2>5
  <2> QED BY <2>1, <2>6 DEF ServerRequest, A
<1>4. CASE c.op = "read"
  <2> DEFINE k == IF c.pos + c.n <= Sectors THEN c.n
                  ELSE IF c.pos < Sectors THEN Sectors - c.pos ELSE 0
  <2>1. r = ServerRequest(3, c.pos, c.n)
    BY <1>4 DEF RequestOf, ServerRequest_Type
  <2>2. A = {ServerResponse(3, k, TRUE, SectorsFrom(c.pos, k)), ServerResponse(3, -1, FALSE, <<>>)}
    BY <2>1 DEF Answers, ServerRequest, ServerRequest_Type, ServerResponse_Type
  <2>3. /\ k \in 0 .. c.n /\ k \in -1 .. Sectors /\ k \in Nat
        /\ k > 0 => c.pos + k <= Sectors
    BY <1>0
  <2> HIDE DEF k
  <2>4. SectorsFrom(c.pos, k) \in Seq(Int)
    BY <2>3, SectorsAre
  <2>5. /\ ServerResponse(3, k, TRUE, SectorsFrom(c.pos, k)) \in Message
        /\ ServerResponse(3, -1, FALSE, <<>>) \in Message
    BY <1>0, <2>3, <2>4 DEF ServerResponse, Message
  <2>6. /\ RightAnswer(ServerResponse(3, k, TRUE, SectorsFrom(c.pos, k)), c)
        /\ RightAnswer(ServerResponse(3, -1, FALSE, <<>>), c)
    <3>1. -1 \in -1 .. Sectors
      BY <1>0
    <3> QED BY <2>3, <2>5, <3>1 DEF RightAnswer, ServerResponse
  <2> HIDE DEF A
  <2>7. A # {} /\ \A a \in A : RightAnswer(a, c)
    BY <2>2, <2>6
  <2> QED BY <2>1, <2>7 DEF ServerRequest, A
<1> QED
  BY <1>1, <1>2, <1>3, <1>4 DEF Ops

(* What is in its place in the buffer has been delivered.                       *)
LEMMA InPlace ==
    ASSUME buffer = [i \in DOMAIN buffer |-> buffer[i]], NEW n \in Nat, DOMAIN buffer = 1 .. 2 * n,
           NEW v \in Nat, v <= n, NEW pos \in Nat,
           \A i \in 1 .. 2 * v : buffer[i] = 2 * pos + i - 1
    PROVE  SubSeq(buffer, 1, 2 * v) = SectorsFrom(pos, v)
<1> DEFINE S == {buffer[i] : i \in DOMAIN buffer}
           b == SubSeq(buffer, 1, 2 * v)
<1>1. 2 * n \in Nat /\ 2 * v \in Nat /\ 2 * v <= 2 * n
  OBVIOUS
<1>2. buffer \in Seq(S) /\ Len(buffer) = 2 * n
  BY <1>1
<1> HIDE DEF S
<1>3. b \in Seq(S) /\ Len(b) = 2 * v /\ \A i \in 1 .. 2 * v : b[i] = buffer[i]
  BY <1>1, <1>2
<1> HIDE DEF b
<1>4. b = [i \in 1 .. 2 * v |-> b[i]]
  BY <1>1, <1>3
<1>5. [i \in 1 .. 2 * v |-> b[i]] = [i \in 1 .. 2 * v |-> 2 * pos + i - 1]
  BY <1>3
<1> QED
  BY <1>4, <1>5 DEF SectorsFrom, b
------------------------------------------------------------------------------
(* What each step leaves as it is                                             *)

LEMMA Quiet ==
    ASSUME InputInv, UNCHANGED <<call, ret, buffer, netVars, fileSize, pieces>>
    PROVE  InputInv'
<1>1. /\ call' = call /\ ret' = ret /\ buffer' = buffer /\ up' = up /\ toServer' = toServer
      /\ toClient' = toClient /\ owed' = owed /\ decoder' = decoder /\ inStep' = inStep
      /\ fileSize' = fileSize /\ pieces' = pieces
  BY DEF netVars
<1>2. CallInv' /\ BufferInv' /\ ReturnInv'
  BY <1>1 DEF InputInv, CallInv, BufferInv, ReturnInv, NoCall
<1>3. FileInv'
  BY <1>1 DEF InputInv, FileInv, FileAt
<1>4. SectorsDelivered'
  BY <1>1 DEF InputInv, SectorsDelivered, Idle
<1>5. /\ Decoding' = Decoding /\ AnswersTo' = AnswersTo /\ Asking' = Asking
      /\ \A a : Filled(a)' = Filled(a)
      /\ \A s : Coming(s)' = Coming(s)
  BY <1>1 DEF Decoding, AnswersTo, Request, Asking, Filled, Coming
<1>6. Answering' = Answering
  BY <1>1, <1>5 DEF Answering
<1>7. Answered' = Answered
  BY <1>1, <1>5 DEF Answered
<1>8. StreamInv'
  BY <1>1, <1>5, <1>6, <1>7 DEF InputInv, StreamInv
<1> QED
  BY <1>2, <1>3, <1>4, <1>8 DEF InputInv

(* Between requests nothing is under way.                                       *)
LEMMA StreamKept ==
    ASSUME StreamInv, ~Decoding, call'.net => call'.at # "decode", up' = up \/ up' = TRUE,
           UNCHANGED <<toServer, toClient, owed, inStep>>
    PROVE  StreamInv'
<1>1. ~Decoding'
  BY DEF Decoding
<1> QED
  BY <1>1 DEF StreamInv, Decoding

LEMMA FileKept ==
    ASSUME FileInv, fileSize' = fileSize, call'.at # "reading"
    PROVE  FileInv'
BY DEF FileInv

LEMMA CallIs ==
    ASSUME NEW op, NEW net, NEW pos, NEW n
    PROVE  Call(op, net, pos, n) \in
             [op : {op}, at : {"start"}, net : {net}, pos : {pos}, n : {n}, left : {0}, failed : {FALSE}]
BY DEF Call, NoCall

(* The caller asks the input for something.                                     *)
LEMMA Asks ==
    ASSUME InputInv, Idle, NEW op \in Ops, NEW net \in BOOLEAN, NEW pos \in Nat, NEW n \in Nat,
           call' = Call(op, net, pos, n),
           UNCHANGED <<ret, netVars, fileSize, pieces>>,
           IF op = "read" THEN buffer' = [i \in 1 .. 2 * n |-> Junk] ELSE buffer' = buffer
    PROVE  InputInv'
<1>1. call' \in [op : {op}, at : {"start"}, net : {net}, pos : {pos}, n : {n}, left : {0}, failed : {FALSE}]
  BY CallIs
<1>2. CallInv'
  <2>1. {op} \subseteq Ops /\ {net} \subseteq BOOLEAN /\ {pos} \subseteq Nat /\ {n} \subseteq Nat
        /\ {0} \subseteq Nat /\ {FALSE} \subseteq BOOLEAN
    OBVIOUS
  <2>2. call'.at = "start"
    BY <1>1
  <2>3. call' \in [op : Ops, at : {"start"}, net : BOOLEAN, pos : Nat, n : Nat, left : Nat,
                   failed : BOOLEAN]
    BY <1>1, <2>1
  <2> QED BY <2>2, <2>3 DEF CallInv
<1>3. call = NoCall /\ ~Decoding
  <2>1. call = NoCall
    BY DEF InputInv, CallInv, Idle, Ops
  <2> QED BY <2>1 DEF NoCall, Decoding
<1>4. StreamInv'
  BY <1>1, <1>3, StreamKept DEF InputInv, netVars
<1>5. FileInv'
  BY <1>1, FileKept DEF InputInv
<1>6. BufferInv'
  BY <1>1 DEF InputInv, BufferInv
<1>7. ReturnInv' /\ SectorsDelivered'
  BY <1>1 DEF InputInv, ReturnInv, SectorsDelivered, Idle, Ops, netVars
<1> QED
  BY <1>2, <1>4, <1>5, <1>6, <1>7 DEF InputInv

(* The input answers its caller.                                                *)
LEMMA Returned ==
    ASSUME InputInv, call # NoCall, StreamInv', NEW ok, NEW v, Return(ok, v),
           UNCHANGED <<buffer, fileSize, pieces, inStep>>,
           inStep => v \in -1 .. Sectors,
           call.op = "read" /\ v > 0 /\ inStep => call.pos + v <= Sectors,
           call.op = "read" /\ v > 0 /\ ~pieces /\ inStep =>
             v <= call.n /\ \A i \in 1 .. 2 * v : buffer[i] = 2 * call.pos + i - 1
    PROVE  InputInv'
<1>1. /\ call' = NoCall /\ ret'.op = call.op /\ ret'.pos = call.pos /\ ret'.n = call.n /\ ret'.v = v
  BY DEF Return
<1>2. call.n \in Nat /\ call.pos \in Nat /\ call.op \in Ops
  BY DEF InputInv, CallInv
<1>3. CallInv' /\ ReturnInv'
  BY <1>1 DEF CallInv, ReturnInv
<1>4. FileInv'
  BY <1>1, FileKept DEF InputInv, NoCall
<1>5. BufferInv'
  BY <1>1 DEF InputInv, BufferInv, NoCall
<1>6. SectorsDelivered'
  <2> SUFFICES ASSUME call.op = "read", v > 0, ~pieces, inStep
               PROVE  v <= call.n /\ SubSeq(buffer, 1, 2 * v) = SectorsFrom(call.pos, v)
    BY <1>1 DEF SectorsDelivered
  <2>1. v <= call.n /\ \A i \in 1 .. 2 * v : buffer[i] = 2 * call.pos + i - 1
    OBVIOUS
  <2>2. v \in Nat
    BY NetAssumption
  <2>3. buffer = [i \in DOMAIN buffer |-> buffer[i]] /\ DOMAIN buffer = 1 .. 2 * call.n
    BY DEF InputInv, BufferInv
  <2> QED BY <1>2, <2>1, <2>2, <2>3, InPlace
<1> QED
  BY <1>3, <1>4, <1>5, <1>6 DEF InputInv
------------------------------------------------------------------------------
(* The steps of the input                                                     *)

(* The operation under way, and what it may be answered.                        *)
LEMMA UnderWay ==
    ASSUME InputInv, call.op # "none"
    PROVE  /\ call # NoCall
           /\ call \in [op : Ops, at : {"start", "connect", "send", "decode", "destroy", "reading"},
                        net : BOOLEAN, pos : Nat, n : Nat, left : Nat, failed : BOOLEAN]
           /\ AnswersTo # {} /\ \A a \in AnswersTo : RightAnswer(a, call)
           /\ Request.type \in Nat /\ Request.sector_offset \in Nat /\ Request.sector_count \in Nat
           /\ Request = ServerRequest(Request.type, Request.sector_offset, Request.sector_count)
<1>1. call # NoCall
  <2>1. NoCall.op = "none"
    BY DEF NoCall
  <2> QED BY <2>1
<1>2. call \in [op : Ops, at : {"start", "connect", "send", "decode", "destroy", "reading"},
                net : BOOLEAN, pos : Nat, n : Nat, left : Nat, failed : BOOLEAN]
  BY <1>1 DEF InputInv, CallInv
<1>3. call.op \in Ops /\ call.pos \in Nat /\ call.n \in Nat
  BY <1>2
<1> QED
  BY <1>1, <1>2, <1>3, AnswersAre DEF AnswersTo, Request

(* The call goes on elsewhere, the same operation or closing.                   *)
LEMMA CallGoesOn ==
    ASSUME InputInv, call.op # "none", call.net, StreamInv',
           NEW at \in {"connect", "send", "decode", "destroy"}, call'.at = at,
           \/ call' = [call EXCEPT !.at = at]
           \/ call' = [call EXCEPT !.op = "close", !.at = at, !.failed = TRUE],
           UNCHANGED <<ret, fileSize, pieces, buffer>>,
           inStep' => inStep
    PROVE  InputInv'
<1>1. call \in [op : Ops, at : {"start", "connect", "send", "decode", "destroy", "reading"},
                net : BOOLEAN, pos : Nat, n : Nat, left : Nat, failed : BOOLEAN]
  BY UnderWay
<1>2. /\ call' \in [op : Ops, at : {"start", "connect", "send", "decode", "destroy", "reading"},
                    net : BOOLEAN, pos : Nat, n : Nat, left : Nat, failed : BOOLEAN]
      /\ call'.n = call.n
      /\ call'.op = call.op \/ call'.op = "close"
  BY <1>1 DEF Ops
<1>3. CallInv'
  BY <1>2 DEF CallInv
<1>4. FileInv'
  BY FileKept DEF InputInv
<1>5. BufferInv'
  BY <1>1, <1>2 DEF InputInv, BufferInv
<1>6. call'.op # "none"
  BY <1>2 DEF Ops
<1>7. ReturnInv' /\ SectorsDelivered'
  BY <1>6 DEF InputInv, ReturnInv, SectorsDelivered, Idle
<1> QED
  BY <1>3, <1>4, <1>5, <1>7 DEF InputInv

(* What the decoder holds is the answer to the request.                         *)
Answer(ok, msg) ==
    ok => \E a \in AnswersTo : /\ msg.type = a.type /\ msg.result = a.result
                               /\ msg.has_data => a.has_data /\ Filled(a)

LEMMA Finishes ==
    ASSUME InputInv, call.op # "none", call.net, call.at # "reading", ~Decoding,
           NEW ok \in BOOLEAN, NEW msg, Finish(ok, msg), inStep => Answer(ok, msg),
           UNCHANGED <<buffer, up, toServer, toClient, owed, inStep, fileSize, pieces>>
    PROVE  InputInv'
<1>1. /\ call # NoCall
      /\ call \in [op : Ops, at : {"start", "connect", "send", "decode", "destroy", "reading"},
                   net : BOOLEAN, pos : Nat, n : Nat, left : Nat, failed : BOOLEAN]
      /\ \A a \in AnswersTo : RightAnswer(a, call)
  BY UnderWay
<1>2. ASSUME CloseAfterError
      PROVE  InputInv'
  <2>1. call'.at = "send" /\ ret' = ret
    BY <1>1, <1>2 DEF CloseAfterError
  <2>2. StreamInv'
    BY <2>1, StreamKept DEF InputInv
  <2> QED BY <1>2, <2>1, <2>2, CallGoesOn DEF CloseAfterError
<1>3. ASSUME GoTo("destroy")
      PROVE  InputInv'
  <2>1. call'.at = "destroy" /\ ret' = ret
    BY <1>1, <1>3 DEF GoTo
  <2>2. StreamInv'
    BY <2>1, StreamKept DEF InputInv
  <2> QED BY <1>3, <2>1, <2>2, CallGoesOn DEF GoTo
<1>4. ASSUME NEW r, NEW v, Return(r, v), inStep => v \in -1 .. Sectors,
             call.op = "read" /\ v > 0 /\ inStep => call.pos + v <= Sectors,
             call.op = "read" /\ v > 0 /\ ~pieces /\ inStep =>
               v <= call.n /\ \A i \in 1 .. 2 * v : buffer[i] = 2 * call.pos + i - 1
      PROVE  InputInv'
  <2>1. call' = NoCall
    BY <1>4 DEF Return
  <2>2. StreamInv'
    BY <2>1, StreamKept DEF InputInv, NoCall
  <2> QED BY <1>1, <1>4, <2>2, Returned
<1>5. 0 \in -1 .. Sectors
  BY NetAssumption
<1>6. CASE call.op = "open"
  <2>1. Return(TRUE, 0) \/ CloseAfterError
    BY <1>6 DEF Finish
  <2> QED BY <1>2, <1>4, <1>5, <1>6, <2>1
<1>7. CASE call.op = "close"
  BY <1>3, <1>7 DEF Finish
<1>8. CASE call.op = "total"
  <2> DEFINE v == IF ok /\ msg.type = ServerResponse_Type.DISC_SIZE THEN msg.result ELSE 0
  <2>1. Return(TRUE, v)
    BY <1>8 DEF Finish
  <2>2. ASSUME inStep PROVE v \in -1 .. Sectors
    <3>1. CASE ok
      <4>1. PICK a \in AnswersTo : msg.result = a.result
        BY <2>2, <3>1 DEF Answer
      <4> QED BY <1>1, <1>5, <4>1 DEF RightAnswer
    <3> QED BY <1>5, <3>1
  <2> HIDE DEF v
  <2> QED BY <1>4, <1>8, <2>1, <2>2
<1>9. CASE call.op = "read"
  <2> DEFINE v == IF ok /\ msg.type = ServerResponse_Type.DISC_READ /\ msg.has_data
                  THEN msg.result ELSE 0
  <2>1. Return(TRUE, v)
    BY <1>9 DEF Finish
  <2>2. ASSUME inStep
        PROVE  /\ v \in -1 .. Sectors
               /\ v > 0 => /\ call.pos + v <= Sectors
                           /\ v <= call.n /\ \A i \in 1 .. 2 * v : buffer[i] = 2 * call.pos + i - 1
    <3>1. CASE ok /\ msg.has_data
      <4>1. PICK a \in AnswersTo : /\ msg.result = a.result
                                   /\ a.has_data /\ Filled(a)
        BY <2>2, <3>1 DEF Answer
      <4>2. /\ a.result \in -1 .. Sectors /\ a.result \in 0 .. call.n
            /\ a.data = SectorsFrom(call.pos, a.result)
            /\ a.result > 0 => call.pos + a.result <= Sectors
        BY <1>1, <1>9, <4>1 DEF RightAnswer
      <4>3. call.pos \in Nat /\ call.n \in Nat /\ a.result \in Nat /\ a.result <= call.n
        BY <1>1, <4>2
      <4>4. /\ DOMAIN a.data = 1 .. 2 * a.result
            /\ \A i \in 1 .. 2 * a.result : a.data[i] = 2 * call.pos + i - 1
        <5>1. /\ DOMAIN SectorsFrom(call.pos, a.result) = 1 .. 2 * a.result
              /\ \A i \in 1 .. 2 * a.result :
                   SectorsFrom(call.pos, a.result)[i] = 2 * call.pos + i - 1
          BY <4>3, SectorsAre
        <5> QED BY <4>2, <5>1
      <4>5. DOMAIN buffer = 1 .. 2 * call.n
        BY <1>9 DEF InputInv, BufferInv
      <4>6. \A i \in 1 .. 2 * a.result : i \in 1 .. 2 * call.n
        BY <4>3
      <4>7. \A i \in 1 .. 2 * a.result : buffer[i] = 2 * call.pos + i - 1
        BY <4>1, <4>4, <4>5, <4>6 DEF Filled
      <4>8. v = a.result \/ v = 0
        BY <4>1
      <4> HIDE DEF v
      <4> QED BY <1>5, <4>2, <4>3, <4>7, <4>8
    <3>2. CASE ~(ok /\ msg.has_data)
      <4>1. v = 0
        BY <3>2
      <4> HIDE DEF v
      <4> QED BY <1>5, <4>1
    <3> QED BY <3>1, <3>2
  <2> HIDE DEF v
  <2> QED BY <1>4, <1>9, <2>1, <2>2
<1> QED
  BY <1>1, <1>6, <1>7, <1>8, <1>9 DEF Ops

(* What the decoder has when it is done, and what is then left to come.         *)
LEMMA Done ==
    ASSUME NEW a, NEW d, NEW s, Parsing(a, d, s), d.at = "decoded"
    PROVE  /\ s = <<>> /\ d \in Decoder
           /\ d.msg.type = a.type /\ d.msg.result = a.result
           /\ d.msg.has_data = a.has_data
           /\ a.has_data => HasData(d)
<1>1. PICK e \in Ends : Stage(a, d, s, e)
  BY DEF Parsing
<1>2. Behind(a, d, s, e)
  BY <1>1 DEF Stage, Before, AtType, AfterType, AtResult, AfterResult, AtData, Skipping
<1>3. /\ s = <<>>
      /\ Kept(d, IF a.has_data THEN {1, 2, 3} ELSE {1, 2}, a.type, a.result, a.has_data)
  BY <1>2 DEF Behind, Skipping
<1>4. a.has_data => 3 \in d.seen
  BY <1>3 DEF Kept
<1> QED
  BY <1>3, <1>4 DEF Kept, Parsing, HasData

LEMMA FailedNever ==
    ASSUME NEW a, NEW d, NEW s, Parsing(a, d, s)
    PROVE  d.at # "failed" /\ d \in Decoder
BY DEF Parsing, Stage, Before, AtType, AfterType, AtResult, AfterResult, AtData, Behind, Skipping

(* Where the data of an answer are read, they are what comes.                   *)
LEMMA DataComes ==
    ASSUME NEW a \in Message, NEW d, NEW s, Parsing(a, d, s), d.at = "bytes", s # <<>>
    PROVE  Head(s) = Bytes(a.data) /\ ~HasData(d)
<1>1. PICK e \in Ends : Stage(a, d, s, e)
  BY DEF Parsing
<1>2. AtData(a, d, s, e)
  BY <1>1 DEF Stage, Before, AtType, AfterType, AtResult, AfterResult, Behind, Skipping
<1>3. s = <<Bytes(a.data)>> \o e
  BY <1>2 DEF AtData
<1>4. a.data \in Seq(Int) /\ e \in Seq(Unit)
  BY EndsAre DEF Message
<1>5. Bytes(a.data) \in Unit
  BY <1>4, Units
<1> QED
  BY <1>3, <1>4, <1>5, OneMore DEF HasData

LEMMA OpenNet ==
    ASSUME InputInv, sacd_net_input_open, UNCHANGED <<fileSize, pieces>>
    PROVE  InputInv'
<1>1. /\ call.op = "open" /\ call.net /\ call.at = "start" /\ ~Decoding
      /\ UNCHANGED <<buffer, up, toServer, toClient, owed, decoder, inStep>>
  BY DEF sacd_net_input_open, At, Decoding
<1>2. /\ call # NoCall
      /\ call \in [op : Ops, at : {"start", "connect", "send", "decode", "destroy", "reading"},
                   net : BOOLEAN, pos : Nat, n : Nat, left : Nat, failed : BOOLEAN]
  BY <1>1, UnderWay
<1>3. CASE Return(FALSE, 0)
  <2>1. call' = NoCall
    BY <1>3 DEF Return
  <2>2. StreamInv'
    BY <1>1, <2>1, StreamKept DEF InputInv, NoCall
  <2>3. 0 \in -1 .. Sectors
    BY NetAssumption
  <2> QED BY <1>1, <1>2, <1>3, <2>2, <2>3, Returned
<1>4. CASE CloseAfterError
  <2>1. call'.at = "send" /\ ret' = ret
    BY <1>2, <1>4 DEF CloseAfterError
  <2>2. StreamInv'
    BY <1>1, <2>1, StreamKept DEF InputInv
  <2> QED BY <1>1, <1>4, <2>1, <2>2, CallGoesOn DEF CloseAfterError
<1>5. CASE GoTo("connect")
  <2>1. call'.at = "connect" /\ ret' = ret
    BY <1>2, <1>5 DEF GoTo
  <2>2. StreamInv'
    BY <1>1, <2>1, StreamKept DEF InputInv
  <2> QED BY <1>1, <1>5, <2>1, <2>2, CallGoesOn DEF GoTo
<1> QED
  BY <1>3, <1>4, <1>5 DEF sacd_net_input_open

LEMMA Connects ==
    ASSUME InputInv, Connect, UNCHANGED <<fileSize, pieces>>
    PROVE  InputInv'
<1>1. /\ call.op = "open" /\ call.net /\ call.at = "connect" /\ ~Decoding
      /\ UNCHANGED <<buffer, toServer, toClient, owed, decoder, inStep>>
  BY DEF Connect, At, Decoding
<1>2. call \in [op : Ops, at : {"start", "connect", "send", "decode", "destroy", "reading"},
                net : BOOLEAN, pos : Nat, n : Nat, left : Nat, failed : BOOLEAN]
  BY <1>1, UnderWay
<1>3. (up' = TRUE /\ GoTo("send")) \/ (up' = up /\ CloseAfterError)
  BY DEF Connect
<1>4. call'.at = "send" /\ ret' = ret
  BY <1>2, <1>3 DEF CloseAfterError, GoTo
<1>5. StreamInv'
  BY <1>1, <1>3, <1>4, StreamKept DEF InputInv
<1> QED
  BY <1>1, <1>3, <1>4, <1>5, CallGoesOn DEF CloseAfterError, GoTo

LEMMA NetCall ==
    ASSUME InputInv, call.net PROVE call.op # "none"
<1>1. ~NoCall.net
  BY DEF NoCall
<1>2. call # NoCall
  BY <1>1
<1> QED
  BY <1>2 DEF InputInv, CallInv, Ops

LEMMA StartsRequest ==
    ASSUME InputInv, StartRequest, UNCHANGED <<fileSize, pieces>>
    PROVE  InputInv'
<1>1. /\ call.net /\ call.at = "start" /\ ~Decoding /\ GoTo("send")
      /\ UNCHANGED <<buffer, up, toServer, toClient, owed, decoder, inStep>>
  BY DEF StartRequest, Decoding, netVars
<1>2. call.op # "none"
  BY <1>1, NetCall
<1>3. call \in [op : Ops, at : {"start", "connect", "send", "decode", "destroy", "reading"},
                net : BOOLEAN, pos : Nat, n : Nat, left : Nat, failed : BOOLEAN]
  BY <1>2, UnderWay
<1>4. call'.at = "send" /\ ret' = ret
  BY <1>1, <1>3 DEF GoTo
<1>5. StreamInv'
  BY <1>1, <1>4, StreamKept DEF InputInv
<1> QED
  BY <1>1, <1>2, <1>4, <1>5, CallGoesOn DEF GoTo

LEMMA NewDecoderIs ==
    NewDecoder.at = "tag" /\ ~HasData(NewDecoder)
BY DEF NewDecoder, HasData

(* With a broken connection there is nothing to come but any answer's start.    *)
LEMMA NothingComes ==
    ASSUME InputInv, call.op # "none", AnswersTo' = AnswersTo,
           ~up', toServer' = <<>>, toClient' = <<>>, decoder' = NewDecoder
    PROVE  Answering'
<1>1. PICK a \in AnswersTo : a \in Message
  BY UnderWay DEF RightAnswer
<1> DEFINE s == pb_encode(ServerResponse_fields, a) \o <<EndOfMessage>>
<1>2. s \in Seq(Unit) /\ Parsing(a, NewDecoder, s)
  BY <1>1, AnswerSent
<1> HIDE DEF s
<1>3. Coming(s)' /\ a \in AnswersTo'
  BY <1>1 DEF Coming
<1>4. ~HasData(decoder')
  BY NewDecoderIs
<1> QED
  BY <1>2, <1>3, <1>4 DEF Answering

LEMMA SendsRequest ==
    ASSUME InputInv, SendRequest, UNCHANGED <<fileSize, pieces>>
    PROVE  InputInv'
<1>1. /\ call.net /\ call.at = "send" /\ ~Decoding
      /\ UNCHANGED <<buffer, up, toClient, owed, inStep>>
  BY DEF SendRequest, Decoding
<1>2. call.op # "none"
  BY <1>1, NetCall
<1>3. CASE Finish(FALSE, NewDecoder.msg) /\ toServer' = toServer
  <2>1. Answer(FALSE, NewDecoder.msg)
    BY DEF Answer
  <2> QED BY <1>1, <1>2, <1>3, <2>1, Finishes
<1>4. CASE /\ toServer' = IF up THEN toServer \o pb_encode(ServerRequest_fields, Request)
                                       \o <<EndOfMessage>>
                                ELSE toServer
           /\ decoder' = NewDecoder /\ GoTo("decode")
  <2>1. /\ call \in [op : Ops, at : {"start", "connect", "send", "decode", "destroy", "reading"},
                     net : BOOLEAN, pos : Nat, n : Nat, left : Nat, failed : BOOLEAN]
        /\ Request.type \in Nat /\ Request.sector_offset \in Nat /\ Request.sector_count \in Nat
        /\ Request = ServerRequest(Request.type, Request.sector_offset, Request.sector_count)
    BY <1>2, UnderWay
  <2>2. /\ call'.op = call.op /\ call'.pos = call.pos /\ call'.n = call.n /\ call'.at = "decode"
        /\ call'.net /\ ret' = ret
    BY <1>1, <1>4, <2>1 DEF GoTo
  <2>3. Request' = Request /\ AnswersTo' = AnswersTo
    BY <2>2 DEF Request, RequestOf, AnswersTo
  <2>4. inStep => toServer = <<>> /\ toClient = <<>> /\ owed = <<>>
    BY <1>1 DEF InputInv, StreamInv
  <2>5. CASE up
    <3>1. ASSUME inStep PROVE Asking'
      <4> DEFINE r == pb_encode(ServerRequest_fields, Request)
      <4>1. r \in Seq(Unit)
        BY <2>1, RequestIsSeq
      <4> HIDE DEF r
      <4>2. toServer' = (<<>> \o r) \o <<EndOfMessage>>
        BY <1>4, <2>4, <2>5, <3>1 DEF r
      <4>3. <<>> \o r = r
        BY <4>1
      <4> QED BY <1>1, <1>4, <2>3, <2>4, <2>5, <3>1, <4>2, <4>3 DEF Asking, r
    <3>2. decoder'.at = "tag"
      BY <1>4, NewDecoderIs
    <3>3. StreamInv'
      BY <1>1, <2>2, <2>5, <3>1, <3>2 DEF StreamInv, Decoding
    <3> QED BY <1>1, <1>2, <1>4, <2>2, <3>3, CallGoesOn DEF GoTo
  <2>6. CASE ~up
    <3>1. toServer' = <<>> /\ owed' = <<>>
      BY <1>1, <1>4, <2>6 DEF InputInv, StreamInv
    <3>2. ASSUME inStep PROVE Answering'
      BY <1>1, <1>2, <1>4, <2>3, <2>4, <2>6, <3>1, <3>2, NothingComes
    <3>3. decoder'.at = "tag"
      BY <1>4, NewDecoderIs
    <3>4. StreamInv'
      BY <1>1, <2>2, <2>6, <3>1, <3>2, <3>3 DEF StreamInv, Decoding
    <3> QED BY <1>1, <1>2, <1>4, <2>2, <3>4, CallGoesOn DEF GoTo
  <2> QED BY <2>5, <2>6
<1> QED
  BY <1>3, <1>4 DEF SendRequest, Request

LEMMA HasAnswer ==
    ASSUME InputInv, HaveAnswer, UNCHANGED <<fileSize, pieces>>
    PROVE  InputInv'
<1>1. /\ call.net /\ call.at = "decode" /\ ~Decoding /\ Finish(decoder.at = "decoded", decoder.msg)
      /\ UNCHANGED <<buffer, up, toServer, toClient, owed, inStep>>
  BY DEF HaveAnswer, Decoding
<1>2. call.op # "none"
  BY <1>1, NetCall
<1>3. ASSUME inStep PROVE Answer(decoder.at = "decoded", decoder.msg)
  <2>1. decoder.at = "decoded" => Answered
    BY <1>1, <1>3 DEF InputInv, StreamInv
  <2> QED BY <2>1 DEF Answer, Answered
<1>4. (decoder.at = "decoded") \in BOOLEAN
  OBVIOUS
<1> QED
  BY <1>1, <1>2, <1>3, <1>4, Finishes

LEMMA Destroys ==
    ASSUME InputInv, socket_destroy, UNCHANGED <<fileSize, pieces>>
    PROVE  InputInv'
<1>1. /\ call.op = "close" /\ call.net /\ call.at = "destroy" /\ Return(~call.failed, 0)
      /\ up' = FALSE /\ toServer' = <<>> /\ toClient' = <<>> /\ owed' = <<>>
      /\ UNCHANGED <<buffer, inStep>>
  BY DEF socket_destroy, At
<1>2. call # NoCall
  BY <1>1, UnderWay
<1>3. call'.net = FALSE
  BY <1>1 DEF Return, NoCall
<1>4. StreamInv'
  BY <1>1, <1>3 DEF StreamInv, Decoding
<1>5. 0 \in -1 .. Sectors
  BY NetAssumption
<1> QED
  BY <1>1, <1>2, <1>4, <1>5, Returned

(* What is read into the buffer leaves its size.                                *)
LEMMA Overlaid ==
    ASSUME NEW data, NEW buf, NEW new, new = Overlay(data, buf)
    PROVE  /\ new = [i \in DOMAIN new |-> new[i]] /\ DOMAIN new = DOMAIN buf
           /\ \A i \in DOMAIN buf : new[i] = IF i <= Len(data) THEN data[i] ELSE buf[i]
BY DEF Overlay

LEMMA ReadsUnit ==
    ASSUME InputInv, ReadUnit, UNCHANGED <<fileSize, pieces>>
    PROVE  InputInv'
<1> DEFINE new == pb_decode(ServerResponse_fields, decoder, Head(toClient))
<1>1. /\ Decoding /\ call.net /\ call.at = "decode"
      /\ decoder.at \notin {"decoded", "failed"} /\ toClient # <<>>
      /\ decoder' = new /\ toClient' = Tail(toClient)
      /\ inStep' = (inStep /\ decoder'.at # "failed")
      /\ UNCHANGED <<call, ret, up, toServer, owed>>
  BY DEF ReadUnit, Arrived, Decoding
<1>2. call.op # "none"
  BY <1>1, NetCall
<1>3. BufferInv'
  <2>1. CASE decoder.at = "bytes"
    <3>1. buffer' = Overlay(Head(toClient).b, buffer)
      BY <2>1 DEF ReadUnit
    <3>2. buffer' = [i \in DOMAIN buffer' |-> buffer'[i]] /\ DOMAIN buffer' = DOMAIN buffer
      BY <3>1, Overlaid
    <3> QED BY <1>1, <3>2 DEF InputInv, BufferInv
  <2>2. CASE decoder.at # "bytes"
    <3>1. buffer' = buffer
      BY <2>2 DEF ReadUnit
    <3> QED BY <1>1, <3>1 DEF InputInv, BufferInv
  <2> QED BY <2>1, <2>2
<1>4. CallInv' /\ FileInv' /\ ReturnInv' /\ SectorsDelivered'
  <2>1. CallInv' /\ FileInv'
    BY <1>1, FileKept DEF InputInv, CallInv, NoCall
  <2>2. ~Idle'
    BY <1>1, <1>2 DEF Idle
  <2> QED BY <1>1, <2>1, <2>2 DEF InputInv, ReturnInv, SectorsDelivered
<1>5. StreamInv'
  <2>1. AnswersTo' = AnswersTo
    BY <1>1 DEF AnswersTo, Request
  <2>2. ~up' => toServer' = <<>> /\ owed' = <<>>
    BY <1>1 DEF InputInv, StreamInv
  <2>3. CASE ~inStep'
    BY <2>2, <2>3 DEF StreamInv
  <2>4. CASE inStep'
    <3>1. inStep /\ new.at # "failed"
      BY <1>1, <2>4
    <3>2. Answering
      BY <1>1, <3>1 DEF InputInv, StreamInv, Asking
    <3>3. PICK a \in AnswersTo, s \in Seq(Unit) :
            Coming(s) /\ Parsing(a, decoder, s) /\ (HasData(decoder) => Filled(a))
      BY <3>2 DEF Answering
    <3>4. /\ s # <<>> /\ Head(toClient) = Head(s) /\ toClient' = <<>> /\ (up => owed = Tail(s))
          /\ Tail(s) \in Seq(Unit)
      <4>1. s # <<>> /\ toClient = <<Head(s)>> /\ (up => owed = Tail(s))
        BY <1>1, <3>3 DEF Coming
      <4>2. Head(<<Head(s)>>) = Head(s) /\ Tail(<<Head(s)>>) = <<>> /\ Tail(s) \in Seq(Unit)
        BY <4>1
      <4> QED BY <1>1, <4>1, <4>2
    <3>5. a \in Message
      BY <1>2, UnderWay DEF RightAnswer
    <3>6. Goes(a, decoder, new, Tail(s))
      BY <1>1, <3>3, <3>4, <3>5, NextUnit
    <3> HIDE DEF new
    <3>7. Parsing(a, decoder', Tail(s)) /\ (HasData(decoder') => HasData(decoder) \/ decoder.at = "bytes")
      BY <1>1, <3>1, <3>6 DEF Goes
    <3>8. HasData(decoder') => Filled(a)'
      <4> SUFFICES ASSUME HasData(decoder') PROVE Filled(a)'
        OBVIOUS
      <4>1. CASE decoder.at = "bytes"
        <5>1. Head(toClient).b = a.data
          BY <3>3, <3>4, <3>5, <4>1, DataComes DEF Bytes
        <5>2. buffer' = Overlay(a.data, buffer)
          BY <4>1, <5>1 DEF ReadUnit
        <5>3. /\ DOMAIN buffer' = DOMAIN buffer
              /\ \A i \in DOMAIN buffer : buffer'[i] = IF i <= Len(a.data) THEN a.data[i] ELSE buffer[i]
          BY <5>2, Overlaid
        <5>4. DOMAIN a.data = 1 .. Len(a.data)
          BY <3>5 DEF Message
        <5> QED BY <5>3, <5>4 DEF Filled
      <4>2. CASE decoder.at # "bytes"
        <5>1. buffer' = buffer
          BY <4>2 DEF ReadUnit
        <5>2. Filled(a)
          BY <3>3, <3>7, <4>2
        <5> QED BY <5>1, <5>2 DEF Filled
      <4> QED BY <4>1, <4>2
    <3>9. Coming(Tail(s))'
      BY <1>1, <3>4 DEF Coming
    <3>10. CASE decoder'.at = "decoded"
      <4>1. /\ Tail(s) = <<>> /\ decoder' \in Decoder
            /\ decoder'.msg.type = a.type /\ decoder'.msg.result = a.result
            /\ decoder'.msg.has_data = a.has_data
            /\ a.has_data => HasData(decoder')
        BY <3>7, <3>10, Done
      <4>2. Answered'
        BY <2>1, <3>8, <4>1 DEF Answered
      <4>3. toServer' = <<>> /\ toClient' = <<>> /\ owed' = <<>>
        BY <1>1, <2>2, <3>2, <3>4, <4>1 DEF Answering
      <4>4. ~Decoding'
        BY <3>10 DEF Decoding
      <4> QED BY <2>2, <4>2, <4>3, <4>4 DEF StreamInv
    <3>11. CASE decoder'.at # "decoded"
      <4>1. Answering'
        BY <1>1, <2>1, <3>2, <3>4, <3>7, <3>8, <3>9 DEF Answering
      <4>2. Decoding'
        BY <1>1, <3>1, <3>11 DEF Decoding
      <4> QED BY <2>2, <3>11, <4>1, <4>2 DEF StreamInv
    <3> QED BY <3>10, <3>11
  <2> QED BY <2>3, <2>4
<1> QED
  BY <1>3, <1>4, <1>5 DEF InputInv

(* An answer that is not the one asked for leaves nothing to be claimed.        *)
LEMMA ReadsAmiss ==
    ASSUME InputInv, ReadBytesAstray \/ ReadAmiss, UNCHANGED <<fileSize, pieces>>
    PROVE  InputInv'
<1>1. /\ Arrived /\ ~inStep' /\ buffer' \in {buffer, Overlay(Head(toClient).b, buffer)}
      /\ UNCHANGED <<call, ret, up, toServer, owed>>
  BY DEF ReadBytesAstray, ReadAmiss
<1>2. call.op # "none"
  BY <1>1, NetCall DEF Arrived, Decoding
<1>3. BufferInv'
  <2>1. buffer' = [i \in DOMAIN buffer' |-> buffer'[i]] /\ DOMAIN buffer' = DOMAIN buffer
    BY <1>1, Overlaid DEF InputInv, BufferInv
  <2> QED BY <1>1, <2>1 DEF InputInv, BufferInv
<1>4. CallInv' /\ FileInv'
  BY <1>1, FileKept DEF InputInv, CallInv, NoCall, Arrived, Decoding
<1>5. ~Idle'
  BY <1>1, <1>2 DEF Idle
<1>6. StreamInv' /\ ReturnInv' /\ SectorsDelivered'
  BY <1>1, <1>5 DEF InputInv, StreamInv, ReturnInv, SectorsDelivered
<1> QED
  BY <1>3, <1>4, <1>6 DEF InputInv

LEMMA ReadsEof ==
    ASSUME InputInv, ReadEof, UNCHANGED <<fileSize, pieces>>
    PROVE  InputInv'
<1>1. /\ Decoding /\ call.net /\ toClient = <<>> /\ ~up
      /\ UNCHANGED <<call, ret, buffer, up, toServer, toClient, owed, inStep>>
  BY DEF ReadEof, Decoding
<1>2. call.op # "none"
  BY <1>1, NetCall
<1>3. PICK last \in BOOLEAN : decoder' = DecodeAtEof(ServerResponse_fields, decoder, last)
  BY DEF ReadEof
<1>4. CallInv' /\ BufferInv' /\ FileInv' /\ ReturnInv' /\ SectorsDelivered'
  <2>1. CallInv' /\ BufferInv' /\ ReturnInv'
    BY <1>1 DEF InputInv, CallInv, BufferInv, ReturnInv, NoCall
  <2>2. FileInv'
    BY <1>1 DEF InputInv, FileInv, FileAt
  <2>3. SectorsDelivered'
    BY <1>1 DEF InputInv, SectorsDelivered, Idle
  <2> QED BY <2>1, <2>2, <2>3
<1>5. StreamInv'
  <2>1. AnswersTo' = AnswersTo
    BY <1>1 DEF AnswersTo, Request
  <2>2. toServer' = <<>> /\ owed' = <<>> /\ toClient' = <<>>
    BY <1>1 DEF InputInv, StreamInv
  <2>3. CASE ~inStep
    BY <1>1, <2>2, <2>3 DEF StreamInv
  <2>4. CASE inStep
    <3>1. Answering
      BY <1>1, <2>4 DEF InputInv, StreamInv, Asking
    <3>2. PICK a \in AnswersTo, s \in Seq(Unit) :
            Coming(s) /\ Parsing(a, decoder, s) /\ (HasData(decoder) => Filled(a))
      BY <3>1 DEF Answering
    <3>3. a \in Message
      BY <1>2, UnderWay DEF RightAnswer
    <3>4. decoder'.at # "failed" =>
            /\ decoder' \in Decoder /\ decoder'.at = "decoded"
            /\ decoder'.msg.type = a.type /\ decoder'.msg.result = a.result
            /\ decoder'.msg.has_data => a.has_data /\ HasData(decoder)
      BY <1>3, <3>2, <3>3, AtEof
    <3>5. Filled(a)' = Filled(a)
      BY <1>1 DEF Filled
    <3>6. decoder'.at = "decoded" => Answered'
      BY <2>1, <3>2, <3>4, <3>5 DEF Answered
    <3>7. ~Decoding'
      BY <3>4 DEF Decoding
    <3> QED BY <2>2, <3>6, <3>7 DEF StreamInv
  <2> QED BY <2>3, <2>4
<1> QED
  BY <1>4, <1>5 DEF InputInv

(* The other end does nothing to the call, the buffer and the file.             *)
LEMMA OtherEnd ==
    ASSUME InputInv, UNCHANGED <<call, ret, buffer, decoder, inStep, fileSize, pieces>>, StreamInv'
    PROVE  InputInv'
<1>1. CallInv' /\ BufferInv' /\ ReturnInv'
  BY DEF InputInv, CallInv, BufferInv, ReturnInv, NoCall
<1>2. FileInv'
  BY DEF InputInv, FileInv, FileAt
<1>3. SectorsDelivered'
  BY DEF InputInv, SectorsDelivered, Idle
<1> QED
  BY <1>1, <1>2, <1>3 DEF InputInv

LEMMA Serves ==
    ASSUME InputInv, ServerAnswers, UNCHANGED <<fileSize, pieces>>
    PROVE  InputInv'
<1>1. /\ up /\ toServer # <<>> /\ toServer' = <<>>
      /\ UNCHANGED <<call, ret, buffer, up, toClient, decoder, inStep>>
  BY DEF ServerAnswers
<1>2. StreamInv'
  <2>1. CASE ~inStep
    BY <1>1, <2>1 DEF StreamInv
  <2>2. CASE inStep
    <3>1. Decoding /\ Asking
      BY <1>1, <2>2 DEF InputInv, StreamInv, Answering
    <3>2. call.op # "none"
      BY <3>1, NetCall DEF Decoding
    <3>3. AnswersTo' = AnswersTo
      BY <1>1 DEF AnswersTo, Request
    <3>4. /\ Request.type \in Nat /\ Request.sector_offset \in Nat /\ Request.sector_count \in Nat
          /\ Request = ServerRequest(Request.type, Request.sector_offset, Request.sector_count)
          /\ \A a \in AnswersTo : a \in Message
      BY <3>2, UnderWay DEF RightAnswer
    <3>5. /\ toServer[2].v = Request.type /\ toServer[4].v = Request.sector_offset
          /\ toServer[6].v = Request.sector_count
      <4>1. toServer = pb_encode(ServerRequest_fields,
                                 ServerRequest(Request.type, Request.sector_offset, Request.sector_count))
                         \o <<EndOfMessage>>
        BY <3>1, <3>4 DEF Asking
      <4>2. Reads(toServer, Request.type, Request.sector_offset, Request.sector_count)
        BY <3>4, <4>1, RequestRead, Zenon
      <4> QED BY <4>2 DEF Reads
    <3>6. PICK a \in AnswersTo :
            LET known == pb_encode(ServerResponse_fields, a) IN
            owed' \in {known \o <<EndOfMessage>>}
                        \cup {NewField(w) \o known \o <<EndOfMessage>> : w \in NewFields}
                        \cup {known \o NewField(w) \o <<EndOfMessage>> : w \in NewFields}
      BY <3>5 DEF ServerAnswers, AnswersTo
    <3>7. owed' \in Seq(Unit) /\ Parsing(a, NewDecoder, owed')
      BY <3>4, <3>6, AnswerSent
    <3>8. decoder = NewDecoder /\ decoder' = NewDecoder /\ toClient' = <<>>
      BY <1>1, <3>1 DEF Asking
    <3>9. ~HasData(decoder')
      BY <3>8, NewDecoderIs
    <3>10. PICK s \in Seq(Unit) : owed' = s
      BY <3>7
    <3>11. Answering'
      <4>1. Coming(s)' /\ Parsing(a, decoder', s) /\ a \in AnswersTo'
        BY <3>3, <3>7, <3>8, <3>10 DEF Coming
      <4> QED BY <1>1, <3>9, <4>1 DEF Answering
    <3>12. Decoding'
      BY <1>1, <3>1 DEF Decoding
    <3> QED BY <1>1, <3>11, <3>12 DEF StreamInv, Decoding
  <2> QED BY <2>1, <2>2
<1> QED
  BY <1>1, <1>2, OtherEnd

LEMMA Sends ==
    ASSUME InputInv, ServerSends, UNCHANGED <<fileSize, pieces>>
    PROVE  InputInv'
<1>1. /\ up /\ owed # <<>> /\ toClient = <<>> /\ toClient' = <<Head(owed)>> /\ owed' = Tail(owed)
      /\ UNCHANGED <<call, ret, buffer, up, toServer, decoder, inStep>>
  BY DEF ServerSends
<1>2. StreamInv'
  <2>1. CASE ~inStep
    BY <1>1, <2>1 DEF StreamInv
  <2>2. CASE inStep
    <3>1. Decoding /\ Answering
      BY <1>1, <2>2 DEF InputInv, StreamInv, Asking
    <3>2. AnswersTo' = AnswersTo
      BY <1>1 DEF AnswersTo, Request
    <3>3. PICK a \in AnswersTo, s \in Seq(Unit) :
            Coming(s) /\ Parsing(a, decoder, s) /\ (HasData(decoder) => Filled(a))
      BY <3>1 DEF Answering
    <3>4. owed = s
      BY <1>1, <3>3 DEF Coming
    <3>5. Coming(s)'
      BY <1>1, <3>4 DEF Coming
    <3>6. Filled(a)' = Filled(a)
      BY <1>1 DEF Filled
    <3>7. Answering'
      BY <1>1, <3>1, <3>2, <3>3, <3>5, <3>6 DEF Answering
    <3>8. Decoding'
      BY <1>1, <3>1 DEF Decoding
    <3> QED BY <1>1, <3>7, <3>8 DEF StreamInv, Decoding
  <2> QED BY <2>1, <2>2
<1> QED
  BY <1>1, <1>2, OtherEnd

LEMMA Breaks ==
    ASSUME InputInv, ConnectionBreaks, UNCHANGED <<fileSize, pieces>>
    PROVE  InputInv'
<1>1. /\ up /\ up' = FALSE /\ owed' = <<>> /\ toServer' = <<>> /\ toClient' \in {toClient, <<>>}
      /\ UNCHANGED <<call, ret, buffer, decoder, inStep>>
  BY DEF ConnectionBreaks
<1>2. AnswersTo' = AnswersTo
  BY <1>1 DEF AnswersTo, Request
<1>3. \A a : Filled(a)' = Filled(a)
  BY <1>1 DEF Filled
<1>4. Decoding' = Decoding
  BY <1>1 DEF Decoding
<1>5. StreamInv'
  <2>1. CASE ~inStep
    BY <1>1, <2>1 DEF StreamInv
  <2>2. CASE inStep /\ ~Decoding
    <3>1. toClient' = <<>>
      BY <1>1, <2>2 DEF InputInv, StreamInv
    <3>2. Answered' = Answered
      BY <1>1, <1>2, <1>3 DEF Answered
    <3>3. (inStep /\ call.net /\ call.at = "decode" /\ decoder.at = "decoded") => Answered
      BY DEF InputInv, StreamInv
    <3> QED BY <1>1, <1>4, <2>2, <3>1, <3>2, <3>3 DEF StreamInv
  <2>3. CASE inStep /\ Decoding
    <3>1. call.op # "none"
      BY <2>3, NetCall DEF Decoding
    <3>2. CASE Asking
      <4>1. toClient' = <<>> /\ decoder' = NewDecoder
        BY <1>1, <3>2 DEF Asking
      <4>2. Answering'
        BY <1>1, <1>2, <3>1, <4>1, NothingComes
      <4> QED BY <1>1, <1>4, <2>3, <4>2 DEF StreamInv, Decoding
    <3>3. CASE Answering
      <4>1. PICK a \in AnswersTo, s \in Seq(Unit) :
              Coming(s) /\ Parsing(a, decoder, s) /\ (HasData(decoder) => Filled(a))
        BY <3>3 DEF Answering
      <4>2. Coming(s)'
        BY <1>1, <4>1 DEF Coming
      <4>3. Answering'
        BY <1>1, <1>2, <1>3, <4>1, <4>2 DEF Answering
      <4> QED BY <1>1, <1>4, <2>3, <4>3 DEF StreamInv, Decoding
    <3> QED BY <2>3, <3>2, <3>3 DEF InputInv, StreamInv
  <2> QED BY <2>1, <2>2, <2>3
<1> QED
  BY <1>1, <1>5, OtherEnd
------------------------------------------------------------------------------
(* A file                                                                     *)

LEMMA FileReturns ==
    ASSUME InputInv, ~call.net, call.op # "none", NEW ok, NEW v, Return(ok, v),
           UNCHANGED <<buffer, netVars, fileSize, pieces>>, v \in -1 .. Sectors,
           call.op = "read" /\ v > 0 => call.pos + v <= Sectors,
           call.op = "read" /\ v > 0 /\ ~pieces =>
             v <= call.n /\ \A i \in 1 .. 2 * v : buffer[i] = 2 * call.pos + i - 1
    PROVE  InputInv'
<1>1. call # NoCall
  BY UnderWay
<1>2. call'.net = FALSE
  BY DEF Return, NoCall
<1>3. StreamInv'
  BY <1>2, StreamKept DEF InputInv, Decoding, netVars
<1> QED
  BY <1>1, <1>3, Returned DEF netVars

LEMMA FileAsked ==
    ASSUME InputInv,
           \/ sacd_dev_input_open \/ sacd_dev_input_close \/ sacd_dev_input_total_sectors
    PROVE  InputInv'
<1>1. /\ ~call.net /\ call.op \in {"open", "close", "total"}
      /\ UNCHANGED <<buffer, netVars, fileSize, pieces>>
  BY DEF sacd_dev_input_open, sacd_dev_input_close, sacd_dev_input_total_sectors, On, unlessReading
<1>2. PICK ok \in BOOLEAN, v \in {0, fileSize \div 2} : Return(ok, v)
  <2>1. CASE sacd_dev_input_open
    BY <2>1 DEF sacd_dev_input_open
  <2>2. CASE sacd_dev_input_close
    BY <2>2 DEF sacd_dev_input_close
  <2>3. CASE sacd_dev_input_total_sectors
    BY <2>3 DEF sacd_dev_input_total_sectors
  <2> QED BY <2>1, <2>2, <2>3
<1>3. v \in -1 .. Sectors
  <2>1. fileSize \in 0 .. 2 * Sectors /\ Sectors \in Nat
    BY NetAssumption DEF InputInv, FileInv
  <2>2. fileSize \div 2 \in 0 .. Sectors
    BY <2>1
  <2> QED BY <1>2, <2>1, <2>2
<1> QED
  BY <1>1, <1>2, <1>3, FileReturns

LEMMA FileRead ==
    ASSUME InputInv, sacd_dev_input_read
    PROVE  InputInv'
<1>1. /\ ~call.net /\ call.op = "read" /\ call.at = "start"
      /\ UNCHANGED <<buffer, netVars, fileSize, pieces>>
  BY DEF sacd_dev_input_read, On, unlessReading
<1>2. call \in [op : Ops, at : {"start", "connect", "send", "decode", "destroy", "reading"},
                net : BOOLEAN, pos : Nat, n : Nat, left : Nat, failed : BOOLEAN]
  BY <1>1, UnderWay
<1>3. CASE Return(TRUE, 0)
  <2>1. 0 \in -1 .. Sectors /\ ~(0 > 0)
    BY NetAssumption
  <2> QED BY <1>1, <1>3, <2>1, FileReturns, Zenon
<1>4. CASE call' = [call EXCEPT !.at = "reading", !.left = 2 * call.n] /\ ret' = ret
  <2>1. 2 * call.n \in Nat
    BY <1>2
  <2>2. /\ call' \in [op : Ops, at : {"start", "connect", "send", "decode", "destroy", "reading"},
                      net : BOOLEAN, pos : Nat, n : Nat, left : Nat, failed : BOOLEAN]
        /\ call'.net = call.net /\ call'.op = call.op /\ call'.n = call.n /\ call'.pos = call.pos
        /\ call'.left = 2 * call.n /\ call'.at = "reading"
    BY <1>2, <1>4, <2>1
  <2>3. CallInv' /\ BufferInv'
    BY <1>1, <2>2 DEF InputInv, CallInv, BufferInv
  <2>4. FileInv'
    BY <1>1, <2>1, <2>2 DEF InputInv, FileInv
  <2>5. StreamInv'
    BY <1>1, <2>2, StreamKept DEF InputInv, Decoding, netVars
  <2>6. ReturnInv' /\ SectorsDelivered'
    BY <1>1, <1>4, <2>2 DEF InputInv, ReturnInv, SectorsDelivered, Idle, netVars
  <2> QED BY <2>3, <2>4, <2>5, <2>6 DEF InputInv
<1> QED
  BY <1>3, <1>4 DEF sacd_dev_input_read

(* How far a piece can reach.                                                   *)
LEMMA Reach ==
    ASSUME InputInv, call.at = "reading"
    PROVE  /\ call.pos \in Nat /\ call.n \in Nat /\ call.left \in Nat /\ call.left <= 2 * call.n
           /\ call.op = "read" /\ ~call.net /\ fileSize \in Nat /\ fileSize <= 2 * Sectors
           /\ FileAt \in Nat /\ FileAt = 2 * call.pos + (2 * call.n - call.left)
           /\ Available \in Nat /\ Available <= call.left
           /\ Available > 0 => FileAt + Available <= fileSize
           /\ Available = call.left \/ FileAt >= fileSize \/ FileAt + Available = fileSize
<1>1. call # NoCall
  <2>1. NoCall.at = ""
    BY DEF NoCall
  <2> QED BY <2>1
<1>2. /\ call.pos \in Nat /\ call.n \in Nat /\ call.left \in Nat
      /\ call.op = "read" /\ ~call.net
  BY <1>1 DEF InputInv, CallInv
<1>3. call.left \in 0 .. 2 * call.n /\ fileSize \in 0 .. 2 * Sectors /\ Sectors \in Nat
  BY NetAssumption DEF InputInv, FileInv
<1>4. call.left <= 2 * call.n /\ fileSize \in Nat /\ fileSize <= 2 * Sectors
  BY <1>2, <1>3
<1>5. FileAt = 2 * call.pos + (2 * call.n - call.left)
  BY DEF FileAt
<1>6. FileAt \in Nat
  BY <1>2, <1>4, <1>5
<1> DEFINE at == FileAt
           left == call.left
<1>7. Available = IF at >= fileSize THEN 0 ELSE IF left < fileSize - at THEN left ELSE fileSize - at
  BY DEF Available
<1>8. at \in Nat /\ left \in Nat
  BY <1>2, <1>6
<1> HIDE DEF at, left
<1>9. /\ Available \in Nat /\ Available <= left
      /\ Available > 0 => at + Available <= fileSize
      /\ Available = left \/ at >= fileSize \/ at + Available = fileSize
  BY <1>4, <1>7, <1>8
<1> QED
  BY <1>2, <1>4, <1>5, <1>6, <1>9 DEF at, left

LEMMA PieceRead ==
    ASSUME InputInv, ReadPiece
    PROVE  InputInv'
<1>1. /\ ~call.net /\ call.op = "read" /\ call.at = "reading" /\ call.left > 0
      /\ UNCHANGED <<ret, netVars, fileSize>>
  BY DEF ReadPiece, On
<1>2. /\ call.pos \in Nat /\ call.n \in Nat /\ call.left \in Nat /\ call.left <= 2 * call.n
      /\ fileSize \in Nat
      /\ FileAt \in Nat /\ FileAt = 2 * call.pos + (2 * call.n - call.left)
      /\ Available \in Nat /\ Available <= call.left
      /\ Available > 0 => FileAt + Available <= fileSize
      /\ Available = call.left \/ FileAt >= fileSize \/ FileAt + Available = fileSize
  BY <1>1, Reach
<1>3. PICK k \in 1 .. Available :
        /\ buffer' = Overlay([i \in 1 .. k |-> FileAt + i - 1], buffer)
        /\ call' = [call EXCEPT !.left = @ - k]
        /\ pieces' = (pieces \/ k < Available)
  <2>1. PICK k \in IF pieces THEN {Available} \ {0} ELSE 1 .. Available :
          /\ buffer' = Overlay([i \in 1 .. k |-> FileAt + i - 1], buffer)
          /\ call' = [call EXCEPT !.left = @ - k]
          /\ pieces' = (pieces \/ k < Available)
    BY DEF ReadPiece
  <2>2. k \in 1 .. Available
    BY <1>2, <2>1
  <2> QED BY <2>1, <2>2
<1>4. /\ k \in Nat /\ k > 0 /\ k <= Available /\ call.left - k \in Nat
      /\ FileAt + k <= fileSize
  BY <1>2, <1>3
<1>5. call \in [op : Ops, at : {"start", "connect", "send", "decode", "destroy", "reading"},
                net : BOOLEAN, pos : Nat, n : Nat, left : Nat, failed : BOOLEAN]
  BY <1>1, UnderWay
<1>6. /\ call' \in [op : Ops, at : {"start", "connect", "send", "decode", "destroy", "reading"},
                    net : BOOLEAN, pos : Nat, n : Nat, left : Nat, failed : BOOLEAN]
      /\ call'.net = call.net /\ call'.op = call.op /\ call'.n = call.n /\ call'.pos = call.pos
      /\ call'.left = call.left - k /\ call'.at = call.at
  BY <1>3, <1>4, <1>5
<1>7. /\ buffer' = [i \in DOMAIN buffer' |-> buffer'[i]] /\ DOMAIN buffer' = DOMAIN buffer
      /\ \A i \in 1 .. k : i \in DOMAIN buffer => buffer'[i] = FileAt + i - 1
  <2> DEFINE data == [i \in 1 .. k |-> FileAt + i - 1]
  <2>1. Len(data) = k /\ \A i \in 1 .. k : data[i] = FileAt + i - 1
    <3>1. data \in Seq(Int)
      BY <1>2, <1>4
    <3>2. DOMAIN data = 1 .. k
      OBVIOUS
    <3> QED BY <1>4, <3>1, <3>2
  <2>2. buffer' = Overlay(data, buffer)
    BY <1>3
  <2> HIDE DEF data
  <2>3. /\ buffer' = [i \in DOMAIN buffer' |-> buffer'[i]] /\ DOMAIN buffer' = DOMAIN buffer
        /\ \A i \in DOMAIN buffer : buffer'[i] = IF i <= Len(data) THEN data[i] ELSE buffer[i]
    BY <2>2, Overlaid
  <2>4. \A i \in 1 .. k : i <= k
    OBVIOUS
  <2> QED BY <2>1, <2>3, <2>4
<1>8. DOMAIN buffer = 1 .. 2 * call.n
  BY <1>1 DEF InputInv, BufferInv
<1>9. CallInv' /\ BufferInv'
  BY <1>1, <1>6, <1>7, <1>8 DEF CallInv, BufferInv
<1>10. FileInv'
  <2>1. /\ fileSize' = fileSize /\ fileSize \in 0 .. 2 * Sectors
        /\ call.left < 2 * call.n => (~pieces => call.left = 0 \/ FileAt = fileSize)
    BY <1>1 DEF InputInv, FileInv
  <2>2. FileAt' = FileAt + k
    BY <1>2, <1>4, <1>6 DEF FileAt
  <2>3. /\ call'.left \in 0 .. 2 * call'.n
        /\ 2 * call'.pos + (2 * call'.n - call'.left) <= fileSize'
    BY <1>2, <1>4, <1>6, <2>1, <2>2
  <2>4. ASSUME ~pieces'
        PROVE  /\ \A i \in 1 .. 2 * call'.n - call'.left : buffer'[i] = 2 * call'.pos + i - 1
               /\ call'.left = 0 \/ FileAt' = fileSize'
    <3> DEFINE av == Available
    <3>a. ~(pieces \/ k < av)
      BY <1>3, <2>4
    <3>b. k \in Nat /\ av \in Nat /\ k <= av
      BY <1>2, <1>4
    <3> HIDE DEF av
    <3>c. ~pieces /\ ~(k < av)
      BY <3>a, Zenon
    <3>d. k = av
      BY <3>b, <3>c
    <3>1. ~pieces /\ k = Available
      BY <3>c, <3>d DEF av
    <3>2. call.left = 2 * call.n
      <4> SUFFICES ASSUME call.left # 2 * call.n PROVE FALSE
        OBVIOUS
      <4>0. call.left < 2 * call.n /\ call.left # 0
        BY <1>1, <1>2
      <4>1. FileAt = fileSize
        BY <2>1, <3>1, <4>0, Zenon
      <4> QED BY <1>2, <1>4, <4>1
    <3>3. FileAt = 2 * call.pos /\ 2 * call'.n - call'.left = k
      BY <1>2, <1>4, <1>6, <3>2
    <3>4. \A i \in 1 .. k : i \in DOMAIN buffer
      <4>1. k <= 2 * call.n /\ 2 * call.n \in Nat
        BY <1>2, <1>4
      <4>2. \A i \in 1 .. k : i \in 1 .. 2 * call.n
        BY <1>4, <4>1
      <4> QED BY <1>8, <4>2
    <3>5. \A i \in 1 .. 2 * call'.n - call'.left : buffer'[i] = 2 * call'.pos + i - 1
      BY <1>6, <1>7, <3>3, <3>4
    <3>6. call'.left = 0 \/ FileAt' = fileSize'
      BY <1>2, <1>4, <1>6, <2>1, <2>2, <3>1
    <3> QED BY <3>5, <3>6
  <2> QED BY <2>1, <2>3, <2>4 DEF FileInv
<1>11. StreamInv'
  BY <1>1, <1>6, StreamKept DEF InputInv, Decoding, netVars
<1>12. ReturnInv' /\ SectorsDelivered'
  BY <1>1, <1>6 DEF InputInv, ReturnInv, SectorsDelivered, Idle, netVars
<1> QED
  BY <1>9, <1>10, <1>11, <1>12 DEF InputInv

LEMMA FileReadReturns ==
    ASSUME InputInv, ReadReturns
    PROVE  InputInv'
<1>1. /\ ~call.net /\ call.op = "read" /\ call.at = "reading"
      /\ UNCHANGED <<buffer, netVars, fileSize, pieces>>
  BY DEF ReadReturns, On, unlessReading
<1>2. /\ call.pos \in Nat /\ call.n \in Nat /\ call.left \in Nat /\ call.left <= 2 * call.n
      /\ fileSize \in Nat /\ fileSize <= 2 * Sectors /\ Sectors \in Nat
  BY <1>1, NetAssumption, Reach
<1> DEFINE got == 2 * call.n - call.left
<1>3. got \in Nat /\ got <= 2 * call.n
  BY <1>2
<1>4. got > 0 => 2 * call.pos + got <= fileSize
  BY <1>1, <1>2 DEF InputInv, FileInv
<1>5. ~pieces => \A i \in 1 .. got : buffer[i] = 2 * call.pos + i - 1
  <2>1. ~pieces /\ call.left < 2 * call.n =>
          \A i \in 1 .. 2 * call.n - call.left : buffer[i] = 2 * call.pos + i - 1
    BY <1>1 DEF InputInv, FileInv
  <2>2. got > 0 => call.left < 2 * call.n
    BY <1>2
  <2>3. got = 0 => 1 .. got = {}
    OBVIOUS
  <2> QED BY <1>3, <2>1, <2>2, <2>3
<1>6. PICK v : Return(TRUE, v) /\ (v = -1 \/ v = WholeBlocks \/ (v = call.n /\ call.left = 0))
  <2>1. CASE call.left = 0 /\ Return(TRUE, call.n)
    BY <2>1
  <2>2. CASE Return(TRUE, WholeBlocks)
    BY <2>2
  <2>3. CASE Return(TRUE, -1)
    BY <2>3
  <2> QED BY <2>1, <2>2, <2>3 DEF ReadReturns
<1>7. WholeBlocks \in Nat /\ 2 * WholeBlocks <= got
  <2>1. WholeBlocks = got \div 2
    BY DEF WholeBlocks
  <2> HIDE DEF got
  <2> QED BY <1>3, <2>1
<1>8. v = -1 \/ (v \in Nat /\ 2 * v <= got)
  BY <1>2, <1>6, <1>7
<1> HIDE DEF got
<1>9. v \in -1 .. Sectors /\ (v > 0 => call.pos + v <= Sectors)
  BY <1>2, <1>3, <1>4, <1>8
<1>10. v > 0 /\ ~pieces => v <= call.n /\ \A i \in 1 .. 2 * v : buffer[i] = 2 * call.pos + i - 1
  BY <1>2, <1>3, <1>5, <1>8
<1> QED
  BY <1>1, <1>6, <1>9, <1>10, FileReturns

LEMMA InputSteps ==
    ASSUME InputInv, InputStep \/ ServerStep \/ Break
    PROVE  InputInv'
<1>1. CASE NetStep /\ UNCHANGED <<fileSize, pieces>>
  BY <1>1, OpenNet, Connects, StartsRequest, SendsRequest, ReadsUnit, ReadsAmiss, ReadsEof,
     HasAnswer, Destroys
     DEF NetStep
<1>2. CASE ServerStep \/ Break
  BY <1>2, Serves, Sends, Breaks DEF ServerStep, Break
<1> QED
  BY <1>1, <1>2, FileAsked, FileRead, PieceRead, FileReadReturns DEF InputStep
-------------------------------------------------------------------------------
(* The program                                                                *)

LEMMA NothingWhenIdle ==
    ASSUME InputInv, Idle
    PROVE  ~InputStep
<1>1. call.op = "none" /\ call.op \notin Ops /\ ~call.net
  <2>1. call = NoCall
    BY DEF InputInv, CallInv, Idle, Ops
  <2> QED BY <2>1 DEF NoCall, Ops
<1>2. ~NetStep
  BY <1>1 DEF NetStep, sacd_net_input_open, Connect, StartRequest, SendRequest, ReadUnit, ReadBytesAstray,
              ReadAmiss, Arrived, ReadEof, HaveAnswer, socket_destroy, At, Decoding
<1>3. \A op \in Ops, at \in {"start", "reading"} : ~On(op, at)
  BY <1>1 DEF On
<1>4. ~sacd_dev_input_open /\ ~sacd_dev_input_close /\ ~sacd_dev_input_total_sectors
  BY <1>3 DEF sacd_dev_input_open, sacd_dev_input_close, sacd_dev_input_total_sectors, Ops
<1>5. ~sacd_dev_input_read /\ ~ReadPiece /\ ~ReadReturns
  BY <1>3 DEF sacd_dev_input_read, ReadPiece, ReadReturns, Ops
<1> QED
  BY <1>2, <1>4, <1>5 DEF InputStep

(* A step of the program that asks for nothing, and one that asks.              *)
LEMMA GoesOnAlone ==
    ASSUME IInv, UNCHANGED <<call, ret, buffer, netVars, fileSize, pieces>>,
           Idle \/ pc' \in Waits, disc' = disc, HasTables(book')
    PROVE  IInv'
<1>1. InputInv'
  BY Quiet DEF IInv
<1>2. BookInv'
  BY DEF IInv, BookInv, Idle
<1> QED
  BY <1>1, <1>2 DEF IInv

LEMMA Waiting ==
    ASSUME IInv, pc \notin Waits
    PROVE  Idle
BY DEF IInv, BookInv

LEMMA AsksAndWaits ==
    ASSUME IInv, Idle, NEW op \in Ops, NEW net, NEW pos \in Nat, NEW n \in Nat, NEW then \in Waits,
           net \in BOOLEAN, Ask(op, net, pos, n, then),
           UNCHANGED <<netVars, fileSize, pieces, disc>>, HasTables(book'),
           IF op = "read" THEN buffer' = [i \in 1 .. 2 * n |-> Junk] ELSE buffer' = buffer
    PROVE  IInv'
<1>1. InputInv'
  BY Asks DEF IInv, Ask
<1>2. BookInv'
  BY DEF IInv, BookInv, Ask
<1> QED
  BY <1>1, <1>2 DEF IInv

LEMMA Opens ==
    ASSUME IInv, Idle, NEW path, OpenImage(path), UNCHANGED <<buffer, netVars, fileSize, pieces, disc, book>>
    PROVE  IInv'
<1>1. sacd_input_setup(path) \in BOOLEAN
  BY DEF sacd_input_setup
<1>2. Ask("open", sacd_input_setup(path), 0, 0, "opening")
  BY DEF OpenImage
<1>3. "open" \in Ops /\ "opening" \in Waits /\ 0 \in Nat /\ "open" # "read"
  BY DEF Ops, Waits
<1>4. HasTables(book')
  BY DEF IInv, BookInv
<1> QED
  BY <1>1, <1>2, <1>3, <1>4, AsksAndWaits

LEMMA Closes ==
    ASSUME IInv, Idle, NEW then \in Waits, Ask("close", Net, 0, 0, then),
           UNCHANGED <<buffer, netVars, fileSize, pieces, disc, book>>
    PROVE  IInv'
<1>1. Net \in BOOLEAN
  BY DEF Net, sacd_input_setup
<1>2. "close" \in Ops /\ 0 \in Nat /\ "close" # "read"
  BY DEF Ops
<1>3. HasTables(book')
  BY DEF IInv, BookInv
<1> QED
  BY <1>1, <1>2, <1>3, AsksAndWaits

LEMMA ReaderSteps ==
    ASSUME IInv, ReaderStep, UNCHANGED bookVars
    PROVE  IInv'
<1>1. disc' = disc /\ book' = book /\ HasTables(book')
  BY DEF bookVars, IInv, BookInv
<1>2. CASE sacd_open
  <2>1. Idle /\ UNCHANGED <<buffer, netVars, fileSize, pieces>>
    BY <1>2 DEF sacd_open
  <2>2. CASE OpenImage(location)
    BY <1>1, <2>1, <2>2, Opens
  <2>3. CASE UNCHANGED <<call, ret, location>>
    BY <1>1, <2>1, <2>3, GoesOnAlone
  <2> QED BY <1>2, <2>2, <2>3 DEF sacd_open, Fails
<1>3. CASE ResolveDirectory
  <2>1. Idle
    BY <1>3, Waiting DEF ResolveDirectory, Waits
  <2>2. UNCHANGED <<call, ret, buffer, netVars, fileSize, pieces>>
    BY <1>3 DEF ResolveDirectory, Fails
  <2> QED BY <1>1, <2>1, <2>2, GoesOnAlone
<1>4. CASE LookUpMount
  <2>1. Idle
    BY <1>4, Waiting DEF LookUpMount, Waits
  <2>2. UNCHANGED <<buffer, netVars, fileSize, pieces>>
    BY <1>4 DEF LookUpMount, unlessOpening
  <2>3. CASE Fails
    BY <1>1, <2>1, <2>2, <2>3, GoesOnAlone DEF Fails
  <2>4. CASE OpenImage([stat |-> "block", dots |-> 0, colon |-> FALSE, mounted |-> FALSE])
    BY <1>1, <2>1, <2>2, <2>4, Opens
  <2> QED BY <1>4, <2>3, <2>4 DEF LookUpMount
<1>5. CASE sacd_open_image_file
  <2>1. Idle /\ UNCHANGED <<buffer, netVars, fileSize, pieces>>
    BY <1>5 DEF sacd_open_image_file
  <2>2. CASE UNCHANGED <<call, ret>>
    BY <1>1, <2>1, <2>2, GoesOnAlone
  <2>3. CASE Ask("close", Net, 0, 0, "end")
    <3>1. "end" \in Waits
      BY DEF Waits
    <3> QED BY <1>1, <2>1, <2>3, <3>1, Closes
  <2> QED BY <1>5, <2>2, <2>3 DEF sacd_open_image_file, Fails
<1>6. CASE sacd_close
  <2>1. Idle
    BY <1>6, Waiting DEF sacd_close, Waits
  <2>2. "free reader" \in Waits
    BY DEF Waits
  <2>3. Ask("close", Net, 0, 0, "free reader") /\ UNCHANGED <<buffer, netVars, fileSize, pieces>>
    BY <1>6 DEF sacd_close, unlessOpening
  <2> QED BY <1>1, <2>1, <2>2, <2>3, Closes
<1>7. CASE FreeReader
  BY <1>1, <1>7, GoesOnAlone DEF FreeReader, unlessOpening
<1> QED
  BY <1>2, <1>3, <1>4, <1>5, <1>6, <1>7 DEF ReaderStep

(* Reads and sizes.                                                             *)
LEMMA ReadsBlocks ==
    ASSUME IInv, Idle, NEW pos \in Nat, NEW n \in Nat, NEW then \in Waits,
           sacd_read_block_raw(pos, n, then),
           UNCHANGED <<netVars, fileSize, pieces, disc>>, HasTables(book')
    PROVE  IInv'
<1>1. Net \in BOOLEAN /\ "read" \in Ops
  BY DEF Net, sacd_input_setup, Ops
<1>2. Ask("read", Net, pos, n, then) /\ buffer' = [i \in 1 .. 2 * n |-> Junk]
  BY DEF sacd_read_block_raw
<1> QED
  BY <1>1, <1>2, AsksAndWaits

(* A sector of the buffer is one of the disc's or not known.                    *)
LEMMA ContentIs ==
    ASSUME NEW i, Content(i) # Unread
    PROVE  \E j \in 1 .. Sectors : Content(i) = disc.sectors[j]
<1> DEFINE halves == SubSeq(buffer, 2 * i + 1, 2 * i + 2)
<1>1. Content(i) = ContentOf(halves) /\ ContentOf(halves) # Unread
  BY DEF Content
<1>2. PICK s \in 0 .. Sectors - 1 : halves = Sector(s)
  BY <1>1 DEF ContentOf
<1>3. ContentOf(halves) = disc.sectors[halves[1] \div 2 + 1]
  BY <1>2 DEF ContentOf
<1>4. halves[1] = 2 * s
  <2> HIDE DEF halves
  <2>1. halves = <<2 * s, 2 * s + 1>>
    BY <1>2 DEF Sector
  <2> QED BY <2>1
<1>5. (2 * s) \div 2 + 1 = s + 1 /\ s + 1 \in 1 .. Sectors
  BY NetAssumption
<1> QED
  BY <1>1, <1>3, <1>4, <1>5

LEMMA MasterTables ==
    ASSUME disc \in Discs, NEW i, Content(i).id = "SACDMTOC"
    PROVE  {Content(i).starts, Content(i).sizes} \subseteq [1 .. 2 -> Nat]
<1>1. Content(i) # Unread
  BY DEF Unread
<1>2. PICK j \in 1 .. Sectors : Content(i) = disc.sectors[j]
  BY <1>1, ContentIs
<1>3. j \in DOMAIN disc.sectors
  BY BookAssumption
<1> QED
  BY <1>2, <1>3, BookAssumption

LEMMA NewTables == HasTables(NewBook)
<1>1. <<0, 0>> \in [1 .. 2 -> Nat]
  OBVIOUS
<1> QED
  BY <1>1 DEF NewBook, HasTables

LEMMA BookSteps ==
    ASSUME IInv, BookStep
    PROVE  IInv'
<1>1. HasTables(book) /\ disc \in Discs
  BY DEF IInv, BookInv
<1>2. CASE scarletbook_open
  <2>1. Idle
    BY <1>2, Waiting DEF scarletbook_open, Waits
  <2>2. UNCHANGED <<netVars, fileSize, pieces, disc>>
    BY <1>2 DEF scarletbook_open
  <2>3. CASE UNCHANGED <<call, ret, buffer, book>>
    BY <1>1, <2>1, <2>2, <2>3, GoesOnAlone
  <2>4. CASE book' = NewBook /\ sacd_read_block_raw(START_OF_MASTER_TOC, MASTER_TOC_LEN, "master")
    <3>1. START_OF_MASTER_TOC \in Nat /\ MASTER_TOC_LEN \in Nat /\ "master" \in Waits
      BY BookAssumption DEF MASTER_TOC_LEN, Waits
    <3>2. HasTables(book')
      BY <2>4, NewTables
    <3> QED BY <2>1, <2>2, <2>4, <3>1, <3>2, ReadsBlocks
  <2> QED BY <1>2, <2>3, <2>4 DEF scarletbook_open
<1>3. CASE scarletbook_read_master_toc
  <2>1. Idle /\ UNCHANGED <<call, ret, buffer, netVars, fileSize, pieces, disc>>
    BY <1>3 DEF scarletbook_read_master_toc, unlessBook
  <2>2. HasTables(book')
    <3>1. CASE book' = NewBook
      BY <3>1, NewTables
    <3>2. CASE MasterTocValid /\ book' = [book EXCEPT !.texts = MasterTexts, !.starts = Content(0).starts,
                                                     !.sizes = Content(0).sizes]
      <4>1. {Content(0).starts, Content(0).sizes} \subseteq [1 .. 2 -> Nat]
        BY <1>1, <3>2, MasterTables DEF MasterTocValid
      <4> QED BY <1>1, <3>2, <4>1 DEF HasTables
    <3> QED BY <1>3, <3>1, <3>2 DEF scarletbook_read_master_toc
  <2> QED BY <2>1, <2>2, GoesOnAlone
<1>4. CASE scarletbook_close
  <2>1. Idle /\ UNCHANGED <<call, ret, buffer, netVars, fileSize, pieces, disc>> /\ book' = NewBook
    BY <1>4 DEF scarletbook_close, CloseBook, unlessBook
  <2> QED BY <2>1, NewTables, GoesOnAlone
<1>5. CASE Rip
  <2>1. Idle /\ UNCHANGED <<netVars, fileSize, pieces, disc, book>>
    BY <1>5 DEF Rip
  <2>2. "ready" \in Waits /\ HasTables(book')
    BY <1>1, <2>1 DEF Waits
  <2>3. CASE \E pos \in RipSectors, n \in 1 .. 2 : sacd_read_block_raw(pos, n, "ready")
    <3>1. PICK pos \in RipSectors, n \in 1 .. 2 : sacd_read_block_raw(pos, n, "ready")
      BY <2>3
    <3>2. pos \in Nat /\ n \in Nat
      BY BookAssumption
    <3> QED BY <2>1, <2>2, <3>1, <3>2, ReadsBlocks
  <2>4. CASE sacd_get_total_sectors("ready")
    <3>1. Ask("total", Net, 0, 0, "ready") /\ buffer' = buffer
      BY <2>4 DEF sacd_get_total_sectors
    <3>2. Net \in BOOLEAN /\ "total" \in Ops /\ "total" # "read" /\ 0 \in Nat
      BY DEF Net, sacd_input_setup, Ops
    <3> QED BY <2>1, <2>2, <3>1, <3>2, AsksAndWaits
  <2> QED BY <1>5, <2>3, <2>4 DEF Rip
<1>6. ASSUME NEW k \in 1 .. 2, StartArea(k)
      PROVE  IInv'
  <2>1. Idle /\ UNCHANGED <<netVars, fileSize, pieces, disc>>
    BY <1>6 DEF StartArea
  <2>2. CASE UNCHANGED <<call, ret, buffer, book>>
    BY <1>1, <2>1, <2>2, GoesOnAlone
  <2>3. CASE CloseBook /\ UNCHANGED <<call, ret, buffer>>
    <3>1. book' = NewBook
      BY <2>3 DEF CloseBook
    <3> QED BY <2>1, <2>3, <3>1, NewTables, GoesOnAlone
  <2>4. CASE /\ book' = [book EXCEPT !.area[book.area_count].data = k]
             /\ sacd_read_block_raw(book.starts[k], book.sizes[k], ReadPc(k))
    <3>1. HasTables(book')
      BY <1>1, <2>4 DEF HasTables
    <3>2. book.starts[k] \in Nat /\ book.sizes[k] \in Nat
      BY <1>1 DEF HasTables
    <3>3. ReadPc(k) \in Waits
      BY DEF ReadPc, Waits
    <3> QED BY <2>1, <2>4, <3>1, <3>2, <3>3, ReadsBlocks
  <2> QED BY <1>6, <2>2, <2>3, <2>4 DEF StartArea
<1>7. ASSUME NEW k \in 1 .. 2, ReadArea(k)
      PROVE  IInv'
  <2>1. Idle /\ UNCHANGED <<call, ret, buffer, netVars, fileSize, pieces, disc>>
    BY <1>7 DEF ReadArea, unlessBook
  <2>2. HasTables(book')
    <3>1. CASE book' = [book EXCEPT !.starts[k] = 0]
      BY <1>1, <3>1 DEF HasTables
    <3>2. CASE book' = ReadAreaToc(k, book.area_count, Content(0))
      BY <1>1, <3>2 DEF HasTables, ReadAreaToc
    <3> QED BY <1>7, <3>1, <3>2 DEF ReadArea
  <2> QED BY <2>1, <2>2, GoesOnAlone
<1>8. ASSUME NEW k \in 1 .. 2, ReadBlock(k)
      PROVE  IInv'
  <2>1. Idle
    BY <1>8, Waiting DEF ReadBlock, BlocksPc, Waits
  <2>2. UNCHANGED <<call, ret, buffer, netVars, fileSize, pieces, disc>>
    BY <1>8 DEF ReadBlock, unlessBook
  <2>3. HasTables(book')
    BY <1>1, <1>8 DEF HasTables, ReadBlock
  <2> QED BY <2>1, <2>2, <2>3, GoesOnAlone
<1> QED
  BY <1>2, <1>3, <1>4, <1>5, <1>6, <1>7, <1>8 DEF BookStep
-------------------------------------------------------------------------------
LEMMA Initial ==
    ASSUME Init
    PROVE  IInv
<1>1. Idle /\ call = NoCall /\ NoCall.op = "none" /\ NoCall.at = "" /\ ~NoCall.net
  BY DEF Init, InputInit, NoCall, Idle
<1>2. CallInv
  BY <1>1 DEF CallInv
<1>3. BufferInv
  <2>1. buffer = <<>>
    BY DEF Init, InputInit
  <2>2. buffer \in Seq(Int) /\ Len(buffer) = 0
    BY <2>1
  <2>3. buffer \in [1 .. Len(buffer) -> Int]
    BY <2>2, LenProperties
  <2>4. buffer = [i \in DOMAIN buffer |-> buffer[i]]
    BY <2>3
  <2> QED BY <1>1, <2>4 DEF BufferInv
<1>4. FileInv
  BY <1>1, FileAssumption DEF FileInv, Init
<1>5. StreamInv
  BY <1>1 DEF StreamInv, Decoding, Init, InputInit
<1>6. ReturnInv /\ SectorsDelivered
  BY NetAssumption DEF ReturnInv, SectorsDelivered, Init, InputInit
<1>7. BookInv
  BY <1>1, NewTables DEF BookInv, Init
<1> QED
  BY <1>2, <1>3, <1>4, <1>5, <1>6, <1>7 DEF IInv, InputInv

LEMMA Steps ==
    ASSUME IInv, [Next]_vars
    PROVE  IInv'
<1>1. ASSUME InputStep \/ ServerStep \/ Break, UNCHANGED <<readerVars, bookVars>>
      PROVE  IInv'
  <2>1. InputInv'
    BY <1>1, InputSteps DEF IInv
  <2>2. Idle => Idle'
    <3>1. CASE InputStep
      BY <3>1, NothingWhenIdle DEF IInv
    <3>2. CASE ServerStep \/ Break
      BY <3>2 DEF ServerStep, ServerAnswers, ServerSends, Break, ConnectionBreaks, Idle
    <3> QED BY <1>1, <3>1, <3>2
  <2>3. BookInv'
    BY <1>1, <2>2 DEF IInv, BookInv, readerVars, bookVars
  <2> QED BY <2>1, <2>3 DEF IInv
<1>2. CASE UNCHANGED vars
  <2>1. /\ UNCHANGED <<call, ret, buffer, netVars, fileSize, pieces>>
        /\ pc' = pc /\ disc' = disc /\ book' = book
    BY <1>2 DEF vars, inputVars, readerVars, bookVars
  <2>2. HasTables(book')
    BY <2>1 DEF IInv, BookInv
  <2>3. Idle \/ pc' \in Waits
    BY <2>1 DEF IInv, BookInv
  <2> QED BY <2>1, <2>2, <2>3, GoesOnAlone
<1> QED
  BY <1>1, <1>2, ReaderSteps, BookSteps DEF Next, Program, Server

(* The program, its input and the server keep the invariant.                    *)
THEOREM InputInvariance == Spec => []IInv
<1>1. Init => IInv
  BY Initial
<1>2. IInv /\ [Next]_vars => IInv'
  BY Steps
<1> QED
  BY <1>1, <1>2, PTL DEF Spec

(* What a read returns as delivered lies in its place of the buffer, whole:     *)
(* sacd_dev_input_read and sacd_net_input_read with the decoder of               *)
(* sacd_pb_stream.c under them.                                                 *)
THEOREM Delivered == Spec => []SectorsDelivered
<1>1. IInv => SectorsDelivered
  BY DEF IInv, InputInv
<1> QED
  BY <1>1, InputInvariance, PTL
=============================================================================
