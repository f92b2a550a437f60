------------------------------- MODULE NetInput -------------------------------
(* A disc read over the network (sacd_input.c, usocket.c,                     *)
(* sacd_pb_stream.c).  Every operation sends one request and decodes one      *)
(* answer from the same stream of bytes; requests carry no number, so what is *)
(* left of one answer is read as the start of the next.                       *)
(*                                                                            *)
(* The other end is external: it answers the requests it has received whole,  *)
(* in order, a unit at a time, and the connection may break between any two   *)
(* units.  A newer one may add a field to an answer.                          *)
(*                                                                            *)
(* An operation is a call: the caller sets call, the input takes its steps    *)
(* and sets ret.  heap and fds hold what is allocated and open.               *)
EXTENDS PbMessage, FiniteSets

CONSTANTS Sectors,    \* the number of sectors of the disc
          NewFields   \* what a newer server adds: wire types of fields 4 and up

ASSUME NetAssumption ==
  /\ Sectors \in Nat
  /\ NewFields \subseteq {PB_WT_VARINT, PB_WT_64BIT, PB_WT_STRING, PB_WT_32BIT}

VARIABLES call, ret, buffer, heap, fds,
          sock,        \* "zero" is what calloc leaves in the structure
          up, toServer, toClient, owed,
          decoder,
          inStep,      \* no answer has been left half read, or been taken for another one
          outOfMemory  \* an allocation has failed

netVars == <<sock, up, toServer, toClient, owed, decoder, inStep>>

\* A sector in memory: its two halves, each named by where it lies on the disc.
Sector(s) == <<2 * s, 2 * s + 1>>
SectorsFrom(pos, n) == [i \in 1..(2 * n) |-> 2 * pos + i - 1]
Junk == -1

\* What is read goes to the start of the buffer.
Overlay(data, buf) == [i \in DOMAIN buf |-> IF i <= Len(data) THEN data[i] ELSE buf[i]]

Block(kind, n, name) == <<kind, n, name>>
Dev == Block("dev", 0, "")
InputBuffer == Block("input_buffer", 0, "")

NoCall == [op |-> "none", at |-> "", net |-> FALSE, pos |-> 0, n |-> 0, left |-> 0, failed |-> FALSE]
Call(op, net, pos, n) ==
  [NoCall EXCEPT !.op = op, !.at = "start", !.net = net, !.pos = pos, !.n = n]
Idle == call.op = "none"

\* v is the value returned; ok is a pointer that is not null.
Return(ok, v) ==
  /\ ret' = [op |-> call.op, pos |-> call.pos, n |-> call.n, ok |-> ok, v |-> v]
  /\ call' = NoCall

At(op, where) == call.net /\ call.op = op /\ call.at = where
GoTo(where) == call' = [call EXCEPT !.at = where] /\ UNCHANGED ret

------------------------------------------------------------------------------
(* Sockets.                                                                   *)

\* How long to go on waiting: for ever when no limit is set.
timeout_getretry(block, total) ==
  IF block < 0 /\ total < 0 THEN {"for ever"}
  ELSE IF block < 0 THEN {"what is left of total"}
  ELSE IF total < 0 THEN {"what is left of block"}
  ELSE {"block", "what is left of total"}

\* Not waiting at all is the answer to a block of zero.  An interrupted wait is
\* taken up again; only a limited one runs out.
socket_waitfd(block, total) ==
  IF block = 0 THEN {"timeout"}
  ELSE {"done", "closed", "error"}
         \cup (IF timeout_getretry(block, total) = {"for ever"} THEN {} ELSE {"timeout"})

\* connect is called again while it is interrupted.  When it cannot finish at once
\* the answer is waited for; a readable socket is then asked whether it is closed.
socket_connect(ps, block, total) ==
  IF ps = "invalid" THEN {"closed"}
  ELSE {"done", "error"}
         \cup (IF block = 0 THEN {"timeout"}
               ELSE UNION {IF r = "closed" THEN {"done", "error"} ELSE {r} :
                             r \in socket_waitfd(block, total)})

\* A name may also not be found.  Only the start of tm has been set.
inet_tryconnect(ps) ==
  {"error"} \cup UNION {socket_connect(ps, block, total) : block, total \in {-1, 0, 1}}

\* A send is refused on a socket that is not connected; after the other end has
\* gone it may still be taken.
socket_send == IF sock # "connected" THEN {"closed"} ELSE IF up THEN {"done"} ELSE {"done", "closed"}

\* The other end drops the connection; what has arrived may be lost with it.
ConnectionBreaks ==
  /\ up
  /\ up' = FALSE /\ owed' = <<>> /\ toServer' = <<>>
  /\ toClient' \in {toClient, <<>>}
  /\ UNCHANGED <<call, ret, buffer, heap, fds, sock, decoder, inStep, outOfMemory>>

------------------------------------------------------------------------------
(* The server.                                                                *)

Answers(type, pos, n) ==
  CASE type = ServerRequest_Type.DISC_OPEN ->
         {ServerResponse(ServerResponse_Type.DISC_OPENED, r, FALSE, <<>>) : r \in {0, -1}}
    [] type = ServerRequest_Type.DISC_CLOSE ->
         {ServerResponse(ServerResponse_Type.DISC_CLOSED, 0, FALSE, <<>>)}
    [] type = ServerRequest_Type.DISC_SIZE ->
         {ServerResponse(ServerResponse_Type.DISC_SIZE, Sectors, FALSE, <<>>)}
    [] type = ServerRequest_Type.DISC_READ ->
         LET k == IF pos + n <= Sectors THEN n ELSE IF pos < Sectors THEN Sectors - pos ELSE 0 IN
         {ServerResponse(ServerResponse_Type.DISC_READ, k, TRUE, SectorsFrom(pos, k)),
          ServerResponse(ServerResponse_Type.DISC_READ, -1, FALSE, <<>>)}

\* A field of a newer protocol, before or behind those the client knows.
NewField(wire_type) ==
  <<Tag(4, wire_type)>> \o (CASE wire_type = PB_WT_VARINT -> pb_enc_varint(1)
                              [] wire_type = PB_WT_STRING -> pb_enc_bytes(<<0>>)
                              [] OTHER -> <<Bytes(<<0>>)>>)

ServerAnswers ==
  /\ up /\ toServer # <<>> /\ Last(toServer) = EndOfMessage /\ owed = <<>>
  /\ \E a \in Answers(toServer[2].v, toServer[4].v, toServer[6].v) :
       LET known == pb_encode(ServerResponse_fields, a) IN
       owed' \in {known \o <<EndOfMessage>>}
                   \cup {NewField(w) \o known \o <<EndOfMessage>> : w \in NewFields}
                   \cup {known \o NewField(w) \o <<EndOfMessage>> : w \in NewFields}
  /\ toServer' = <<>>
  /\ UNCHANGED <<call, ret, buffer, heap, fds, sock, up, toClient, decoder, inStep, outOfMemory>>

\* The bound: one unit at a time is on its way.
ServerSends ==
  /\ up /\ owed # <<>> /\ toClient = <<>>
  /\ toClient' = <<Head(owed)>>
  /\ owed' = Tail(owed)
  /\ UNCHANGED <<call, ret, buffer, heap, fds, sock, up, toServer, decoder, inStep, outOfMemory>>

------------------------------------------------------------------------------
(* sacd_net_input_open, _close, _total_sectors and _read.                     *)

\* The error path of open goes through the whole of close.
CloseAfterError == call' = [call EXCEPT !.op = "close", !.at = "send", !.failed = TRUE] /\ UNCHANGED ret

sacd_net_input_open ==
  /\ At("open", "start")
  /\ UNCHANGED <<buffer, fds, up, toServer, toClient, owed, decoder, inStep>>
  /\ \/ Return(FALSE, 0) /\ outOfMemory' = TRUE /\ UNCHANGED <<heap, sock>>
     \/ /\ heap' = heap \cup {Dev} /\ sock' = "zero" /\ outOfMemory' = TRUE
        /\ CloseAfterError
     \/ /\ heap' = heap \cup {Dev, InputBuffer} /\ sock' = "zero"
        /\ GoTo("connect") /\ UNCHANGED outOfMemory

\* Whether a socket could be made is not looked at.
Connect ==
  /\ At("open", "connect")
  /\ UNCHANGED <<buffer, heap, toServer, toClient, owed, decoder, inStep, outOfMemory>>
  /\ \E ps \in {"invalid", "fresh"} :
       /\ fds' = IF ps = "invalid" THEN fds ELSE fds \cup {"socket"}
       /\ \E r \in inet_tryconnect(ps) :
            IF r = "done" THEN sock' = "connected" /\ up' = TRUE /\ GoTo("send")
                          ELSE sock' = ps /\ CloseAfterError /\ UNCHANGED up

RequestOf(c) ==
  CASE c.op = "open" -> ServerRequest(ServerRequest_Type.DISC_OPEN, 0, 0)
    [] c.op = "close" -> ServerRequest(ServerRequest_Type.DISC_CLOSE, 0, 0)
    [] c.op = "total" -> ServerRequest(ServerRequest_Type.DISC_SIZE, 0, 0)
    [] c.op = "read" -> ServerRequest(ServerRequest_Type.DISC_READ, c.pos, c.n)

\* The answer or the lack of one ends the operation.
Finish(ok, msg) ==
  CASE call.op = "open" ->
         IF ok /\ msg.result = 0 /\ msg.type = ServerResponse_Type.DISC_OPENED
         THEN Return(TRUE, 0)
         ELSE CloseAfterError
    [] call.op = "total" ->
         Return(TRUE, IF ok /\ msg.type = ServerResponse_Type.DISC_SIZE THEN msg.result ELSE 0)
    [] call.op = "read" ->
         Return(TRUE, IF ok /\ msg.type = ServerResponse_Type.DISC_READ /\ msg.has_data
                      THEN msg.result ELSE 0)
    [] call.op = "close" -> GoTo("destroy")

\* The request, its end included, is in the stream before the answer is waited
\* for; the zero byte's own failure is only noticed by the answer not coming.
SendRequest ==
  /\ call.net /\ call.at = "send"
  /\ UNCHANGED <<buffer, heap, fds, sock, up, toClient, owed, inStep, outOfMemory>>
  /\ \E r \in socket_send :
       IF r = "done"
       THEN /\ toServer' = IF up THEN toServer \o pb_encode(ServerRequest_fields, RequestOf(call))
                                               \o <<EndOfMessage>>
                                 ELSE toServer
            /\ decoder' = NewDecoder
            /\ GoTo("decode")
       ELSE Finish(FALSE, NewDecoder.msg) /\ UNCHANGED <<toServer, decoder>>

StartRequest ==
  /\ call.net /\ call.at = "start" /\ call.op # "open"
  /\ GoTo("send")
  /\ UNCHANGED <<buffer, heap, fds, outOfMemory, netVars>>

Decoding == call.net /\ call.at = "decode" /\ decoder.at \notin {"decoded", "failed"}

Arrived == Decoding /\ toClient # <<>>
InItsPlace == Head(toClient).unit = Expected(decoder)

\* Only a read has somewhere to put the bytes of data.
ForData == decoder.at = "bytes"
HasPlaceForData == call.op = "read"

\* One unit from the socket: the bytes of data go where the caller wants them.
ReadUnit ==
  /\ Arrived /\ InItsPlace /\ (ForData => HasPlaceForData)
  /\ decoder' = pb_decode(ServerResponse_fields, decoder, Head(toClient))
  /\ toClient' = Tail(toClient)
  /\ buffer' = IF decoder.at = "bytes" THEN Overlay(Head(toClient).b, buffer) ELSE buffer
  /\ inStep' = (inStep /\ decoder'.at # "failed")
  /\ UNCHANGED <<call, ret, heap, fds, sock, up, toServer, owed, outOfMemory>>

\* The data of an answer left over from a read, met by another operation: its
\* pointer has never been set.  It may still be that of the last read, point to
\* other memory (which is not in the model), be refused by recv, with the data left
\* where it is, or be null, and then the data is skipped.
ReadBytesAstray ==
  /\ Arrived /\ InItsPlace /\ ForData /\ ~HasPlaceForData
  /\ \/ /\ decoder' = pb_decode(ServerResponse_fields, decoder, Head(toClient))
        /\ toClient' = Tail(toClient)
        /\ buffer' \in {buffer, Overlay(Head(toClient).b, buffer)}
     \/ /\ decoder' = [decoder EXCEPT !.at = "failed"]
        /\ toClient' \in {toClient, Tail(toClient)}
        /\ UNCHANGED buffer
  /\ inStep' = FALSE
  /\ UNCHANGED <<call, ret, heap, fds, sock, up, toServer, owed, outOfMemory>>

\* Data that was left where it is, read as if it were a message: it fails somewhere
\* in it, or all of it passes for fields that are skipped.  The bound: the data is
\* never taken for a field that the client knows.
ReadAmiss ==
  /\ Arrived /\ ~InItsPlace
  /\ \/ /\ decoder' = [decoder EXCEPT !.at = "failed"]
        /\ toClient' \in {toClient, Tail(toClient)}
     \/ /\ decoder' = [decoder EXCEPT !.at = "tag"]
        /\ toClient' = Tail(toClient)
  /\ inStep' = FALSE
  /\ UNCHANGED <<call, ret, buffer, heap, fds, sock, up, toServer, owed, outOfMemory>>

\* recv says that the other end is gone.
ReadEof ==
  /\ Decoding /\ toClient = <<>> /\ ~up
  /\ \E last \in BOOLEAN : decoder' = DecodeAtEof(ServerResponse_fields, decoder, last)
  /\ UNCHANGED <<call, ret, buffer, heap, fds, sock, up, toServer, toClient, owed, inStep, outOfMemory>>

HaveAnswer ==
  /\ call.net /\ call.at = "decode" /\ decoder.at \in {"decoded", "failed"}
  /\ Finish(decoder.at = "decoded", decoder.msg)
  /\ decoder' = NewDecoder
  /\ UNCHANGED <<buffer, heap, fds, sock, up, toServer, toClient, owed, inStep, outOfMemory>>

\* Descriptor 0 is what an input that has no socket yet closes.
socket_destroy ==
  /\ At("close", "destroy")
  /\ fds' = CASE sock = "zero" -> fds \ {"stdin"}
              [] sock = "invalid" -> fds
              [] OTHER -> fds \ {"socket"}
  /\ sock' = "invalid" /\ up' = FALSE
  /\ toServer' = <<>> /\ toClient' = <<>> /\ owed' = <<>>
  /\ heap' = heap \ {Dev, InputBuffer}
  /\ Return(~call.failed, 0)
  /\ UNCHANGED <<buffer, decoder, inStep, outOfMemory>>

NetStep ==
  sacd_net_input_open \/ Connect \/ StartRequest \/ SendRequest \/ ReadUnit \/ ReadBytesAstray
    \/ ReadAmiss \/ ReadEof \/ HaveAnswer \/ socket_destroy
==============================================================================
