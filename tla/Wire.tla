-------------------------------- MODULE Wire --------------------------------
(***************************************************************************)
(* What becomes of the bytes of a message between two programs, and of an  *)
(* RPC event in it: the macros send_zc_frame! and send_frame! of           *)
(* src/ipc.rs, the parsing in handle_reader and the layout in              *)
(* handle_writer of src/broker.rs, handle_read of src/ipc.rs, and          *)
(* RpcEvent::try_from of src/rpc/mod.rs.                                   *)
(*                                                                         *)
(* Each end is a client of another process ("ipc") or one of the broker's  *)
(* own ("internal"): a frame is parsed and laid out anew at every          *)
(* socket, and keeps its zero-copy header only when there is none.         *)
(***************************************************************************)
EXTENDS Integers, Sequences, SequencesExt

CONSTANTS
  SENDER, TARGET, RECEIVER,       \* the sender's name, the target or topic, a receiver
  RpcId, RpcCode, Method,         \* ids, error codes and methods of events
  Data,                           \* data of events and of publications
  Raw,                            \* payloads of messages that are not RPC
  Nil                             \* no header, no topic, no event

Byte == 0..255
Text == Seq(Byte \ {0})

\* Names and methods hold no zero byte; data may.  An id is an u32, a code an
\* i16.
ASSUME WireAssumption ==
  /\ SENDER \in Text /\ TARGET \in Text /\ RECEIVER \in Text
  /\ Method \subseteq Text /\ Data \subseteq Seq(Byte) /\ Raw \subseteq Seq(Byte)
  /\ \A x \in RpcId : x \in Nat /\ x \div 16777216 \in Byte
  /\ \A x \in RpcCode : x \in Int /\ -32768 <= x /\ x <= 32767
  /\ Nil \notin Seq(Byte)

VARIABLES
  msg,     \* what the program asks for: operation, zero-copy header, payload
  sent,    \* the RPC event in it, if there is one
  from,    \* the kind of the sender
  to,      \* the kind of the receiver
  stage,   \* how far the message has come
  stream,  \* a frame on a socket: the length it states and its bytes
  fdata,   \* FrameData
  event    \* RpcEvent, or what try_from has returned

wireVars == <<msg, sent, from, to, stage, stream, fdata, event>>

-----------------------------------------------------------------------------
(* Bytes *)

\* to_le_bytes and from_le_bytes, of u32 and of i16.
IdBytes(x) == <<x % 256, (x \div 256) % 256, (x \div 65536) % 256, (x \div 16777216) % 256>>
CodeBytes(x) == <<x % 256, (x \div 256) % 256>>
IdOf(b) == b[1] + 256 * b[2] + 65536 * b[3] + 16777216 * b[4]
CodeOf(b) == LET v == b[1] + 256 * b[2] IN IF v < 32768 THEN v ELSE v - 65536

\* The slice s[a..b] and s[a..] of Rust.
Slice(s, a, b) == SubSeq(s, a + 1, b)
From(s, a) == SubSeq(s, a + 1, Len(s))

\* The length of what precedes the first zero byte; -1 without one.
Cut(s) == SelectInSeq(s, LAMBDA c : c = 0) - 1

-----------------------------------------------------------------------------
(* RPC events and messages *)

Event ==
  [kind: {"Notification"}, id: {0}, method: {<<>>}, code: {0}, data: Data]
    \cup [kind: {"Request"}, id: RpcId \cup {0}, method: Method, code: {0}, data: Data]
    \cup [kind: {"Reply"}, id: RpcId, method: {<<>>}, code: {0}, data: Data]
    \cup [kind: {"ErrorReply"}, id: RpcId, method: {<<>>}, code: RpcCode, data: Data]

\* The header that notify, call0, call (prepare_call_payload) and send_reply!
\* put before the data.
HeaderOf(e) ==
  CASE e.kind = "Notification" -> <<0>>
    [] e.kind = "Request"      -> <<1>> \o IdBytes(e.id) \o e.method \o <<0>>
    [] e.kind = "Reply"        -> <<17>> \o IdBytes(e.id)
    [] e.kind = "ErrorReply"   -> <<18>> \o IdBytes(e.id) \o CodeBytes(e.code)

Plain ==
  [op: {"send"}, header: {Nil}, payload: Raw]
    \cup [op: {"publish", "publish_for"}, header: {Nil}, payload: Data]
ZcSend(e) == [op |-> "send", header |-> HeaderOf(e), payload |-> e.data]

OrNothing(h) == IF h = Nil THEN <<>> ELSE h
TopicOf(m) == IF m.op = "send" THEN Nil ELSE TARGET

NoFrame == [sender |-> Nil, topic |-> Nil, header |-> Nil, buf |-> <<>>, payload_pos |-> 0]
NoStream == [len |-> 0, bytes |-> <<>>]
Invalid == [kind |-> "Invalid", payload_pos |-> 0, use_header |-> FALSE]

WireInit ==
  /\ \/ sent = Nil /\ msg \in Plain
     \/ sent \in Event /\ msg = ZcSend(sent)
  /\ from \in {"ipc", "internal"} /\ to \in {"ipc", "internal"}
  /\ stage = "asked"
  /\ stream = NoStream /\ fdata = NoFrame /\ event = Nil

-----------------------------------------------------------------------------
(* The way of a message *)

\* An in-process client makes the frame itself.
SendInternal ==
  /\ stage = "asked" /\ from = "internal"
  /\ fdata' = [sender |-> SENDER, topic |-> TopicOf(msg), header |-> msg.header,
               buf |-> msg.payload, payload_pos |-> 0]
  /\ stage' = "routed"
  /\ UNCHANGED <<msg, sent, from, to, stream, event>>

\* send_frame!, send_zc_frame!: the length is a sum of its own.
SendIpc ==
  LET h == OrNothing(msg.header)
      r == IF msg.op = "publish_for" THEN RECEIVER \o <<0>> ELSE <<>>
  IN
  /\ stage = "asked" /\ from = "ipc"
  /\ stream' = [len   |-> Len(TARGET) + Len(r) + Len(msg.payload) + Len(h) + 1,
                bytes |-> TARGET \o <<0>> \o r \o h \o msg.payload]
  /\ stage' = "sent"
  /\ UNCHANGED <<msg, sent, from, to, fdata, event>>

\* handle_reader: as many bytes as the header of the frame says, the name up
\* to the first zero byte, the receiver up to the next.
BrokerRead ==
  LET buf == SubSeq(stream.bytes, 1, stream.len)
      tgt == Cut(buf)
      recv == IF msg.op = "publish_for" THEN Cut(From(buf, tgt + 1)) + 1 ELSE 0
  IN
  /\ stage = "sent"
  /\ fdata' = [sender |-> SENDER,
               topic |-> IF msg.op = "send" THEN Nil ELSE Slice(buf, 0, tgt),
               header |-> Nil, buf |-> buf, payload_pos |-> tgt + 1 + recv]
  /\ stage' = "routed" /\ stream' = NoStream
  /\ UNCHANGED <<msg, sent, from, to, event>>

Payload(f) == From(f.buf, f.payload_pos)

\* handle_writer.
BrokerWrite ==
  LET t == IF fdata.topic = Nil THEN <<>> ELSE fdata.topic \o <<0>>
      h == OrNothing(fdata.header)
  IN
  /\ stage = "routed" /\ to = "ipc"
  /\ stream' = [len   |-> Len(fdata.sender) + 1 + Len(t) + Len(h)
                            + Len(fdata.buf) - fdata.payload_pos,
                bytes |-> fdata.sender \o <<0>> \o t \o h \o Payload(fdata)]
  /\ stage' = "written" /\ fdata' = NoFrame
  /\ UNCHANGED <<msg, sent, from, to, event>>

\* handle_read.
ClientRead ==
  LET buf == SubSeq(stream.bytes, 1, stream.len)
      s == Cut(buf)
      t == IF msg.op = "send" THEN -1 ELSE Cut(From(buf, s + 1))
  IN
  /\ stage = "written"
  /\ fdata' = [sender |-> Slice(buf, 0, s),
               topic |-> IF msg.op = "send" THEN Nil ELSE Slice(buf, s + 1, s + 1 + t),
               header |-> Nil, buf |-> buf, payload_pos |-> s + t + 2]
  /\ stage' = "arrived" /\ stream' = NoStream
  /\ UNCHANGED <<msg, sent, from, to, event>>

\* The queue of an in-process client.
RecvInternal ==
  /\ stage = "routed" /\ to = "internal"
  /\ stage' = "arrived"
  /\ UNCHANGED <<msg, sent, from, to, stream, fdata, event>>

-----------------------------------------------------------------------------
(* RpcEvent *)

Body(f) == IF f.header # Nil THEN f.header ELSE Payload(f)
Parsed(k, p, u) == [kind |-> k, payload_pos |-> p, use_header |-> u]

\* The header comes apart, or in front of the data.
ParsedAt(k, f, p) == IF f.header # Nil THEN Parsed(k, 0, TRUE) ELSE Parsed(k, p, FALSE)

\* mutant: the separator behind the method is not counted.
TryRequestOpen(f) ==
  LET body == Body(f)
      method == Cut(From(body, 5))
  IN IF Len(body) < 6 \/ (f.header = Nil /\ method < 0)
     THEN Invalid ELSE ParsedAt("Request", f, 5 + method)

\* A request without a header has its method up to a zero byte.
TryRequest(f) ==
  LET body == Body(f)
      method == Cut(From(body, 5))
  IN IF Len(body) < 6 \/ (f.header = Nil /\ method < 0)
     THEN Invalid ELSE ParsedAt("Request", f, 6 + method)

\* mutant: an error reply has the length of a reply.
TryReplyShort(f, k, len) == IF Len(Body(f)) < 5 THEN Invalid ELSE ParsedAt(k, f, len)
TryReply(f, k, len) == IF Len(Body(f)) < len THEN Invalid ELSE ParsedAt(k, f, len)

TryFrom(f) ==
  LET body == Body(f) IN
  IF body = <<>> THEN Invalid
  ELSE CASE body[1] = 0   -> Parsed("Notification", IF f.header # Nil THEN 0 ELSE 1, FALSE)
         [] body[1] = 1   -> TryRequest(f)
         [] body[1] = 17  -> TryReply(f, "Reply", 5)
         [] body[1] = 18  -> TryReply(f, "ErrorReply", 7)
         [] OTHER         -> Invalid

\* The processor parses messages; other frames go to handle_frame.
Parse ==
  /\ stage = "arrived" /\ msg.op = "send"
  /\ event' = TryFrom(fdata) /\ stage' = "parsed"
  /\ UNCHANGED <<msg, sent, from, to, stream, fdata>>

\* The accessors of an event, and how far into the bytes they reach.
EventBytes == IF event.use_header THEN fdata.header ELSE Payload(fdata)
MethodEnd == (IF event.use_header THEN Len(fdata.header) ELSE event.payload_pos) - 1
EventSeen ==
  [kind   |-> event.kind,
   id     |-> IF event.kind = "Notification" THEN 0 ELSE IdOf(Slice(EventBytes, 1, 5)),
   method |-> IF event.kind = "Request" THEN Slice(EventBytes, 5, MethodEnd) ELSE <<>>,
   code   |-> IF event.kind = "ErrorReply" THEN CodeOf(Slice(EventBytes, 5, 7)) ELSE 0,
   data   |-> From(Payload(fdata), event.payload_pos)]

-----------------------------------------------------------------------------

WireNext ==
  \/ SendInternal \/ SendIpc \/ BrokerRead \/ BrokerWrite \/ ClientRead
  \/ RecvInternal \/ Parse

WireSpec == WireInit /\ [][WireNext]_wireVars

-----------------------------------------------------------------------------
(* Properties *)

WireTypeOK ==
  /\ msg \in Plain \cup {ZcSend(e) : e \in Event}
  /\ stage \in {"asked", "sent", "routed", "written", "arrived", "parsed"}
  /\ from \in {"ipc", "internal"} /\ to \in {"ipc", "internal"}
  /\ stream.len \in Nat /\ fdata.payload_pos \in 0..Len(fdata.buf)

\* Whatever sockets a message crosses, and whatever bytes it holds, the
\* receiver sees the sender, the topic and the payload that were sent, with
\* the zero-copy header in front (the lengths and positions in send_frame!,
\* handle_reader, handle_writer, handle_read).  An RPC event in it is parsed
\* as the one that was sent, id, method, error code and data, with the header
\* apart as well as in front (prepare_call_payload, send_reply!, try_from).
MessageArrives ==
  /\ stage \in {"arrived", "parsed"} =>
       /\ fdata.sender = SENDER /\ fdata.topic = TopicOf(msg)
       /\ OrNothing(fdata.header) \o Payload(fdata) = OrNothing(msg.header) \o msg.payload
  /\ stage = "parsed" /\ sent # Nil => EventSeen = sent

\* Any message that try_from accepts can be read by the accessors which the
\* RPC layer itself uses on an event of its kind: id on what is not a
\* notification, method on a request, code, payload (RpcEvent).
AccessorsInRange ==
  stage = "parsed" /\ event.kind # "Invalid" =>
    /\ event.payload_pos <= Len(Payload(fdata))
    /\ event.kind # "Notification" => Len(EventBytes) >= 5
    /\ event.kind = "Request" => MethodEnd \in 5..Len(EventBytes)
    /\ event.kind = "ErrorReply" => Len(EventBytes) >= 7

\* RpcEvent::id and method do not panic, as their documentation says,
\* whatever the kind of the event: the slices they take are within the bytes
\* of any event that try_from returns.  They are public, and a handler of
\* notifications or a caller with a reply in its hands may use them.
AccessorsDoNotPanic ==
  stage = "parsed" /\ event.kind # "Invalid" =>
    Len(EventBytes) >= 5 /\ MethodEnd \in 5..Len(EventBytes)
=============================================================================
