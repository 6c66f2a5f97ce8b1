----------------------------- MODULE IpcClient -----------------------------
(***************************************************************************)
(* The bus client of another process: ipc::Client of src/ipc.rs and its    *)
(* synchronous twin of src/sync/ipc.rs, connected to one broker.           *)
(*                                                                         *)
(* An element of Op is one use of a method that sends a frame, or of ping. *)
(* A frame is written in two parts, the header with the target and the     *)
(* payload; parts are what the stream to the broker consists of.  A        *)
(* payload may be written in part ("cut").  The broker takes the bytes     *)
(* that follow a header for its payload, whatever they are.                *)
(***************************************************************************)
EXTENDS Naturals, Sequences

CONSTANTS
  Modes,      \* which clients: synchronous (TRUE), asynchronous (FALSE)
  Op,         \* frames sent, and pings
  Ping,       \* the operations that are pings
  ack,        \* the operations whose QoS asks for an acknowledgement
  after,      \* the operations the program begins before an operation
  MaxId,      \* stands for u32::MAX
  QueueSize,  \* capacity of the event channel
  MaxEvents,  \* frames the broker has for the client
  Stalls,     \* a write may fail or time out
  MayCancel,  \* operations whose future may be dropped (asynchronous only)
  Breaks,     \* the broker may close the connection
  None        \* no operation

ASSUME OpAssumption ==
  /\ None \notin Op /\ Ping \subseteq Op /\ ack \subseteq Op \ Ping
  /\ MayCancel \subseteq Op /\ after \in [Op -> SUBSET Op]
ASSUME ModeAssumption == Modes \subseteq BOOLEAN /\ Stalls \in BOOLEAN /\ Breaks \in BOOLEAN
ASSUME BoundAssumption ==
  MaxId \in Nat \ {0} /\ QueueSize \in Nat \ {0} /\ MaxEvents \in Nat

VARIABLES
  sync,       \* whether this is the synchronous client; it never changes
  frame_id,   \* Client.frame_id
  responses,  \* Client.responses: the operation that waits for an ack
  connected,  \* Client.connected
  shut,       \* the socket was shut down by the client
  reader,     \* whether the reader runs
  events,     \* frames in the event channel
  pc,         \* where an operation is
  id,         \* its frame id
  answer,     \* the operation whose ack it has received, or None
  out,        \* parts on their way to the broker
  held,       \* they stay in the buffer of the writer: its flush was given up
  back,       \* acks and frames on their way to the client
  open,       \* the broker keeps the connection
  head,       \* the operation whose header the broker has read last, or None
  taken,      \* history: header and payload of the frames the broker accepted
  served,     \* how many frames for the client the broker has written
  order,      \* history: how many frames had been sent with it
  sent        \* history: how many frames have been sent

clientVars == <<sync, frame_id, responses, connected, shut, order, sent>>
readVars   == <<reader, events>>
opVars     == <<pc, id, answer>>
brokerVars == <<back, open, head, taken, served>>
vars == <<clientVars, readVars, opVars, brokerVars, out, held>>

-----------------------------------------------------------------------------

Ids == 1..MaxId
Part == {"head", "body", "cut", "ping"} \X Op
Reply == [kind: {"ack"}, id: Ids, of: Op]
           \cup [kind: {"event"}, id: {0}, of: {None}]

TypeOK ==
  /\ sync \in Modes
  /\ frame_id \in 0..MaxId
  /\ responses \in [Ids -> Op \cup {None}]
  /\ connected \in BOOLEAN /\ shut \in BOOLEAN /\ reader \in BOOLEAN
  /\ events \in 0..QueueSize
  /\ pc \in [Op -> {"idle", "head", "body", "confirm", "done"}]
  /\ id \in [Op -> 0..MaxId]
  /\ answer \in [Op -> Op \cup {None}]
  /\ out \in Seq(Part) /\ held \in BOOLEAN /\ back \in Seq(Reply)
  /\ open \in BOOLEAN /\ head \in Op \cup {None}
  /\ taken \subseteq Op \X Op
  /\ served \in 0..MaxEvents
  /\ order \in [Op -> Nat] /\ sent \in Nat

Init ==
  /\ sync \in Modes
  /\ frame_id = 0
  /\ responses = [n \in Ids |-> None]
  /\ connected = TRUE /\ shut = FALSE /\ reader = TRUE
  /\ events = 0
  /\ pc = [o \in Op |-> "idle"]
  /\ id = [o \in Op |-> 0]
  /\ answer = [o \in Op |-> None]
  /\ out = <<>> /\ held = FALSE /\ back = <<>>
  /\ open = TRUE /\ head = None
  /\ taken = {} /\ served = 0
  /\ order = [o \in Op |-> 0] /\ sent = 0

-----------------------------------------------------------------------------
(* Sending: prepare_frame_buf!, send_frame_and_confirm!, ping *)

\* mutant: the counter does not wrap around.
NextIdPlain(n) == n + 1
NextId(n) == IF n = MaxId THEN 1 ELSE n + 1

Goto(o, l) == pc' = [pc EXCEPT ![o] = l]

\* The methods take &mut self: one frame at a time.
Writing == \E o \in Op : pc[o] \in {"head", "body"}
MayBegin(o) == pc[o] = "idle" /\ ~Writing /\ \A q \in after[o] : pc[q] # "idle"

\* A new id, and the channel of the OpConfirm under that id.  An operation
\* that still waits under the same id loses its sender.
BeginFrame(o) ==
  LET n == NextId(frame_id) IN
  /\ o \notin Ping /\ MayBegin(o)
  /\ frame_id' = n
  /\ id' = [id EXCEPT ![o] = n]
  /\ responses' = IF o \in ack THEN [responses EXCEPT ![n] = o] ELSE responses
  /\ sent' = sent + 1
  /\ order' = [order EXCEPT ![o] = sent + 1]
  /\ Goto(o, "head")
  /\ UNCHANGED <<sync, connected, shut, readVars, answer, brokerVars, out, held>>
BeginPing(o) ==
  /\ o \in Ping /\ MayBegin(o)
  /\ Goto(o, "head")
  /\ UNCHANGED <<clientVars, readVars, id, answer, brokerVars, out, held>>

\* What is written to a connection that the broker has closed is lost.
Written(part) == out' = IF open THEN Append(out, part) ELSE out

\* The two writes of send_frame_and_confirm!; nothing looks at connected.
\* The second one and a ping have the buffer flushed, and a full buffer is
\* written out by any write, see module BufWriter.
WriteHead(o) ==
  /\ pc[o] = "head" /\ ~shut
  /\ Written(<<IF o \in Ping THEN "ping" ELSE "head", o>>)
  /\ Goto(o, IF o \in Ping THEN "done" ELSE "body")
  /\ held' \in {FALSE, held /\ o \notin Ping}
  /\ UNCHANGED <<clientVars, readVars, id, answer, brokerVars>>
WriteBody(o) ==
  /\ pc[o] = "body" /\ ~shut
  /\ Written(<<"body", o>>)
  /\ Goto(o, IF o \in ack THEN "confirm" ELSE "done")
  /\ held' = FALSE
  /\ UNCHANGED <<clientVars, readVars, id, answer, brokerVars>>

\* A part of the payload may have been written when the write is given up.
MaybeCut(o) ==
  \/ UNCHANGED out
  \/ pc[o] = "body" /\ ~shut /\ Written(<<"cut", o>>)

\* The client is marked as disconnected; its reader is aborted, or the
\* socket shut down, by the synchronous client.
Disconnect ==
  /\ connected' = FALSE
  /\ IF sync THEN shut' = TRUE /\ UNCHANGED reader
             ELSE reader' = FALSE /\ UNCHANGED shut

\* send_data_or_mark_disconnected!: a write fails or times out.  The entry
\* in responses stays.
WriteFail(o) ==
  /\ pc[o] \in {"head", "body"} /\ (Stalls \/ ~open \/ shut)
  /\ MaybeCut(o)
  /\ Disconnect
  /\ Goto(o, "done")
  /\ UNCHANGED <<sync, frame_id, responses, order, sent, events, id, answer, brokerVars, held>>

\* mutant: no guard for the time between the two writes.
CancelUnguarded(o) ==
  /\ ~sync /\ o \in MayCancel /\ pc[o] \in {"head", "body", "confirm"}
  /\ Goto(o, "done")
  /\ MaybeCut(o)
  /\ UNCHANGED <<clientVars, readVars, id, answer, brokerVars, held>>

\* The future of an operation is dropped while it writes: FrameWriteGuard,
\* which a ping does not have (its bytes enter the buffer together); or the
\* OpConfirm is dropped.
Cancel(o) ==
  /\ ~sync /\ o \in MayCancel /\ pc[o] \in {"head", "body", "confirm"}
  /\ Goto(o, "done")
  /\ \/ /\ pc[o] # "confirm" /\ o \notin Ping
        /\ Disconnect /\ MaybeCut(o)
     \/ /\ pc[o] = "confirm" \/ o \in Ping
        /\ UNCHANGED <<connected, shut, reader, out>>
  /\ UNCHANGED <<sync, frame_id, responses, order, sent, events, id, answer, brokerVars, held>>

\* The OpConfirm receives its result, or finds its sender gone.
GetConfirm(o) ==
  /\ pc[o] = "confirm"
  /\ answer[o] # None \/ responses[id[o]] # o
  /\ Goto(o, "done")
  /\ UNCHANGED <<clientVars, readVars, id, answer, brokerVars, out, held>>

\* The flusher of the asynchronous client gives up: a flush fails or takes
\* longer than timeout.  Nobody is told, and what is in the buffer stays
\* there until a later write has it flushed.
FlushGivenUp ==
  /\ ~sync /\ Stalls /\ ~held /\ out # <<>>
  /\ held' = TRUE
  /\ UNCHANGED <<clientVars, readVars, opVars, brokerVars, out>>

-----------------------------------------------------------------------------
(* The reader: handle_read *)

Received(k) == reader /\ back # <<>> /\ Head(back).kind = k

\* mutant: the ack wakes any operation that waits.
ReadAckAny ==
  \E n \in Ids :
    /\ Received("ack") /\ responses[n] # None
    /\ back' = Tail(back)
    /\ responses' = [responses EXCEPT ![n] = None]
    /\ answer' = [answer EXCEPT ![responses[n]] = Head(back).of]
    /\ UNCHANGED <<sync, frame_id, connected, shut, order, sent, readVars, pc, id,
                   open, head, taken, served, out, held>>

\* The ack with a number goes to the operation that waits under it.
ReadAck ==
  LET f == Head(back)  o == responses[f.id] IN
  /\ Received("ack")
  /\ back' = Tail(back)
  /\ responses' = [responses EXCEPT ![f.id] = None]
  /\ answer' = IF o # None /\ pc[o] # "done"
               THEN [answer EXCEPT ![o] = f.of] ELSE answer
  /\ UNCHANGED <<sync, frame_id, connected, shut, order, sent, readVars, pc, id,
                 open, head, taken, served, out, held>>

\* A frame goes into the event channel; the reader waits while that is full.
ReadEvent ==
  /\ Received("event") /\ events < QueueSize
  /\ back' = Tail(back)
  /\ events' = events + 1
  /\ UNCHANGED <<clientVars, reader, opVars, open, head, taken, served, out, held>>


\* The stream has ended.
ReadEof ==
  /\ reader /\ back = <<>> /\ (~open \/ shut)
  /\ reader' = FALSE /\ connected' = FALSE
  /\ UNCHANGED <<sync, frame_id, responses, shut, order, sent, events, opVars, brokerVars, out, held>>

\* The program takes a frame from the channel.
Consume ==
  /\ events > 0
  /\ events' = events - 1
  /\ UNCHANGED <<clientVars, reader, opVars, brokerVars, out, held>>

-----------------------------------------------------------------------------
(* The broker at the other end, see module Delivery *)

\* Bytes follow the header of o: the frame is complete, or not yet.
BrokerPayload ==
  LET part == Head(out) IN
  /\ open /\ out # <<>> /\ ~held /\ head # None
  /\ out' = Tail(out)
  /\ \/ /\ part = <<"cut", head>>
        /\ UNCHANGED <<head, taken, back>>
     \/ /\ part # <<"cut", head>>
        /\ taken' = taken \cup {<<head, part[2]>>}
        /\ back' = IF head \in ack
                   THEN Append(back, [kind |-> "ack", id |-> id[head], of |-> head])
                   ELSE back
        /\ head' = None
  /\ UNCHANGED <<clientVars, readVars, opVars, open, served, held>>
BrokerHeader ==
  LET part == Head(out) IN
  /\ open /\ out # <<>> /\ ~held /\ head = None
  /\ part[1] \in {"head", "ping"}
  /\ out' = Tail(out)
  /\ head' = IF part[1] = "head" THEN part[2] ELSE None
  /\ UNCHANGED <<clientVars, readVars, opVars, back, open, taken, served, held>>

\* The rest of a frame that is out of place is a broken header, a payload
\* does not come in time, the client has shut its end down, or the broker
\* ends the connection for a reason of its own.
BrokerEnds ==
  /\ open
  /\ \/ out # <<>> /\ ~held /\ head = None /\ Head(out)[1] \in {"body", "cut"}
     \/ (out = <<>> \/ held) /\ head # None
     \/ out = <<>> /\ shut
     \/ Breaks

\* What was on its way is lost with the socket.
CloseSocket ==
  /\ open' = FALSE /\ out' = <<>> /\ held' = FALSE
  /\ UNCHANGED <<clientVars, readVars, opVars, back, head, taken, served>>
BrokerClose == BrokerEnds /\ CloseSocket

\* A frame of another client arrives.
BrokerEvent ==
  /\ open /\ served < MaxEvents
  /\ served' = served + 1
  /\ back' = Append(back, [kind |-> "event", id |-> 0, of |-> None])
  /\ UNCHANGED <<clientVars, readVars, opVars, open, head, taken, out, held>>

-----------------------------------------------------------------------------

Step(o) == WriteHead(o) \/ WriteBody(o) \/ WriteFail(o) \/ GetConfirm(o)
Reading == ReadAck \/ ReadEvent \/ ReadEof
Broker  == BrokerPayload \/ BrokerHeader \/ BrokerClose

Next ==
  \/ \E o \in Op : BeginFrame(o) \/ BeginPing(o) \/ Step(o) \/ Cancel(o)
  \/ FlushGivenUp \/ Reading \/ Consume
  \/ Broker \/ BrokerEvent

Spec == Init /\ [][Next]_vars

-----------------------------------------------------------------------------
(* Properties *)

\* The broker accepts a frame with the bytes of another one as its payload
\* only if the client had been marked as disconnected: whatever interrupts
\* the two writes of a frame, the program is told before it can send again
\* (FrameWriteGuard, send_data_or_mark_disconnected!).  The synchronous
\* client, which shuts the socket down, never mixes frames.
IntactUnlessDisconnected ==
  connected \/ sync => \A f \in taken : f[1] = f[2]

\* The ack an operation receives is the one for its own frame, unless the
\* ids have wrapped around (frame_id, responses, handle_read).
AckAnswersFrame ==
  \A o \in Op : answer[o] # None =>
    \/ answer[o] = o
    \/ id[answer[o]] = id[o] /\ order[o] >= order[answer[o]] + MaxId
=============================================================================
