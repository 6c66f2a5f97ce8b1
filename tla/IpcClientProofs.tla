-------------------------- MODULE IpcClientProofs --------------------------
(***************************************************************************)
(* Theorems about IpcClient, for any number of operations and any MaxId.   *)
(***************************************************************************)
EXTENDS IpcClient, TLAPS

-----------------------------------------------------------------------------
(* The invariant of the frame ids and acknowledgements *)

\* A frame of o has been given its number.
Begun(o) == order[o] # 0

\* What is numbered, and in which order.
Numbered ==
  /\ \A o \in Op :
       /\ order[o] <= sent
       /\ Begun(o) => id[o] \in Ids
       /\ pc[o] = "idle" => ~Begun(o)
       /\ pc[o] \in {"body", "confirm"} => Begun(o)
       /\ pc[o] = "head" => Begun(o) \/ o \in Ping
  /\ \A q, o \in Op : Begun(o) /\ order[q] = order[o] => q = o

\* What the broker has of the stream belongs to numbered frames, and an
\* acknowledgement carries the number of the frame it is for.
Traced ==
  /\ head # None => Begun(head)
  /\ \A i \in 1..Len(out) : out[i][1] # "ping" => Begun(out[i][2])
  /\ \A i \in 1..Len(back) : back[i].kind = "ack" =>
       Begun(back[i].of) /\ back[i].of \in ack /\ back[i].id = id[back[i].of]

OpInv == TypeOK /\ Numbered /\ Traced

-----------------------------------------------------------------------------

LEMMA NextIdType ==
  ASSUME NEW n \in 0..MaxId
  PROVE  NextId(n) \in Ids
  BY BoundAssumption DEF NextId, Ids

\* What a write adds to the stream, at most.
LEMMA AppendPart ==
  ASSUME out \in Seq(Part), NEW part \in Part, Written(part)
  PROVE  /\ out' \in Seq(Part)
         /\ \A i \in 1..Len(out') : out'[i] = part \/ (i \in 1..Len(out) /\ out'[i] = out[i])
  BY DEF Written

LEMMA TailPart ==
  ASSUME out \in Seq(Part), out # <<>>
  PROVE  /\ Tail(out) \in Seq(Part)
         /\ Len(Tail(out)) = Len(out) - 1
         /\ \A i \in 1..Len(Tail(out)) : Tail(out)[i] = out[i + 1]
         /\ Head(out) = out[1] /\ 1 \in 1..Len(out) /\ out[1] \in Part
  OBVIOUS

LEMMA TailReply ==
  ASSUME back \in Seq(Reply), back # <<>>
  PROVE  /\ Tail(back) \in Seq(Reply)
         /\ \A i \in 1..Len(Tail(back)) : Tail(back)[i] = back[i + 1] /\ i + 1 \in 1..Len(back)
         /\ Head(back) = back[1] /\ 1 \in 1..Len(back) /\ back[1] \in Reply
  OBVIOUS

LEMMA AppendReply ==
  ASSUME back \in Seq(Reply), NEW f \in Reply
  PROVE  /\ Append(back, f) \in Seq(Reply)
         /\ \A i \in 1..Len(Append(back, f)) :
              Append(back, f)[i] = f \/ (i \in 1..Len(back) /\ Append(back, f)[i] = back[i])
  OBVIOUS

LEMMA InitOpInv == Init => OpInv
<1> SUFFICES ASSUME Init PROVE OpInv
  OBVIOUS
<1>1. TypeOK
  <2>1. /\ frame_id \in 0..MaxId /\ events \in 0..QueueSize /\ served \in 0..MaxEvents
        /\ id \in [Op -> 0..MaxId] /\ order \in [Op -> Nat] /\ sent \in Nat
    BY BoundAssumption DEF Init
  <2>2. /\ responses \in [Ids -> Op \cup {None}] /\ answer \in [Op -> Op \cup {None}]
        /\ pc \in [Op -> {"idle", "head", "body", "confirm", "done"}]
        /\ head \in Op \cup {None} /\ taken \subseteq Op \X Op
    BY DEF Init
  <2>3. sync \in Modes /\ connected \in BOOLEAN /\ shut \in BOOLEAN /\ reader \in BOOLEAN /\ open \in BOOLEAN
        /\ held \in BOOLEAN
    BY DEF Init
  <2>4. out \in Seq(Part) /\ back \in Seq(Reply)
    BY DEF Init
  <2> QED BY <2>1, <2>2, <2>3, <2>4 DEF TypeOK
<1>2. Numbered /\ Traced
  BY DEF Init, Numbered, Traced, Begun
<1> QED BY <1>1, <1>2 DEF OpInv

\* Steps that number no frame: what is numbered stays numbered.
LEMMA KeepNumbered ==
  ASSUME OpInv, UNCHANGED <<id, order, sent>>,
         \A o \in Op : \/ pc'[o] = pc[o] \/ pc'[o] = "done"
                       \/ pc[o] = "body" /\ pc'[o] = "confirm"
                       \/ pc[o] = "head" /\ pc'[o] = "body" /\ o \notin Ping
                       \/ pc'[o] = "head" /\ o \in Ping /\ pc[o] = "idle"
  PROVE  Numbered'
  BY DEF OpInv, TypeOK, Numbered, Begun

LEMMA BeginOpInv ==
  ASSUME OpInv, NEW o \in Op, BeginFrame(o) \/ BeginPing(o)
  PROVE  OpInv'
<1> USE DEF OpInv
<1>1. CASE BeginFrame(o)
  <2>1. NextId(frame_id) \in Ids /\ NextId(frame_id) \in 0..MaxId
    BY NextIdType DEF TypeOK, Ids
  <2>2. TypeOK'
    <3>1. /\ frame_id' \in 0..MaxId /\ id' \in [Op -> 0..MaxId]
          /\ order' \in [Op -> Nat] /\ sent' \in Nat
      BY <1>1, <2>1 DEF BeginFrame, TypeOK
    <3>2. responses' \in [Ids -> Op \cup {None}]
      BY <1>1, <2>1 DEF BeginFrame, TypeOK
    <3>3. pc' \in [Op -> {"idle", "head", "body", "confirm", "done"}]
      BY <1>1 DEF BeginFrame, Goto, TypeOK
    <3>4. held' \in BOOLEAN
      BY <1>1 DEF BeginFrame, TypeOK
    <3> QED BY <1>1, <3>1, <3>2, <3>3, <3>4 DEF BeginFrame, readVars, brokerVars, TypeOK
  <2>3. /\ \A q \in Op : q # o => order'[q] = order[q] /\ id'[q] = id[q] /\ pc'[q] = pc[q]
        /\ order'[o] = sent + 1 /\ sent' = sent + 1 /\ id'[o] \in Ids /\ pc'[o] = "head"
        /\ ~Begun(o) /\ sent \in Nat /\ \A q \in Op : order[q] \in Nat /\ order[q] <= sent
    BY <1>1, <2>1 DEF BeginFrame, MayBegin, Goto, TypeOK, Numbered
  <2>4. Numbered'
    BY <2>3 DEF Numbered, Begun
  <2>5. Traced'
    <3>1. UNCHANGED <<head, out, back>>
      BY <1>1 DEF BeginFrame, brokerVars
    <3>2. \A i \in 1..Len(out) : out[i] \in Part
      BY DEF TypeOK
    <3>3. \A i \in 1..Len(back) : back[i] \in Reply
      BY DEF TypeOK
    <3>4. \A q \in Op : Begun(q) => q # o /\ order'[q] # 0
      BY <2>3 DEF Begun
    <3>5. \A i \in 1..Len(back) : back[i].kind = "ack" => back[i].of \in Op
      BY <3>3 DEF Reply
    <3>6. \A i \in 1..Len(out) : out[i][2] \in Op
      BY <3>2 DEF Part
    <3>7. \A i \in 1..Len(out) : out[i][1] # "ping" => order'[out[i][2]] # 0
      BY <3>4, <3>6 DEF Traced
    <3>8. \A i \in 1..Len(back) : back[i].kind = "ack" =>
             order'[back[i].of] # 0 /\ back[i].of \in ack /\ back[i].id = id'[back[i].of]
      BY <2>3, <3>4, <3>5 DEF Traced
    <3>9. head # None => order'[head] # 0
      BY <3>4 DEF Traced, TypeOK
    <3> QED BY <3>1, <3>7, <3>8, <3>9 DEF Traced, Begun
  <2> QED BY <2>2, <2>4, <2>5
<1>2. CASE BeginPing(o)
  <2>1. /\ pc' = [pc EXCEPT ![o] = "head"] /\ pc[o] = "idle" /\ o \in Ping
        /\ UNCHANGED <<clientVars, readVars, id, answer, brokerVars, out, held>>
    BY <1>2 DEF BeginPing, MayBegin, Goto
  <2>2. TypeOK'
    BY <2>1 DEF clientVars, readVars, brokerVars, TypeOK
  <2>3. Numbered'
    BY <2>1, KeepNumbered DEF clientVars, TypeOK
  <2>4. Traced'
    BY <2>1 DEF Traced, Begun, clientVars, brokerVars
  <2> QED BY <2>2, <2>3, <2>4
<1> QED BY <1>1, <1>2

\* A part that is written belongs to a numbered frame, or to a ping.
LEMMA WrittenOpInv ==
  ASSUME OpInv, NEW part \in Part, Written(part), part[1] # "ping" => Begun(part[2]),
         UNCHANGED <<id, order, back, head>>
  PROVE  out' \in Seq(Part) /\ Traced'
<1>1. /\ out' \in Seq(Part)
      /\ \A i \in 1..Len(out') : out'[i] = part \/ (i \in 1..Len(out) /\ out'[i] = out[i])
  BY AppendPart DEF OpInv, TypeOK
<1> QED BY <1>1 DEF OpInv, Traced, Begun

LEMMA StepOpInv ==
  ASSUME OpInv, NEW o \in Op, Step(o) \/ Cancel(o)
  PROVE  OpInv'
<1> USE DEF OpInv
<1> DEFINE Kept == UNCHANGED <<sync, frame_id, responses, order, sent, events, id, answer, brokerVars>>
<1>1. Kept
  BY DEF Step, Cancel, WriteHead, WriteBody, WriteFail, GetConfirm, clientVars, readVars
<1>2. connected' \in BOOLEAN /\ shut' \in BOOLEAN /\ reader' \in BOOLEAN
  <2>1. CASE Disconnect
    BY <2>1 DEF Disconnect, TypeOK
  <2>2. CASE UNCHANGED <<connected, shut, reader>>
    BY <2>2 DEF TypeOK
  <2> QED BY <2>1, <2>2 DEF Step, Cancel, WriteHead, WriteBody, WriteFail, GetConfirm, clientVars, readVars
<1>3. /\ pc' \in [Op -> {"idle", "head", "body", "confirm", "done"}]
      /\ \A q \in Op : \/ pc'[q] = pc[q] \/ pc'[q] = "done"
                       \/ pc[q] = "body" /\ pc'[q] = "confirm"
                       \/ pc[q] = "head" /\ pc'[q] = "body" /\ q \notin Ping
  BY DEF Step, Cancel, WriteHead, WriteBody, WriteFail, GetConfirm, Goto, TypeOK
<1>4. out' \in Seq(Part) /\ Traced'
  <2>1. CASE UNCHANGED out
    BY <1>1, <2>1 DEF Traced, Begun, TypeOK, brokerVars
  <2>2. ASSUME NEW part \in {<<"head", o>>, <<"ping", o>>, <<"body", o>>, <<"cut", o>>}, Written(part),
               part # <<"ping", o>> => Begun(o)
        PROVE  out' \in Seq(Part) /\ Traced'
    <3>1. part \in Part /\ part[2] = o /\ (part[1] # "ping" => Begun(part[2]))
      BY <2>2 DEF Part
    <3>2. UNCHANGED <<id, order, back, head>>
      BY <1>1 DEF brokerVars
    <3> QED BY <2>2, <3>1, <3>2, WrittenOpInv
  <2>3. CASE WriteHead(o)
    <3>1. CASE o \in Ping
      BY <2>2, <2>3, <3>1 DEF WriteHead
    <3>2. CASE o \notin Ping
      BY <2>2, <2>3, <3>2 DEF WriteHead, Numbered
    <3> QED BY <3>1, <3>2
  <2>4. CASE WriteBody(o)
    BY <2>2, <2>4 DEF WriteBody, Numbered
  <2>5. CASE WriteFail(o)
    BY <2>1, <2>2, <2>5 DEF WriteFail, MaybeCut, Numbered
  <2>6. CASE GetConfirm(o)
    BY <2>1, <2>6 DEF GetConfirm
  <2>7. CASE Cancel(o)
    BY <2>1, <2>2, <2>7 DEF Cancel, MaybeCut, Numbered
  <2> QED BY <2>3, <2>4, <2>5, <2>6, <2>7 DEF Step
<1>5. TypeOK'
  <2>1. held' \in BOOLEAN
    BY DEF Step, Cancel, WriteHead, WriteBody, WriteFail, GetConfirm, TypeOK
  <2> QED BY <1>1, <1>2, <1>3, <1>4, <2>1 DEF TypeOK, brokerVars
<1>6. Numbered'
  BY <1>1, <1>3, KeepNumbered
<1> QED BY <1>4, <1>5, <1>6

LEMMA ReadOpInv ==
  ASSUME OpInv, Reading \/ Consume \/ FlushGivenUp
  PROVE  OpInv'
<1> USE DEF OpInv
<1>1. CASE ReadAck
  <2>1. back # <<>> /\ back' = Tail(back)
    BY <1>1 DEF ReadAck, Received
  <2>2. Head(back) \in Reply /\ Head(back).kind = "ack"
    BY <1>1, <2>1, TailReply DEF ReadAck, Received, TypeOK
  <2>3. Head(back).id \in Ids /\ Head(back).of \in Op
    BY <2>2 DEF Reply
  <2>4. responses' \in [Ids -> Op \cup {None}]
    BY <1>1, <2>3 DEF ReadAck, TypeOK
  <2>5. answer' \in [Op -> Op \cup {None}]
    BY <1>1, <2>3 DEF ReadAck, TypeOK
  <2>6. TypeOK'
    BY <1>1, <2>1, <2>4, <2>5, TailReply DEF ReadAck, readVars, TypeOK
  <2>7. Numbered'
    BY <1>1, KeepNumbered DEF ReadAck
  <2>8. Traced'
    BY <1>1, <2>1, TailReply DEF ReadAck, Traced, Begun, TypeOK
  <2> QED BY <2>6, <2>7, <2>8
<1>2. CASE ReadEvent
  <2>1. back # <<>> /\ back' = Tail(back) /\ events' \in 0..QueueSize
    BY <1>2, BoundAssumption DEF ReadEvent, Received, TypeOK
  <2>2. TypeOK'
    BY <1>2, <2>1, TailReply DEF ReadEvent, clientVars, opVars, TypeOK
  <2>3. Numbered'
    BY <1>2, KeepNumbered DEF ReadEvent, clientVars, opVars
  <2>4. Traced'
    <3>1. UNCHANGED <<id, order, head, out>>
      BY <1>2 DEF ReadEvent, clientVars, opVars
    <3>2. \A i \in 1..Len(back') : i + 1 \in 1..Len(back) /\ back'[i] = back[i + 1]
      BY <2>1, TailReply DEF TypeOK
    <3> QED BY <3>1, <3>2 DEF Traced, Begun
  <2> QED BY <2>2, <2>3, <2>4
<1>3. CASE ReadEof \/ Consume
  <2>1. events' \in 0..QueueSize
    BY <1>3, BoundAssumption DEF ReadEof, Consume, TypeOK
  <2>2. connected' \in BOOLEAN /\ reader' \in BOOLEAN
    BY <1>3 DEF ReadEof, Consume, clientVars, TypeOK
  <2>3. UNCHANGED <<sync, frame_id, responses, shut, order, sent, opVars, brokerVars, out, held>>
    BY <1>3 DEF ReadEof, Consume, clientVars
  <2>4. TypeOK'
    BY <2>1, <2>2, <2>3 DEF opVars, brokerVars, TypeOK
  <2>5. Numbered'
    BY <2>3, KeepNumbered DEF opVars
  <2>6. Traced'
    BY <2>3 DEF opVars, brokerVars, Traced, Begun
  <2> QED BY <2>4, <2>5, <2>6
<1>4. CASE FlushGivenUp
  <2>1. held' = TRUE /\ UNCHANGED <<clientVars, readVars, opVars, brokerVars, out>>
    BY <1>4 DEF FlushGivenUp
  <2>2. TypeOK'
    <3>1. held' \in BOOLEAN
      BY <2>1
    <3> QED BY <2>1, <3>1 DEF clientVars, readVars, opVars, brokerVars, TypeOK
  <2>3. Numbered'
    BY <2>1, KeepNumbered DEF clientVars, opVars
  <2>4. Traced'
    BY <2>1 DEF clientVars, opVars, brokerVars, Traced, Begun
  <2> QED BY <2>2, <2>3, <2>4
<1> QED BY <1>1, <1>2, <1>3, <1>4 DEF Reading

LEMMA CloseOpInv ==
  ASSUME OpInv, CloseSocket
  PROVE  OpInv'
<1>1. /\ UNCHANGED <<clientVars, readVars, opVars>>
      /\ out' = <<>> /\ open' = FALSE /\ held' = FALSE /\ UNCHANGED <<back, head, taken, served>>
  BY DEF CloseSocket
<1>2. TypeOK'
  <2>1. out' \in Seq(Part)
    BY <1>1
  <2>2. open' \in BOOLEAN /\ held' \in BOOLEAN
    BY <1>1
  <2> QED BY <1>1, <2>1, <2>2 DEF OpInv, TypeOK, clientVars, readVars, opVars
<1>3. Numbered'
  BY <1>1, KeepNumbered DEF clientVars, opVars
<1>4. Traced'
  BY <1>1 DEF OpInv, Traced, Begun, clientVars, opVars
<1> QED BY <1>2, <1>3, <1>4 DEF OpInv

LEMMA BrokerOpInv ==
  ASSUME OpInv, Broker \/ BrokerEvent
  PROVE  OpInv'
<1> USE DEF OpInv
<1>1. UNCHANGED <<clientVars, readVars, opVars>>
  BY DEF Broker, BrokerPayload, BrokerHeader, BrokerClose, CloseSocket, BrokerEvent
<1>2. Numbered'
  BY <1>1, KeepNumbered DEF clientVars, opVars
<1>3. CASE BrokerPayload
  <2>1. open /\ out # <<>> /\ head \in Op /\ out' = Tail(out) /\ UNCHANGED <<open, served, held>>
    BY <1>3 DEF BrokerPayload, TypeOK
  <2>2. Head(out) \in Part /\ Head(out)[2] \in Op
    BY <2>1, TailPart DEF TypeOK, Part
  <2>3. out' \in Seq(Part) /\ \A i \in 1..Len(out') : i + 1 \in 1..Len(out) /\ out'[i] = out[i + 1]
    BY <2>1, TailPart DEF TypeOK
  <2>4. CASE UNCHANGED <<head, taken, back>>
    <3>1. TypeOK'
      BY <1>1, <2>1, <2>3, <2>4 DEF TypeOK, clientVars, readVars, opVars
    <3>2. Traced'
      BY <1>1, <2>3, <2>4 DEF Traced, Begun, clientVars, opVars
    <3> QED BY <1>2, <3>1, <3>2
  <2>5. CASE /\ taken' = taken \cup {<<head, Head(out)[2]>>}
             /\ back' = IF head \in ack
                        THEN Append(back, [kind |-> "ack", id |-> id[head], of |-> head])
                        ELSE back
             /\ head' = None
    <3> DEFINE f == [kind |-> "ack", id |-> id[head], of |-> head]
    <3>1. Begun(head) /\ id[head] \in Ids
      BY <1>3, <2>1 DEF BrokerPayload, Traced, Numbered
    <3>2. f \in Reply
      BY <2>1, <3>1 DEF Reply
    <3>3. /\ back' \in Seq(Reply)
          /\ \A i \in 1..Len(back') :
               (head \in ack /\ back'[i] = f) \/ (i \in 1..Len(back) /\ back'[i] = back[i])
      BY <2>5, <3>2, AppendReply DEF TypeOK
    <3>4. taken' \subseteq Op \X Op
      BY <2>1, <2>2, <2>5 DEF TypeOK
    <3>5. TypeOK'
      BY <1>1, <2>1, <2>3, <2>5, <3>3, <3>4 DEF TypeOK, clientVars, readVars, opVars
    <3>6. \A i \in 1..Len(back') : back'[i].kind = "ack" =>
             Begun(back'[i].of) /\ back'[i].of \in ack /\ back'[i].id = id[back'[i].of]
      BY <3>1, <3>3 DEF Traced
    <3>7. Traced'
      BY <1>1, <2>3, <2>5, <3>6 DEF Traced, Begun, clientVars, opVars
    <3> QED BY <1>2, <3>5, <3>7
  <2> QED BY <1>3, <2>4, <2>5 DEF BrokerPayload
<1>4. CASE BrokerHeader
  <2>1. open /\ out # <<>> /\ out' = Tail(out) /\ UNCHANGED <<back, open, taken, served, held>>
    BY <1>4 DEF BrokerHeader
  <2>2. Head(out) \in Part /\ Head(out)[2] \in Op /\ Head(out) = out[1] /\ 1 \in 1..Len(out)
    BY <2>1, TailPart DEF TypeOK, Part
  <2>3. out' \in Seq(Part) /\ \A i \in 1..Len(out') : i + 1 \in 1..Len(out) /\ out'[i] = out[i + 1]
    BY <2>1, TailPart DEF TypeOK
  <2>4. head' = None \/ (head' = Head(out)[2] /\ Begun(Head(out)[2]))
    BY <1>4, <2>2 DEF BrokerHeader, Traced
  <2>5. TypeOK'
    BY <1>1, <2>1, <2>2, <2>3, <2>4 DEF TypeOK, clientVars, readVars, opVars
  <2>6. Traced'
    BY <1>1, <2>1, <2>3, <2>4 DEF Traced, Begun, clientVars, opVars
  <2> QED BY <1>2, <2>5, <2>6
<1>5. CASE BrokerClose
  BY <1>5, CloseOpInv DEF BrokerClose, OpInv
<1>6. CASE BrokerEvent
  <2> DEFINE f == [kind |-> "event", id |-> 0, of |-> None]
  <2>1. f \in Reply /\ f.kind # "ack"
    BY DEF Reply
  <2>2. back' = Append(back, f) /\ served' \in 0..MaxEvents /\ UNCHANGED <<open, head, taken, out, held>>
    BY <1>6, BoundAssumption DEF BrokerEvent, TypeOK
  <2>3. /\ back' \in Seq(Reply)
        /\ \A i \in 1..Len(back') : back'[i] = f \/ (i \in 1..Len(back) /\ back'[i] = back[i])
    BY <2>1, <2>2, AppendReply DEF TypeOK
  <2>4. TypeOK'
    BY <1>1, <2>2, <2>3 DEF TypeOK, clientVars, readVars, opVars
  <2>5. Traced'
    BY <1>1, <2>1, <2>2, <2>3 DEF Traced, Begun, clientVars, opVars
  <2> QED BY <1>2, <2>4, <2>5
<1> QED BY <1>3, <1>4, <1>5, <1>6 DEF Broker

\* The types, the numbering and the tracing are kept by every step.
LEMMA NextOpInv == OpInv /\ [Next]_vars => OpInv'
<1> SUFFICES ASSUME OpInv, [Next]_vars PROVE OpInv'
  OBVIOUS
<1>1. CASE UNCHANGED vars
  BY <1>1 DEF vars, clientVars, readVars, opVars, brokerVars, OpInv, TypeOK, Numbered, Traced, Begun
<1> QED BY <1>1, BeginOpInv, StepOpInv, ReadOpInv, BrokerOpInv DEF Next
-----------------------------------------------------------------------------
(* Acknowledgements *)

\* The last MaxId frames are numbered backwards from frame_id, around the
\* circle of the ids.
Rounds ==
  \A o \in Op : Begun(o) /\ order[o] + MaxId > sent =>
    \/ id[o] + sent = frame_id + order[o]
    \/ id[o] + sent = frame_id + order[o] + MaxId

\* So two frames with the same number are at least MaxId frames apart.
Apart ==
  \A q, o \in Op : Begun(q) /\ Begun(o) /\ id[q] = id[o] /\ order[q] < order[o] =>
    order[o] >= order[q] + MaxId

\* Under a number waits the last frame that was given it.
LatestWaits ==
  \A n \in Ids : responses[n] # None =>
    /\ Begun(responses[n]) /\ id[responses[n]] = n
    /\ \A q \in ack : Begun(q) /\ id[q] = n => order[q] <= order[responses[n]]

\* Only numbered frames are answered, and only with acks of numbered frames.
Answered ==
  \A o \in Op : answer[o] # None => Begun(o) /\ Begun(answer[o])

AckInv == OpInv /\ Rounds /\ Apart /\ LatestWaits /\ Answered /\ AckAnswersFrame

LEMMA BeginAckInv ==
  ASSUME AckInv, NEW o \in Op, BeginFrame(o)
  PROVE  (Rounds /\ Apart /\ LatestWaits /\ Answered /\ AckAnswersFrame)'
<1> DEFINE n == NextId(frame_id)
<1>1. n \in Ids /\ n \in Nat /\ frame_id \in Nat /\ MaxId \in Nat /\ MaxId > 0 /\ sent \in Nat
  <2>1. frame_id \in 0..MaxId /\ sent \in Nat
    BY DEF AckInv, OpInv, TypeOK
  <2>2. n \in Ids
    BY <2>1, NextIdType
  <2> QED BY <2>1, <2>2, BoundAssumption DEF Ids
<1>2. /\ \A q \in Op : q # o => order'[q] = order[q] /\ id'[q] = id[q]
      /\ order'[o] = sent + 1 /\ sent' = sent + 1 /\ id'[o] = n /\ frame_id' = n
      /\ ~Begun(o)
  BY <1>1 DEF BeginFrame, MayBegin, AckInv, OpInv, TypeOK, Numbered
<1>3. \A q \in Op : /\ order[q] \in Nat /\ order[q] <= sent /\ id[q] \in 0..MaxId
                    /\ Begun(q) => id[q] \in 1..MaxId /\ q # o
  BY <1>2 DEF AckInv, OpInv, TypeOK, Numbered, Ids
<1>4. (frame_id = MaxId /\ n = 1) \/ (frame_id < MaxId /\ n = frame_id + 1)
  BY <1>1 DEF NextId, AckInv, OpInv, TypeOK
<1>5. ASSUME NEW q \in Op, Begun(q), order[q] + MaxId > sent
      PROVE  \/ id[q] + sent = frame_id + order[q]
             \/ id[q] + sent = frame_id + order[q] + MaxId
  BY <1>5 DEF AckInv, Rounds
<1>6. Rounds'
  <2> SUFFICES ASSUME NEW q \in Op, order'[q] # 0, order'[q] + MaxId > sent'
               PROVE  \/ id'[q] + sent' = frame_id' + order'[q]
                      \/ id'[q] + sent' = frame_id' + order'[q] + MaxId
    BY DEF Rounds, Begun
  <2>1. CASE q = o
    BY <1>1, <1>2, <2>1
  <2>2. CASE q # o
    <3>1. Begun(q) /\ order[q] + MaxId > sent
      BY <1>1, <1>2, <1>3, <2>2 DEF Begun
    <3>2. CASE frame_id = MaxId
      BY <1>1, <1>2, <1>3, <1>4, <1>5, <2>2, <3>1, <3>2
    <3>3. CASE frame_id < MaxId
      BY <1>1, <1>2, <1>3, <1>4, <1>5, <2>2, <3>1, <3>3
    <3> QED BY <1>4, <3>2, <3>3
  <2> QED BY <2>1, <2>2
<1>7. Apart'
  <2>1. ASSUME NEW q \in Op, Begun(q), id[q] = n
        PROVE  sent + 1 >= order[q] + MaxId
    <3>1. CASE order[q] + MaxId > sent
      BY <1>1, <1>3, <1>4, <1>5, <2>1, <3>1
    <3>2. CASE ~(order[q] + MaxId > sent)
      BY <1>1, <1>3, <3>2
    <3> QED BY <3>1, <3>2
  <2> SUFFICES ASSUME NEW q \in Op, NEW p \in Op, order'[q] # 0, order'[p] # 0,
                      id'[q] = id'[p], order'[q] < order'[p]
               PROVE  order'[p] >= order'[q] + MaxId
    BY DEF Apart, Begun
  <2>2. CASE p = o
    <3>1. q # o
      BY <1>1, <1>2, <2>2
    <3> QED BY <1>2, <2>1, <2>2, <3>1 DEF Begun
  <2>3. CASE p # o
    <3>1. q # o
      BY <1>1, <1>2, <1>3, <2>3
    <3> QED BY <1>2, <2>3, <3>1 DEF AckInv, Apart, Begun
  <2> QED BY <2>2, <2>3
<1>8. LatestWaits'
  <2> SUFFICES ASSUME NEW m \in Ids, responses'[m] # None
               PROVE  /\ order'[responses'[m]] # 0 /\ id'[responses'[m]] = m
                      /\ \A q \in ack : order'[q] # 0 /\ id'[q] = m =>
                            order'[q] <= order'[responses'[m]]
    BY DEF LatestWaits, Begun
  <2>1. ack \subseteq Op /\ responses \in [Ids -> Op \cup {None}]
    BY OpAssumption DEF AckInv, OpInv, TypeOK
  <2>2. CASE o \in ack /\ m = n
    <3>1. responses'[m] = o
      BY <1>1, <2>1, <2>2 DEF BeginFrame
    <3> QED BY <1>1, <1>2, <1>3, <2>1, <2>2, <3>1
  <2>3. CASE ~(o \in ack /\ m = n)
    <3>1. responses'[m] = responses[m] /\ responses[m] \in Op
      BY <1>1, <2>1, <2>3 DEF BeginFrame
    <3>2. Begun(responses[m]) /\ id[responses[m]] = m /\ responses[m] # o
      BY <1>2, <3>1 DEF AckInv, LatestWaits
    <3>3. ASSUME NEW q \in ack, order'[q] # 0, id'[q] = m
          PROVE  order'[q] <= order'[responses[m]]
      <4>1. q # o
        BY <1>2, <2>3, <3>3
      <4> QED BY <1>2, <2>1, <3>1, <3>2, <3>3, <4>1 DEF AckInv, LatestWaits, Begun
    <3> QED BY <1>2, <3>1, <3>2, <3>3 DEF Begun
  <2> QED BY <2>2, <2>3
<1>9. Answered' /\ AckAnswersFrame'
  <2>1. answer' = answer /\ answer \in [Op -> Op \cup {None}]
    BY DEF BeginFrame, AckInv, OpInv, TypeOK
  <2> SUFFICES ASSUME NEW q \in Op, answer[q] # None
               PROVE  /\ order'[q] # 0 /\ order'[answer[q]] # 0
                      /\ \/ answer[q] = q
                         \/ id'[answer[q]] = id'[q] /\ order'[q] >= order'[answer[q]] + MaxId
    BY <2>1 DEF Answered, AckAnswersFrame, Begun
  <2>2. Begun(q) /\ Begun(answer[q]) /\ answer[q] \in Op /\ q # o /\ answer[q] # o
    BY <1>2, <2>1 DEF AckInv, Answered
  <2> QED BY <1>2, <2>2 DEF AckInv, AckAnswersFrame, Begun
<1> QED BY <1>6, <1>7, <1>8, <1>9

LEMMA ReadAckInv ==
  ASSUME AckInv, ReadAck
  PROVE  (Rounds /\ Apart /\ LatestWaits /\ Answered /\ AckAnswersFrame)'
<1>1. UNCHANGED <<frame_id, id, order, sent>>
  BY DEF ReadAck
<1>2. Rounds' /\ Apart'
  BY <1>1 DEF AckInv, Rounds, Apart, Begun
<1> DEFINE f == Head(back)  o == responses[f.id]
<1>3. back \in Seq(Reply) /\ back # <<>> /\ f.kind = "ack"
  BY DEF ReadAck, Received, AckInv, OpInv, TypeOK
<1>4. f \in Reply /\ f = back[1] /\ 1 \in 1..Len(back)
  BY <1>3, TailReply
<1>5. f.id \in Ids /\ f.of \in Op
  BY <1>3, <1>4 DEF Reply
<1>6. Begun(f.of) /\ f.of \in ack /\ f.id = id[f.of]
  BY <1>3, <1>4 DEF AckInv, OpInv, Traced
<1>7. /\ responses \in [Ids -> Op \cup {None}] /\ answer \in [Op -> Op \cup {None}]
      /\ order \in [Op -> Nat]
  BY DEF AckInv, OpInv, TypeOK
<1>8. LatestWaits'
  <2>1. \A n \in Ids : responses'[n] # None => responses'[n] = responses[n]
    BY <1>5, <1>7 DEF ReadAck
  <2> QED BY <1>1, <2>1 DEF AckInv, LatestWaits, Begun
<1>9. CASE UNCHANGED answer
  BY <1>1, <1>2, <1>8, <1>9 DEF AckInv, Answered, AckAnswersFrame, Begun
<1>10. CASE o # None /\ answer' = [answer EXCEPT ![o] = f.of]
  <2>1. o \in Op /\ Begun(o) /\ id[o] = id[f.of] /\ order[f.of] <= order[o]
    BY <1>5, <1>6, <1>7, <1>10 DEF AckInv, LatestWaits
  <2>2. f.of = o \/ order[o] >= order[f.of] + MaxId
    <3>1. CASE order[f.of] = order[o]
      BY <1>5, <2>1, <3>1 DEF AckInv, OpInv, Numbered
    <3>2. CASE order[f.of] # order[o]
      <4>1. order[f.of] < order[o]
        BY <1>5, <1>7, <2>1, <3>2
      <4> QED BY <1>5, <1>6, <2>1, <4>1 DEF AckInv, Apart
    <3> QED BY <3>1, <3>2
  <2>3. \A q \in Op : answer'[q] = IF q = o THEN f.of ELSE answer[q]
    BY <1>7, <1>10
  <2>4. Answered'
    BY <1>1, <1>6, <2>1, <2>3 DEF AckInv, Answered, Begun
  <2>5. AckAnswersFrame'
    BY <1>1, <2>1, <2>2, <2>3 DEF AckInv, AckAnswersFrame
  <2> QED BY <1>2, <1>8, <2>4, <2>5
<1> QED BY <1>9, <1>10 DEF ReadAck

LEMMA CloseAckInv ==
  ASSUME AckInv, CloseSocket
  PROVE  AckInv'
<1>1. OpInv'
  BY CloseOpInv DEF AckInv
<1> QED BY <1>1 DEF CloseSocket, AckInv, Rounds, Apart, LatestWaits, Answered, AckAnswersFrame,
                    Begun, clientVars, opVars

LEMMA NextAckInv == AckInv /\ [Next]_vars => AckInv'
<1> SUFFICES ASSUME AckInv, [Next]_vars PROVE AckInv'
  OBVIOUS
<1>1. OpInv'
  BY NextOpInv DEF AckInv
<1>2. CASE UNCHANGED <<frame_id, responses, id, answer, order, sent>>
  BY <1>1, <1>2 DEF AckInv, Rounds, Apart, LatestWaits, Answered, AckAnswersFrame, Begun
<1>3. CASE \E o \in Op : BeginFrame(o)
  BY <1>1, <1>3, BeginAckInv DEF AckInv
<1>4. CASE ReadAck
  BY <1>1, <1>4, ReadAckInv DEF AckInv
<1>5. CASE \E o \in Op : BeginPing(o) \/ Step(o) \/ Cancel(o)
  BY <1>2, <1>5 DEF BeginPing, Step, Cancel, WriteHead, WriteBody, WriteFail, GetConfirm, clientVars
<1>6. CASE FlushGivenUp \/ ReadEvent \/ ReadEof \/ Consume \/ Broker \/ BrokerEvent \/ UNCHANGED vars
  BY <1>2, <1>6 DEF FlushGivenUp, ReadEvent, ReadEof, Consume, Broker, BrokerPayload, BrokerHeader,
                    BrokerClose, CloseSocket, BrokerEvent, vars, clientVars, opVars
<1> QED BY <1>3, <1>4, <1>5, <1>6 DEF Next, Reading

LEMMA InitAckInv == Init => AckInv
<1> SUFFICES ASSUME Init PROVE AckInv
  OBVIOUS
<1>1. OpInv
  BY InitOpInv
<1>2. Rounds /\ Apart /\ LatestWaits /\ Answered /\ AckAnswersFrame
  BY DEF Init, Rounds, Apart, LatestWaits, Answered, AckAnswersFrame, Begun
<1> QED BY <1>1, <1>2 DEF AckInv

\* Every operation that gets an acknowledgement gets the one for its own
\* frame, unless u32::MAX frames were sent in between, and whatever was
\* cancelled, failed or left unanswered meanwhile (prepare_frame_buf!,
\* responses, handle_read).
THEOREM AcksAnswerFrames == Spec => []AckAnswersFrame
<1>1. AckInv => AckAnswersFrame
  BY DEF AckInv
<1> QED BY InitAckInv, NextAckInv, <1>1, PTL DEF Spec

\* The types are kept.
THEOREM IpcTypeCorrect == Spec => []TypeOK
<1>1. OpInv => TypeOK
  BY DEF OpInv
<1> QED BY InitOpInv, NextOpInv, <1>1, PTL DEF Spec

-----------------------------------------------------------------------------
(* The stream *)

\* The program has not been told that the client is disconnected, or the
\* client shuts the socket down when it is.
Sound == connected \/ sync

\* The part at position i of the stream; at 0, what the broker holds.
Part0 == IF head = None THEN <<"ping", None>> ELSE <<"head", head>>
PartAt(i) == IF i = 0 THEN Part0 ELSE out[i]
LastPart == PartAt(Len(out))

\* What may follow a part: a header is followed by its payload or by a piece
\* of it, after which nothing comes; a complete frame by another one.
Follows(a, b) ==
  \/ a[1] = "head" /\ b \in {<<"body", a[2]>>, <<"cut", a[2]>>}
  \/ a[1] \in {"body", "ping"} /\ b[1] \in {"head", "ping"}

OneWriter ==
  /\ \A o, q \in Op : pc[o] \in {"head", "body"} /\ pc[q] \in {"head", "body"} => o = q
  /\ \A o \in Op : pc[o] = "body" => o \notin Ping

Chained == \A i \in 1..Len(out) : Follows(PartAt(i - 1), out[i])

\* Between two writes the end of the stream tells where the writer is.
EndsWell ==
  /\ LastPart[1] = "head" => pc[LastPart[2]] = "body" \/ shut
  /\ LastPart[1] = "cut" => shut
  /\ \A o \in Op : pc[o] = "body" /\ ~shut => LastPart = <<"head", o>>

StreamInv ==
  /\ OpInv /\ OneWriter
  /\ Sound /\ open => Chained /\ EndsWell
  /\ IntactUnlessDisconnected

LEMMA LastPartType ==
  ASSUME TypeOK
  PROVE  /\ LastPart[1] \in {"head", "body", "cut", "ping"}
         /\ LastPart[1] # "ping" => LastPart[2] \in Op
<1>1. CASE Len(out) = 0
  BY <1>1 DEF LastPart, PartAt, Part0, TypeOK
<1>2. CASE Len(out) # 0
  <2>1. LastPart = out[Len(out)] /\ LastPart \in Part
    BY <1>2 DEF LastPart, PartAt, TypeOK
  <2> QED BY <2>1 DEF Part
<1> QED BY <1>1, <1>2

\* A part that may follow the last one becomes the last one.
LEMMA WrittenStream ==
  ASSUME TypeOK, open, Chained, NEW part \in Part, Written(part), Follows(LastPart, part),
         UNCHANGED head
  PROVE  Chained' /\ LastPart' = part
<1>1. /\ out \in Seq(Part) /\ Len(out) \in Nat /\ Len(out') = Len(out) + 1
      /\ out'[Len(out) + 1] = part /\ \A i \in 1..Len(out) : out'[i] = out[i]
  BY DEF TypeOK, Written
<1>2. LastPart' = part
  BY <1>1 DEF LastPart, PartAt
<1>3. ASSUME NEW i \in 0..Len(out) PROVE PartAt(i)' = PartAt(i)
  BY <1>1 DEF PartAt, Part0
<1>4. ASSUME NEW i \in 1..Len(out') PROVE Follows(PartAt(i - 1)', out'[i])
  <2>1. CASE i = Len(out) + 1
    <3>1. PartAt(i - 1)' = LastPart /\ out'[i] = part
      BY <1>1, <1>3, <2>1 DEF LastPart
    <3> QED BY <3>1
  <2>2. CASE i # Len(out) + 1
    <3>1. i \in 1..Len(out) /\ i - 1 \in 0..Len(out)
      BY <1>1, <1>4, <2>2
    <3>2. PartAt(i - 1)' = PartAt(i - 1) /\ out'[i] = out[i]
      BY <1>1, <1>3, <3>1
    <3> QED BY <3>1, <3>2 DEF Chained
  <2> QED BY <2>1, <2>2
<1>5. Chained'
  BY <1>4 DEF Chained, Follows
<1> QED BY <1>2, <1>5

\* The broker takes the first part: the rest stays chained if what the broker
\* holds then may be followed by what comes next, and the end stays the end.
LEMMA TakenStream ==
  ASSUME TypeOK, out # <<>>, out' = Tail(out), Chained,
         \A b \in Part : Follows(out[1], b) => Follows(Part0', b)
  PROVE  /\ Chained'
         /\ LastPart' = IF Len(out) = 1 THEN Part0' ELSE LastPart
<1>1. /\ out \in Seq(Part) /\ Len(out) \in Nat /\ Len(out') = Len(out) - 1 /\ Len(out) >= 1
      /\ \A i \in 1..Len(out') : out'[i] = out[i + 1] /\ i + 1 \in 1..Len(out) /\ out[i + 1] \in Part
  BY TailPart DEF TypeOK
<1>2. LastPart' = IF Len(out) = 1 THEN Part0' ELSE LastPart
  <2>1. CASE Len(out) = 1
    BY <1>1, <2>1 DEF LastPart, PartAt
  <2>2. CASE Len(out) # 1
    <3>1. LastPart' = out'[Len(out')] /\ LastPart = out[Len(out)] /\ Len(out') \in 1..Len(out')
      BY <1>1, <2>2 DEF LastPart, PartAt
    <3>2. out'[Len(out')] = out[Len(out)]
      BY <1>1, <3>1
    <3> QED BY <2>2, <3>1, <3>2
  <2> QED BY <2>1, <2>2
<1>3. ASSUME NEW i \in 1..Len(out') PROVE Follows(PartAt(i - 1)', out'[i])
  <2>1. Follows(PartAt(i), out[i + 1]) /\ PartAt(i) = out[i]
    <3>1. i + 1 \in 1..Len(out) /\ i + 1 - 1 = i /\ i # 0
      BY <1>1
    <3> QED BY <3>1 DEF Chained, PartAt
  <2>2. CASE i = 1
    <3>1. PartAt(i - 1)' = Part0' /\ out'[i] = out[2] /\ out[2] \in Part
      BY <1>1, <2>2 DEF PartAt
    <3>2. Follows(out[1], out[2])
      BY <2>1, <2>2
    <3> QED BY <3>1, <3>2
  <2>3. CASE i # 1
    <3>1. i - 1 \in 1..Len(out') /\ i - 1 + 1 = i
      BY <1>1, <2>3
    <3>2. PartAt(i - 1)' = out[i]
      BY <1>1, <3>1 DEF PartAt
    <3> QED BY <1>1, <2>1, <3>2
  <2> QED BY <2>2, <2>3
<1>4. Chained'
  BY <1>3 DEF Chained, Follows
<1> QED BY <1>2, <1>4

LEMMA WriterStream ==
  ASSUME StreamInv, NEW o \in Op, BeginFrame(o) \/ BeginPing(o) \/ Step(o) \/ Cancel(o)
  PROVE  OneWriter' /\ (Sound' /\ open' => Chained' /\ EndsWell') /\ IntactUnlessDisconnected'
<1> USE DEF StreamInv, OpInv
<1>1. UNCHANGED <<sync, open, head, taken>>
  BY DEF BeginFrame, BeginPing, Step, Cancel, WriteHead, WriteBody, WriteFail, GetConfirm,
         clientVars, brokerVars
<1>2. pc \in [Op -> {"idle", "head", "body", "confirm", "done"}] /\ sync \in BOOLEAN
  BY ModeAssumption DEF TypeOK
<1>3. OneWriter'
  <2>1. CASE BeginFrame(o) \/ BeginPing(o)
    <3>1. pc' = [pc EXCEPT ![o] = "head"] /\ \A q \in Op : pc[q] \notin {"head", "body"}
      BY <2>1 DEF BeginFrame, BeginPing, MayBegin, Goto, Writing
    <3> QED BY <1>2, <3>1 DEF OneWriter
  <2>2. CASE Step(o) \/ Cancel(o)
    <3>1. \A q \in Op : \/ pc'[q] = pc[q] \/ pc'[q] \in {"done", "confirm"}
                        \/ pc[q] = "head" /\ pc'[q] = "body" /\ q \notin Ping
      BY <1>2, <2>2 DEF Step, Cancel, WriteHead, WriteBody, WriteFail, GetConfirm, Goto
    <3> QED BY <1>2, <3>1 DEF OneWriter
  <2> QED BY <2>1, <2>2
<1>4. connected' => connected
  BY DEF BeginFrame, BeginPing, Step, Cancel, WriteHead, WriteBody, WriteFail, GetConfirm,
         clientVars, Disconnect
<1>5. IntactUnlessDisconnected'
  BY <1>1, <1>4 DEF IntactUnlessDisconnected
<1>6. ASSUME Sound', open' PROVE Chained' /\ EndsWell'
  <2>1. Sound /\ open /\ Chained /\ EndsWell
    BY <1>1, <1>4, <1>6 DEF Sound
  <2>2. CASE BeginFrame(o) \/ BeginPing(o)
    <3>1. UNCHANGED <<out, head, shut>> /\ pc' = [pc EXCEPT ![o] = "head"] /\ pc[o] = "idle"
      BY <2>2 DEF BeginFrame, BeginPing, MayBegin, Goto, clientVars, brokerVars
    <3>2. LastPart' = LastPart /\ Chained'
      BY <2>1, <3>1 DEF LastPart, Chained, PartAt, Part0
    <3>3. EndsWell'
      BY <1>2, <2>1, <3>1, <3>2, LastPartType DEF EndsWell
    <3> QED BY <3>2, <3>3
  <2>3. CASE WriteHead(o)
    <3>1. ~shut /\ UNCHANGED shut /\ pc[o] = "head"
      BY <2>3 DEF WriteHead, clientVars
    <3>2. \A q \in Op : pc[q] # "body"
      BY <3>1 DEF OneWriter
    <3>3. LastPart[1] \in {"body", "ping"}
      BY <2>1, <3>1, <3>2, LastPartType DEF EndsWell
    <3>4. CASE o \in Ping
      <4>1. <<"ping", o>> \in Part /\ Written(<<"ping", o>>) /\ pc' = [pc EXCEPT ![o] = "done"]
        BY <2>3, <3>4 DEF WriteHead, Goto, Part
      <4>2. Follows(LastPart, <<"ping", o>>)
        BY <3>3 DEF Follows
      <4>3. Chained' /\ LastPart' = <<"ping", o>>
        BY <1>1, <2>1, <4>1, <4>2, WrittenStream
      <4>4. \A q \in Op : pc'[q] # "body"
        BY <1>2, <3>2, <4>1
      <4> QED BY <4>3, <4>4 DEF EndsWell
    <3>5. CASE o \notin Ping
      <4>1. <<"head", o>> \in Part /\ Written(<<"head", o>>) /\ pc' = [pc EXCEPT ![o] = "body"]
        BY <2>3, <3>5 DEF WriteHead, Goto, Part
      <4>2. Follows(LastPart, <<"head", o>>)
        BY <3>3 DEF Follows
      <4>3. Chained' /\ LastPart' = <<"head", o>>
        BY <1>1, <2>1, <4>1, <4>2, WrittenStream
      <4>4. \A q \in Op : pc'[q] = "body" <=> q = o
        BY <1>2, <3>2, <4>1
      <4> QED BY <4>3, <4>4 DEF EndsWell
    <3> QED BY <3>4, <3>5
  <2>4. CASE WriteBody(o)
    <3>1. ~shut /\ UNCHANGED shut /\ pc[o] = "body"
      BY <2>4 DEF WriteBody, clientVars
    <3>2. /\ <<"body", o>> \in Part /\ Written(<<"body", o>>)
          /\ pc' = [pc EXCEPT ![o] = IF o \in ack THEN "confirm" ELSE "done"]
      BY <2>4 DEF WriteBody, Goto, Part
    <3>3. Follows(LastPart, <<"body", o>>)
      BY <2>1, <3>1 DEF EndsWell, Follows
    <3>4. Chained' /\ LastPart' = <<"body", o>>
      BY <1>1, <2>1, <3>2, <3>3, WrittenStream
    <3>5. \A q \in Op : pc'[q] # "body"
      BY <1>2, <3>1, <3>2 DEF OneWriter
    <3> QED BY <3>4, <3>5 DEF EndsWell
  <2>5. ASSUME Disconnect, MaybeCut(o), pc' = [pc EXCEPT ![o] = "done"]
        PROVE  Chained' /\ EndsWell'
    <3>1. sync /\ shut'
      BY <1>1, <1>6, <2>5 DEF Disconnect, Sound
    <3>2. CASE UNCHANGED out
      <4>1. LastPart' = LastPart /\ Chained'
        BY <1>1, <2>1, <3>2 DEF LastPart, Chained, PartAt, Part0
      <4> QED BY <3>1, <4>1 DEF EndsWell
    <3>3. CASE pc[o] = "body" /\ ~shut /\ Written(<<"cut", o>>)
      <4>1. <<"cut", o>> \in Part /\ Follows(LastPart, <<"cut", o>>)
        BY <2>1, <3>3 DEF Part, EndsWell, Follows
      <4>2. Chained' /\ LastPart' = <<"cut", o>>
        BY <1>1, <2>1, <3>3, <4>1, WrittenStream
      <4> QED BY <3>1, <4>2 DEF EndsWell
    <3> QED BY <2>5, <3>2, <3>3 DEF MaybeCut
  <2>6. ASSUME UNCHANGED <<connected, shut, out>>, pc' = [pc EXCEPT ![o] = "done"],
               pc[o] = "confirm" \/ (pc[o] \in {"head", "body"} /\ o \in Ping)
        PROVE  Chained' /\ EndsWell'
    <3>1. LastPart' = LastPart /\ Chained'
      BY <1>1, <2>1, <2>6 DEF LastPart, Chained, PartAt, Part0
    <3>2. pc[o] # "body"
      BY <2>6 DEF OneWriter
    <3>3. \A q \in Op : pc'[q] = "body" <=> pc[q] = "body"
      BY <1>2, <2>6, <3>2
    <3> QED BY <2>1, <2>6, <3>1, <3>3, LastPartType DEF EndsWell
  <2>7. CASE WriteFail(o)
    BY <2>5, <2>7 DEF WriteFail, Goto
  <2>8. CASE GetConfirm(o)
    <3>1. /\ UNCHANGED <<connected, shut, out>> /\ pc' = [pc EXCEPT ![o] = "done"]
          /\ pc[o] = "confirm"
      BY <2>8 DEF GetConfirm, Goto, clientVars
    <3> QED BY <2>6, <3>1
  <2>9. CASE Cancel(o)
    <3>1. pc' = [pc EXCEPT ![o] = "done"] /\ pc[o] \in {"head", "body", "confirm"}
      BY <2>9 DEF Cancel, Goto
    <3>2. CASE Disconnect /\ MaybeCut(o)
      BY <2>5, <3>1, <3>2
    <3>3. CASE (pc[o] = "confirm" \/ o \in Ping) /\ UNCHANGED <<connected, shut, reader, out>>
      <4>1. pc[o] = "confirm" \/ (pc[o] \in {"head", "body"} /\ o \in Ping)
        BY <3>1, <3>3
      <4> QED BY <2>6, <3>1, <3>3, <4>1
    <3> QED BY <2>9, <3>2, <3>3 DEF Cancel
  <2> QED BY <2>2, <2>3, <2>4, <2>7, <2>8, <2>9 DEF Step
<1> QED BY <1>3, <1>5, <1>6

LEMMA BrokerStream ==
  ASSUME StreamInv, BrokerPayload \/ BrokerHeader
  PROVE  OneWriter' /\ (Sound' /\ open' => Chained' /\ EndsWell') /\ IntactUnlessDisconnected'
<1> USE DEF StreamInv, OpInv
<1>1. /\ UNCHANGED <<sync, connected, shut, pc, open>> /\ open /\ out # <<>> /\ out' = Tail(out)
      /\ out \in Seq(Part)
  BY DEF BrokerPayload, BrokerHeader, clientVars, opVars, TypeOK
<1>2. OneWriter' /\ Sound' = Sound
  BY <1>1 DEF OneWriter, Sound
<1>3. CASE ~Sound
  BY <1>1, <1>2, <1>3 DEF Sound, IntactUnlessDisconnected
<1>4. CASE Sound
  <2>1. Chained /\ EndsWell /\ Head(out) = out[1] /\ out[1] \in Part /\ Len(out) \in Nat /\ Len(out) >= 1
    BY <1>1, <1>4, TailPart
  <2>2. Follows(Part0, out[1])
    <3>1. 1 \in 1..Len(out) /\ PartAt(1 - 1) = Part0
      BY <2>1 DEF PartAt
    <3> QED BY <2>1, <3>1 DEF Chained
  <2>3. Len(out) = 1 => LastPart = out[1]
    BY DEF LastPart, PartAt
  <2>4. CASE BrokerPayload
    <3>1. head \in Op /\ Part0 = <<"head", head>> /\ out[1] \in {<<"body", head>>, <<"cut", head>>}
      BY <2>2, <2>4 DEF BrokerPayload, Part0, TypeOK, Follows
    <3>2. CASE out[1] = <<"cut", head>>
      <4>1. UNCHANGED <<head, taken>>
        BY <2>1, <2>4, <3>2 DEF BrokerPayload
      <4>2. \A b \in Part : ~Follows(out[1], b)
        BY <3>2 DEF Follows
      <4>3. Chained' /\ LastPart' = IF Len(out) = 1 THEN Part0' ELSE LastPart
        BY <1>1, <2>1, <4>2, TakenStream
      <4>4. Part0' = <<"head", head>>
        BY <3>1, <4>1 DEF Part0
      <4>5. CASE Len(out) = 1
        <5>1. shut'
          BY <1>1, <2>1, <2>3, <3>2, <4>5 DEF EndsWell
        <5> QED BY <1>2, <1>4, <4>1, <4>3, <5>1 DEF EndsWell, IntactUnlessDisconnected, Sound
      <4>6. CASE Len(out) # 1
        BY <1>1, <1>2, <1>4, <2>1, <4>1, <4>3, <4>6 DEF EndsWell, IntactUnlessDisconnected, Sound
      <4> QED BY <4>5, <4>6
    <3>3. CASE out[1] = <<"body", head>>
      <4>1. head' = None /\ taken' = taken \cup {<<head, head>>}
        BY <2>1, <2>4, <3>3 DEF BrokerPayload
      <4>2. Part0' = <<"ping", None>>
        BY <4>1 DEF Part0
      <4>3. \A b \in Part : Follows(out[1], b) => Follows(Part0', b)
        BY <3>3, <4>2 DEF Follows
      <4>4. Chained' /\ LastPart' = IF Len(out) = 1 THEN Part0' ELSE LastPart
        BY <1>1, <2>1, <4>3, TakenStream
      <4>5. IntactUnlessDisconnected'
        BY <1>4, <4>1 DEF IntactUnlessDisconnected, Sound
      <4>6. EndsWell'
        BY <1>1, <2>1, <2>3, <3>3, <4>2, <4>4 DEF EndsWell
      <4> QED BY <1>2, <4>4, <4>5, <4>6
    <3> QED BY <3>1, <3>2, <3>3
  <2>5. CASE BrokerHeader
    <3>1. head = None /\ UNCHANGED taken /\ IntactUnlessDisconnected'
      BY <1>1, <2>5 DEF BrokerHeader, IntactUnlessDisconnected
    <3>2. CASE out[1][1] = "head"
      <4>1. Part0' = out[1]
        <5>1. head' = out[1][2] /\ out[1][2] \in Op
          BY <2>1, <2>5, <3>2 DEF BrokerHeader, Part
        <5>2. head' # None
          BY <5>1, OpAssumption
        <5> QED BY <2>1, <3>2, <5>1, <5>2 DEF Part0, Part
      <4>2. Chained' /\ LastPart' = IF Len(out) = 1 THEN Part0' ELSE LastPart
        BY <1>1, <2>1, <4>1, TakenStream
      <4>3. LastPart' = LastPart
        BY <2>3, <4>1, <4>2
      <4> QED BY <1>1, <1>2, <2>1, <3>1, <4>2, <4>3 DEF EndsWell
    <3>3. CASE out[1][1] = "ping"
      <4>1. Part0' = <<"ping", None>>
        BY <2>1, <2>5, <3>3 DEF BrokerHeader, Part0
      <4>2. \A b \in Part : Follows(out[1], b) => Follows(Part0', b)
        BY <3>3, <4>1 DEF Follows
      <4>3. Chained' /\ LastPart' = IF Len(out) = 1 THEN Part0' ELSE LastPart
        BY <1>1, <2>1, <4>2, TakenStream
      <4>4. EndsWell'
        BY <1>1, <2>1, <2>3, <3>3, <4>1, <4>3 DEF EndsWell
      <4> QED BY <1>2, <3>1, <4>3, <4>4
    <3> QED BY <2>1, <2>5, <3>2, <3>3 DEF BrokerHeader
  <2> QED BY <2>4, <2>5
<1> QED BY <1>3, <1>4

LEMMA CloseStreamInv ==
  ASSUME StreamInv, CloseSocket
  PROVE  StreamInv'
<1>1. OpInv'
  BY CloseOpInv DEF StreamInv
<1> QED BY <1>1 DEF CloseSocket, StreamInv, OneWriter, IntactUnlessDisconnected, clientVars, opVars

LEMMA NextStreamInv == StreamInv /\ [Next]_vars => StreamInv'
<1> SUFFICES ASSUME StreamInv, [Next]_vars PROVE StreamInv'
  OBVIOUS
<1>1. OpInv'
  BY NextOpInv DEF StreamInv
<1>2. ASSUME UNCHANGED <<sync, shut, pc, head, taken, out>>, connected' => connected, open' = open
      PROVE  StreamInv'
  BY <1>1, <1>2 DEF StreamInv, OneWriter, Sound, Chained, EndsWell, LastPart, PartAt, Part0,
                    IntactUnlessDisconnected
<1>3. CASE \E o \in Op : BeginFrame(o) \/ BeginPing(o) \/ Step(o) \/ Cancel(o)
  BY <1>1, <1>3, WriterStream DEF StreamInv
<1>4. CASE BrokerPayload \/ BrokerHeader
  BY <1>1, <1>4, BrokerStream DEF StreamInv
<1>5. CASE BrokerClose
  BY <1>5, CloseStreamInv DEF BrokerClose
<1>6. CASE FlushGivenUp \/ Reading \/ Consume \/ BrokerEvent \/ UNCHANGED vars
  BY <1>2, <1>6 DEF FlushGivenUp, Reading, ReadAck, ReadEvent, ReadEof, Consume, BrokerEvent, vars, clientVars,
                    opVars, brokerVars
<1> QED BY <1>3, <1>4, <1>5, <1>6 DEF Next, Broker

LEMMA InitStreamInv == Init => StreamInv
<1> SUFFICES ASSUME Init PROVE StreamInv
  OBVIOUS
<1>1. OpInv
  BY InitOpInv
<1>2. OneWriter /\ Chained /\ EndsWell /\ IntactUnlessDisconnected
  BY DEF Init, OneWriter, Chained, EndsWell, LastPart, PartAt, Part0, IntactUnlessDisconnected
<1> QED BY <1>1, <1>2 DEF StreamInv

\* The broker never takes the bytes of one frame for the payload of another,
\* unless the client has been marked as disconnected before, and never if the
\* client is the synchronous one, wherever writes fail or their futures are
\* dropped (FrameWriteGuard, send_data_or_mark_disconnected!).
THEOREM FramesStayIntact == Spec => []IntactUnlessDisconnected
<1>1. StreamInv => IntactUnlessDisconnected
  BY DEF StreamInv
<1> QED BY InitStreamInv, NextStreamInv, <1>1, PTL DEF Spec
=============================================================================
