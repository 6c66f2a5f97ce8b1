------------------------------ MODULE Delivery ------------------------------
(***************************************************************************)
(* How the BUS/RT broker carries frames: handle_reader, handle_writer and  *)
(* handle_pinger of a connection, the operations of the in-process client, *)
(* and the macros send!, send_broadcast!, publish! and safe_send_frame! of *)
(* src/broker.rs.                                                          *)
(*                                                                         *)
(* Every client is registered at the start; registration itself is the     *)
(* subject of module Registry, so drop_client is one step here, and the    *)
(* announce that follows it in unregister_client another.  The reader of a *)
(* connection takes the operations from the stream one by one; the owner   *)
(* of an in-process client calls the same operations one after another.    *)
(*  The number of an operation, its place in issued, stands for   *)
(* the frame id.  The steps of an operation are split at each mutex and at *)
(* each await, so that the operations of different clients interleave as   *)
(* they do on the threads of tokio.                                        *)
(***************************************************************************)
EXTENDS Naturals, FiniteSets, Sequences, SequencesExt

CONSTANTS
  Conn,         \* clients with a connection
  Internal,     \* in-process clients (BusRtClientKind::Internal)
  Topic,        \* topics
  primary,      \* BusRtClient.primary_name: the primary client of a client
  Script,       \* the operations each client may ask for
  MaxOps,       \* how many of them it asks for
  QueueSize,    \* capacity of the queue of a client
  Pinged,       \* connections the pinger is modelled for
  Breaks,       \* connections whose stream may end or fail
  Denied,       \* <<client, operation, name>> its ClientAaa does not allow
  None          \* no client

Client == Conn \cup Internal

\* FrameOp.  to is the receiver of a message or of publish_for, mask the
\* clients a broadcast mask matches, topics the topics in their order.
TopicOps == {"subscribe", "unsubscribe", "exclude", "unexclude"}
FrameOp == {"message", "broadcast", "publish", "publish_for"} \cup TopicOps
Op == [op: FrameOp, to: Client \cup {None}, mask: SUBSET Client,
       topics: Seq(Topic), ack: BOOLEAN]

ASSUME ClientAssumption ==
  /\ Conn \cap Internal = {} /\ None \notin Client
  /\ primary \in [Client -> Client]
  /\ Pinged \subseteq Conn /\ Breaks \subseteq Conn
  /\ \A d \in Denied : d[1] \in Conn
ASSUME ScriptAssumption ==
  \A c \in Client : \A o \in Script[c] :
    /\ o \in Op
    /\ o.op \in {"publish", "publish_for"} => Len(o.topics) = 1
    /\ o.op \in TopicOps => Len(o.topics) > 0
    /\ o.op \in {"message", "publish_for"} => o.to \in Client
ASSUME BoundAssumption == QueueSize \in Nat \ {0} /\ MaxOps \in [Client -> Nat]

VARIABLES
  issued,    \* the operations a client has asked for
  done,      \* how many of them are finished
  pc,        \* what the reader, or the call of an in-process client, does
  todo,      \* the receivers still to be served
  tgt,       \* the receiver of the frame being sent
  acks,      \* codes of acknowledgements still to be sent
  queue,     \* BusRtClient.tx: frames for the client
  closed,    \* clients whose queue is closed
  got,       \* what a client has received, pings left out
  listed,    \* the clients the registry lists
  subs,      \* BrokerDb.subscriptions: the subscribers of a topic
  excl,      \* BusRtClient.exclusions
  hasExcl,   \* BusRtClient.has_exclusions
  snap       \* history: for each operation, who was entitled to it when it
             \* was asked for

taskVars == <<issued, done, pc, todo, tgt, acks, snap>>
outVars  == <<queue, closed, got, listed>>
subVars  == <<subs, excl, hasExcl>>
vars == <<taskVars, outVars, subVars>>

-----------------------------------------------------------------------------

PcValues == {"idle", "deny", "retain", "deliver",
             "send", "wait", "evict", "ack", "ended"}
Codes == {"OK", "ERR_ACCESS", "ERR_NOT_REGISTERED", "ERR_NOT_DELIVERED", "EOF"}
Frame == [kind: {"message", "broadcast", "publish"}, from: Client,
          id: Nat \ {0}, code: {"-"}]
           \cup [kind: {"ack"}, from: Client, id: Nat \ {0}, code: Codes]
           \cup [kind: {"nop"}, from: Client, id: {0}, code: {"-"}]

TypeOK ==
  /\ issued \in [Client -> Seq(Op)]
  /\ done \in [Client -> Nat]
  /\ pc \in [Client -> PcValues]
  /\ todo \in [Client -> SUBSET Client]
  /\ tgt \in [Client -> Client \cup {None}]
  /\ acks \in [Client -> Seq(Codes)]
  /\ queue \in [Client -> Seq(Frame)]
  /\ \A c \in Client : Len(queue[c]) <= QueueSize
  /\ closed \subseteq Client
  /\ got \in [Client -> Seq(Frame)]
  /\ listed \subseteq Client
  /\ subs \in [Topic -> SUBSET Client]
  /\ excl \in [Client -> SUBSET Topic]
  /\ hasExcl \in [Client -> BOOLEAN]

Init ==
  /\ issued = [c \in Client |-> <<>>]
  /\ done = [c \in Client |-> 0]
  /\ pc = [c \in Client |-> "idle"]
  /\ todo = [c \in Client |-> {}]
  /\ tgt = [c \in Client |-> None]
  /\ acks = [c \in Client |-> <<>>]
  /\ queue = [c \in Client |-> <<>>]
  /\ closed = {}
  /\ got = [c \in Client |-> <<>>]
  /\ listed = Client
  /\ subs = [t \in Topic |-> {}]
  /\ excl = [c \in Client |-> {}]
  /\ hasExcl = [c \in Client |-> FALSE]
  /\ snap = [c \in Client |-> <<>>]

-----------------------------------------------------------------------------
(* Common parts *)

\* The operation that is next, or being processed.
Cur(c) == issued[c][done[c] + 1]
Id(c) == done[c] + 1
Busy(c) == done[c] < Len(issued[c])

\* mutant: the limit of the queue is off by one.
FullLate(c) == Len(queue[c]) > QueueSize
Full(c) == Len(queue[c]) >= QueueSize
Allowed(c, o, name) == <<c, o, name>> \notin Denied
TopicAt(o) == o.topics[1]

\* The frame publish!, send! and send_broadcast! build.
FrameOf(c) ==
  [kind |-> IF Cur(c).op = "publish_for" THEN "publish" ELSE Cur(c).op,
   from |-> c, id |-> Id(c), code |-> "-"]
AckOf(c, code) == [kind |-> "ack", from |-> c, id |-> Id(c), code |-> code]

Goto(c, l) == pc' = [pc EXCEPT ![c] = l]

\* drop_client, see module Registry: the client leaves every index.
Unlist(c) ==
  /\ listed' = listed \ {c}
  /\ subs' = [t \in Topic |-> subs[t] \ {c}]

-----------------------------------------------------------------------------
(* The reader takes an operation from the stream, or the owner of an       *)
(* in-process client calls it *)

\* Who is entitled to a publication at this moment, who is not, and how far
\* each client's own operations have been processed.
Entitled(o) ==
  LET t == TopicAt(o) IN
  {r \in subs[t] : t \notin excl[r] /\ (o.op = "publish_for" => primary[r] = o.to)}
Snapshot(o) ==
  IF o.op \in {"publish", "publish_for"}
  THEN [due |-> Entitled(o), barred |-> Client \ Entitled(o), seen |-> done]
  ELSE [due |-> {}, barred |-> {}, seen |-> [c \in Client |-> 0]]

Issue(c, o) ==
  /\ pc[c] = "idle" /\ ~Busy(c)
  /\ Len(issued[c]) < MaxOps[c]
  /\ issued' = [issued EXCEPT ![c] = Append(@, o)]
  /\ snap' = [snap EXCEPT ![c] = Append(@, Snapshot(o))]
  /\ UNCHANGED <<done, pc, todo, tgt, acks, outVars, subVars>>

\* handle_reader has read a frame; pings are skipped.
ReadOp(c) == c \in Conn /\ \E o \in Script[c] : Issue(c, o)

\* A method of the in-process client is called (it takes &mut self, so one
\* at a time).
Call(c) == c \in Internal /\ \E o \in Script[c] : Issue(c, o)

-----------------------------------------------------------------------------
(* The match on op in handle_reader *)

\* The operation ends with its acknowledgement, if it asked for one.  A call
\* of an in-process client returns an error in any case.
Answer(c, code) ==
  \/ /\ Cur(c).ack \/ (c \in Internal /\ code # "OK")
     /\ acks' = [acks EXCEPT ![c] = <<code>>]
     /\ Goto(c, "ack")
     /\ UNCHANGED done
  \/ /\ ~Cur(c).ack /\ (c \in Internal => code = "OK")
     /\ done' = [done EXCEPT ![c] = @ + 1]
     /\ Goto(c, "idle")
     /\ UNCHANGED acks

\* mutant: topics that are not allowed are left out silently.
TakeSubscribeSilent(c) ==
  /\ pc[c] = "idle" /\ Busy(c) /\ Cur(c).op = "subscribe"
  /\ Goto(c, "deny")
  /\ UNCHANGED <<issued, done, todo, tgt, acks, snap, outVars, subVars>>

\* The places of the topics that are not allowed.
Refused(c) ==
  {i \in 1..Len(Cur(c).topics) : ~Allowed(c, "subscribe", Cur(c).topics[i])}

\* SubscribeTopic: each topic that is not allowed is acknowledged with
\* ERR_ACCESS while the topics are read.
TakeSubscribe(c) ==
  /\ pc[c] = "idle" /\ Busy(c) /\ Cur(c).op = "subscribe"
  /\ acks' = [acks EXCEPT ![c] =
       IF Cur(c).ack
       THEN [i \in 1..Cardinality(Refused(c)) |-> "ERR_ACCESS"]
       ELSE <<>>]
  /\ Goto(c, "deny")
  /\ UNCHANGED <<issued, done, todo, tgt, snap, outVars, subVars>>

\* The topics that were allowed are subscribed to under one lock, then the
\* operation is acknowledged.  SubMap::subscribe does nothing for a client
\* that is not registered (in-process clients stay registered here).
Subscribe(c) ==
  /\ pc[c] = "deny" /\ acks[c] = <<>>
  /\ subs' = [t \in Topic |->
       IF /\ t \in ToSet(Cur(c).topics)
          /\ Allowed(c, "subscribe", t)
          /\ c \in listed
       THEN subs[t] \cup {c} ELSE subs[t]]
  /\ Answer(c, "OK")
  /\ UNCHANGED <<issued, todo, tgt, snap, outVars, excl, hasExcl>>

\* UnsubscribeTopic: under one lock.
Unsubscribe(c) ==
  /\ pc[c] = "idle" /\ Busy(c) /\ Cur(c).op = "unsubscribe"
  /\ subs' = [t \in Topic |->
       IF t \in ToSet(Cur(c).topics) THEN subs[t] \ {c} ELSE subs[t]]
  /\ Answer(c, "OK")
  /\ UNCHANGED <<issued, todo, tgt, snap, outVars, excl, hasExcl>>

\* ExcludeTopic: under the lock of the exclusions, with the flag.
Exclude(c) ==
  /\ pc[c] = "idle" /\ Busy(c) /\ Cur(c).op = "exclude"
  /\ excl' = [excl EXCEPT ![c] = @ \cup ToSet(Cur(c).topics)]
  /\ hasExcl' = [hasExcl EXCEPT ![c] = TRUE]
  /\ Answer(c, "OK")
  /\ UNCHANGED <<issued, todo, tgt, snap, outVars, subs>>

\* UnexcludeTopic: the flag is cleared only when no exclusion is left.
Unexclude(c) ==
  /\ pc[c] = "idle" /\ Busy(c) /\ Cur(c).op = "unexclude"
  /\ excl' = [excl EXCEPT ![c] = @ \ ToSet(Cur(c).topics)]
  /\ hasExcl' = [hasExcl EXCEPT ![c] = @ /\ excl'[c] # {}]
  /\ Answer(c, "OK")
  /\ UNCHANGED <<issued, todo, tgt, snap, outVars, subs>>

\* The name an operation is checked against in the access list.
Named(c) == IF Cur(c).op = "message" THEN Cur(c).to
            ELSE IF Cur(c).op = "broadcast" THEN Cur(c).mask
            ELSE TopicAt(Cur(c))
Right(c) == IF Cur(c).op = "publish_for" THEN "publish" ELSE Cur(c).op
Routed(c) == pc[c] = "idle" /\ Busy(c) /\ Cur(c).op \notin TopicOps

Refuse(c) ==
  /\ Routed(c)
  /\ ~Allowed(c, Right(c), Named(c))
  /\ Answer(c, "ERR_ACCESS")
  /\ UNCHANGED <<issued, todo, tgt, snap, outVars, subVars>>

\* send!: the receiver is looked up by its name.
LookupMissing(c) ==
  /\ Routed(c) /\ Cur(c).op = "message"
  /\ Allowed(c, Right(c), Named(c))
  /\ Cur(c).to \notin listed
  /\ Answer(c, "ERR_NOT_REGISTERED")
  /\ UNCHANGED <<issued, todo, tgt, snap, outVars, subVars>>

\* send!, send_broadcast! and publish!: the receivers, collected under the
\* lock of one index.
Receivers(c) ==
  CASE Cur(c).op = "message" -> {Cur(c).to} \cap listed
    [] Cur(c).op = "broadcast" -> Cur(c).mask \cap listed
    [] Cur(c).op = "publish" -> subs[TopicAt(Cur(c))]
    [] Cur(c).op = "publish_for" ->
         {r \in subs[TopicAt(Cur(c))] : primary[r] = Cur(c).to}

Collect(c) ==
  /\ Routed(c)
  /\ Allowed(c, Right(c), Named(c))
  /\ Cur(c).op = "message" => Cur(c).to \in listed
  /\ todo' = [todo EXCEPT ![c] = Receivers(c)]
  /\ Goto(c, IF Right(c) = "publish" THEN "retain" ELSE "deliver")
  /\ UNCHANGED <<issued, done, tgt, acks, snap, outVars, subVars>>

\* mutant: exclusions are not looked at.
RetainAll(c) ==
  /\ pc[c] = "retain"
  /\ Goto(c, "deliver")
  /\ UNCHANGED <<issued, done, todo, tgt, acks, snap, outVars, subVars>>

\* publish!: subscribers that exclude the topic are left out.
Retain(c) ==
  /\ pc[c] = "retain"
  /\ todo' = [todo EXCEPT ![c] =
       {r \in @ : ~hasExcl[r] \/ TopicAt(Cur(c)) \notin excl[r]}]
  /\ Goto(c, "deliver")
  /\ UNCHANGED <<issued, done, tgt, acks, snap, outVars, subVars>>

-----------------------------------------------------------------------------
(* safe_send_frame! *)

\* The queue is not full: tx.send(frame).await, which waits without limit if
\* another sender has filled the queue in between.
CheckRoom(c, r) ==
  /\ pc[c] = "deliver" /\ r \in todo[c]
  /\ ~Full(r)
  /\ tgt' = [tgt EXCEPT ![c] = r]
  /\ todo' = [todo EXCEPT ![c] = @ \ {r}]
  /\ Goto(c, "send")
  /\ UNCHANGED <<issued, done, acks, snap, outVars, subVars>>

\* The full queue of an in-process client: the sender waits.
CheckFull(c, r) ==
  /\ pc[c] = "deliver" /\ r \in todo[c]
  /\ Full(r) /\ r \in Internal
  /\ tgt' = [tgt EXCEPT ![c] = r]
  /\ todo' = [todo EXCEPT ![c] = @ \ {r}]
  /\ Goto(c, "wait")
  /\ UNCHANGED <<issued, done, acks, snap, outVars, subVars>>

\* What follows the attempt for one receiver: the result of send! is
\* acknowledged; those of the other macros are ignored, and their loop goes
\* on with the receivers that are left.
Served(c, left, code) ==
  \/ /\ Cur(c).op = "message"
     /\ Answer(c, code)
  \/ /\ Cur(c).op # "message" /\ left = {}
     /\ Answer(c, "OK")
  \/ /\ Cur(c).op # "message" /\ left # {}
     /\ Goto(c, "deliver")
     /\ UNCHANGED <<done, acks>>

\* The full queue of a connection: the receiver is unregistered, and
\* unregister_client waits for its announce.
Evict(c, r) ==
  /\ pc[c] = "deliver" /\ r \in todo[c]
  /\ Full(r) /\ r \in Conn
  /\ Unlist(r)
  /\ tgt' = [tgt EXCEPT ![c] = r]
  /\ todo' = [todo EXCEPT ![c] = @ \ {r}]
  /\ Goto(c, "evict")
  /\ UNCHANGED <<issued, done, acks, snap, queue, closed, got, excl, hasExcl>>

\* The announce has ended: tx.close(), and the frame is not delivered.
EvictEnd(c) ==
  /\ pc[c] = "evict"
  /\ closed' = closed \cup {tgt[c]}
  /\ tgt' = [tgt EXCEPT ![c] = None]
  /\ Served(c, todo[c], "ERR_NOT_DELIVERED")
  /\ UNCHANGED <<issued, todo, snap, queue, got, listed, subVars>>

\* mutant: a frame that does not fit is lost (try_send).
SendLossy(c) ==
  /\ pc[c] \in {"send", "wait"}
  /\ tgt[c] \notin closed
  /\ queue' = IF Full(tgt[c]) THEN queue
              ELSE [queue EXCEPT ![tgt[c]] = Append(@, FrameOf(c))]
  /\ tgt' = [tgt EXCEPT ![c] = None]
  /\ Served(c, todo[c], "OK")
  /\ UNCHANGED <<issued, todo, snap, closed, got, listed, subVars>>

\* mutant: a frame overtakes those that wait in the queue.
SendFront(c) ==
  /\ pc[c] \in {"send", "wait"}
  /\ ~Full(tgt[c]) /\ tgt[c] \notin closed
  /\ queue' = [queue EXCEPT ![tgt[c]] = <<FrameOf(c)>> \o @]
  /\ tgt' = [tgt EXCEPT ![c] = None]
  /\ Served(c, todo[c], "OK")
  /\ UNCHANGED <<issued, todo, snap, closed, got, listed, subVars>>

\* tx.send(frame).await: there is room.
Send(c) ==
  /\ pc[c] \in {"send", "wait"}
  /\ ~Full(tgt[c]) /\ tgt[c] \notin closed
  /\ queue' = [queue EXCEPT ![tgt[c]] = Append(@, FrameOf(c))]
  /\ tgt' = [tgt EXCEPT ![c] = None]
  /\ Served(c, todo[c], "OK")
  /\ UNCHANGED <<issued, todo, snap, closed, got, listed, subVars>>

\* mutant: the error of a closed queue is taken for success.
SendClosedOk(c) ==
  /\ pc[c] \in {"send", "wait"}
  /\ tgt[c] \in closed
  /\ tgt' = [tgt EXCEPT ![c] = None]
  /\ Served(c, todo[c], "OK")
  /\ UNCHANGED <<issued, todo, snap, outVars, subVars>>

\* mutant: a sender that waits on a queue is not woken when it is closed.
SendClosedNever(c) == FALSE /\ UNCHANGED vars

\* tx.send(frame).await: the queue has been closed.
SendClosed(c) ==
  /\ pc[c] \in {"send", "wait"}
  /\ tgt[c] \in closed
  /\ tgt' = [tgt EXCEPT ![c] = None]
  /\ Served(c, todo[c], "EOF")
  /\ UNCHANGED <<issued, todo, snap, outVars, subVars>>

\* A broadcast or a publication that has no receiver.
NoReceiver(c) ==
  /\ pc[c] = "deliver" /\ todo[c] = {}
  /\ Answer(c, "OK")
  /\ UNCHANGED <<issued, todo, tgt, snap, outVars, subVars>>

-----------------------------------------------------------------------------
(* Acknowledgements *)

\* The last acknowledgement of an operation ends it.
AckSent(c) ==
  /\ acks' = [acks EXCEPT ![c] = Tail(@)]
  /\ \/ /\ pc[c] = "ack"
        /\ Goto(c, "idle")
        /\ done' = [done EXCEPT ![c] = @ + 1]
     \/ /\ pc[c] = "deny"
        /\ UNCHANGED <<pc, done>>

\* send_ack!: into the queue of the client itself.
SendAck(c) ==
  /\ c \in Conn /\ acks[c] # <<>>
  /\ c \notin closed /\ ~Full(c)
  /\ queue' = [queue EXCEPT ![c] = Append(@, AckOf(c, Head(acks[c])))]
  /\ AckSent(c)
  /\ UNCHANGED <<issued, todo, tgt, snap, closed, got, listed, subVars>>

\* make_confirm_channel!: the call returns its result.
Return(c) ==
  /\ c \in Internal /\ acks[c] # <<>>
  /\ got' = [got EXCEPT ![c] = Append(@, AckOf(c, Head(acks[c])))]
  /\ AckSent(c)
  /\ UNCHANGED <<issued, todo, tgt, snap, queue, closed, listed, subVars>>

-----------------------------------------------------------------------------
(* The other branches of a connection, and the receivers *)

\* handle_writer
Write(c) ==
  /\ c \in Conn /\ pc[c] # "ended"
  /\ queue[c] # <<>>
  /\ queue' = [queue EXCEPT ![c] = Tail(@)]
  /\ got' = [got EXCEPT ![c] =
       IF Head(queue[c]).kind = "nop" THEN @ ELSE Append(@, Head(queue[c]))]
  /\ UNCHANGED <<taskVars, closed, listed, subVars>>

\* The owner of an in-process client takes a frame from its event channel.
Recv(c) ==
  /\ c \in Internal
  /\ queue[c] # <<>>
  /\ queue' = [queue EXCEPT ![c] = Tail(@)]
  /\ got' = [got EXCEPT ![c] = Append(@, Head(queue[c]))]
  /\ UNCHANGED <<taskVars, closed, listed, subVars>>

\* handle_pinger
Ping(c) ==
  /\ c \in Pinged /\ pc[c] # "ended"
  /\ ~Full(c) /\ c \notin closed
  /\ queue' = [queue EXCEPT ![c] =
       Append(@, [kind |-> "nop", from |-> c, id |-> 0, code |-> "-"])]
  /\ UNCHANGED <<taskVars, closed, got, listed, subVars>>

\* The places where a task may be suspended.
Suspended(c) == \/ pc[c] = "idle" /\ ~Busy(c)
                \/ pc[c] \in {"send", "wait", "evict"}
                \/ acks[c] # <<>>

\* A branch of select! has ended: the three futures are dropped, the queue
\* with them, and the client is unregistered.
End(c) ==
  /\ c \in Conn /\ Suspended(c)
  /\ Unlist(c)
  /\ closed' = closed \cup {c}
  /\ Goto(c, "ended")
  /\ todo' = [todo EXCEPT ![c] = {}]
  /\ tgt' = [tgt EXCEPT ![c] = None]
  /\ acks' = [acks EXCEPT ![c] = <<>>]
  /\ UNCHANGED <<issued, done, snap, queue, got, excl, hasExcl>>

\* The reader finds its queue closed; the writer has emptied a closed queue;
\* the pinger finds the queue full; the timeout of a wait for an in-process
\* client; a stream that fails, ends, or carries a broken frame.
EndAck(c)    == acks[c] # <<>> /\ c \in closed /\ End(c)
EndWriter(c) == c \in closed /\ queue[c] = <<>> /\ End(c)
EndPinger(c) == c \in Pinged /\ Full(c) /\ End(c)
EndWait(c)   == pc[c] = "wait" /\ End(c)
EndStream(c) == c \in Breaks /\ End(c)

-----------------------------------------------------------------------------

Task(c) ==
  \/ TakeSubscribe(c) \/ Subscribe(c) \/ Unsubscribe(c)
  \/ Exclude(c) \/ Unexclude(c)
  \/ Refuse(c) \/ LookupMissing(c) \/ Collect(c) \/ Retain(c)
  \/ \E r \in Client : CheckRoom(c, r) \/ CheckFull(c, r) \/ Evict(c, r)
  \/ Send(c) \/ SendClosed(c) \/ NoReceiver(c)
  \/ SendAck(c) \/ Return(c) \/ EndAck(c)

Next == \E c \in Client :
  \/ ReadOp(c) \/ Call(c)
  \/ Task(c) \/ EvictEnd(c)
  \/ Write(c) \/ Recv(c) \/ Ping(c)
  \/ EndWriter(c) \/ EndPinger(c) \/ EndWait(c) \/ EndStream(c)

Spec == Init /\ [][Next]_vars

\* A task goes on whenever it can again and again, a write ends (at the
\* latest by its timeout), and select! takes the branch of a writer that
\* ended or of a wait that took too long.  Nothing is assumed of EvictEnd,
\* as an announce has no timeout, nor of the owner of an in-process client,
\* who need not take frames from its channel.
Fairness == \A c \in Client :
  SF_vars(Task(c)) /\ WF_vars(Write(c)) /\ WF_vars(EndWriter(c)) /\ WF_vars(EndWait(c))
FairSpec == Spec /\ Fairness

-----------------------------------------------------------------------------
(* Properties *)

\* Everything the broker has put into the queue of r, delivered or not.
Stream(r) == got[r] \o queue[r]
IsFrom(f, s) == f.kind \notin {"ack", "nop"} /\ f.from = s
IsAck(f, n) == f.kind = "ack" /\ f.id = n
Has(r, s, n) == \E f \in ToSet(Stream(r)) : IsFrom(f, s) /\ f.id = n

\* The first acknowledgement of operation n, which is the one the client
\* takes, says that it was carried out.
Confirmed(c, n) ==
  \E i \in 1..Len(Stream(c)) :
    /\ IsAck(Stream(c)[i], n) /\ Stream(c)[i].code = "OK"
    /\ \A j \in 1..i-1 : ~IsAck(Stream(c)[j], n)

\* r has asked for one of ops on t after the first k of its operations.
AskedSince(r, k, ops, t) ==
  \E i \in k+1..Len(issued[r]) :
    issued[r][i].op \in ops /\ t \in ToSet(issued[r][i].topics)

\* A receiver gets the frames of one sender in the order in which the sender
\* asked for them, and none of them twice, whatever the kinds of frames
\* (safe_send_frame! called from one reader, one queue for each receiver).
InOrder ==
  \A r, s \in Client : LET fs == Stream(r) IN
    \A i, j \in 1..Len(fs) :
      i < j /\ IsFrom(fs[i], s) /\ IsFrom(fs[j], s) => fs[i].id < fs[j].id

\* When a message is confirmed, it is in the queue of its receiver, or was
\* taken from it (send! and send_ack! in handle_reader).
ConfirmedIsQueued ==
  \A s \in Client : \A n \in 1..Len(issued[s]) :
    issued[s][n].op = "message" /\ Confirmed(s, n) => Has(issued[s][n].to, s, n)

\* When a publication is confirmed, every client that was subscribed, and did
\* not exclude the topic, when it was asked for has it in its queue, unless
\* the client withdrew in the meantime or has been unregistered (publish!).
PublicationReaches ==
  \A s \in Client : \A n \in 1..Len(issued[s]) :
    issued[s][n].op \in {"publish", "publish_for"} /\ Confirmed(s, n) =>
      \A r \in snap[s][n].due :
        \/ Has(r, s, n)
        \/ r \notin listed
        \/ AskedSince(r, snap[s][n].seen[r], {"unsubscribe", "exclude"},
                      TopicAt(issued[s][n]))

\* A client that was not subscribed, or excluded the topic, or is not the
\* receiver of publish_for, when a publication was asked for does not get
\* it, unless it asked for the topic in the meantime (publish!).
OnlyEntitledReceive ==
  \A s \in Client : \A n \in 1..Len(issued[s]) :
    \A r \in snap[s][n].barred :
      Has(r, s, n) =>
        AskedSince(r, snap[s][n].seen[r], {"subscribe", "unexclude"},
                   TopicAt(issued[s][n]))

\* The first answer to a subscription, which is the one the client takes,
\* says whether it was carried out: after OK the client is subscribed to all
\* its topics, unless it withdrew later or was unregistered, and OK comes
\* first only if every topic is allowed (SubscribeTopic in handle_reader).
SubscribedWhenConfirmed ==
  \A c \in Client : \A n \in 1..Len(issued[c]) :
    issued[c][n].op = "subscribe" /\ Confirmed(c, n) =>
      \A t \in ToSet(issued[c][n].topics) :
        /\ Allowed(c, "subscribe", t)
        /\ \/ c \in subs[t]
           \/ c \notin listed
           \/ AskedSince(c, n, {"unsubscribe"}, t)

\* What the code sets no limit to: the announce of an eviction, and room in
\* the queue of an in-process client, once the sender found it not full or
\* is itself in-process.
Held(c) ==
  \/ pc[c] = "evict"
  \/ pc[c] = "send" /\ tgt[c] \in Internal
  \/ pc[c] = "wait" /\ c \in Internal

\* Unless it is held up for ever in such a place, every operation ends, and
\* its acknowledgement reaches the client, or the connection ends: no reader
\* stays blocked by the full queues of connections, its own included, nor by
\* an in-process client that takes nothing (safe_send_frame!, send_ack!,
\* handle_writer).
OpsEnd ==
  \A c \in Client : []<>~Held(c) =>
    \A n \in 1..MaxOps[c] :
      n <= Len(issued[c]) ~>
        \/ pc[c] = "ended"
        \/ /\ done[c] >= n
           /\ issued[c][n].ack => \E f \in ToSet(got[c]) : f.kind = "ack" /\ f.id = n
=============================================================================
