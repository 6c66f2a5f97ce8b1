-------------------------- MODULE DeliveryProofs --------------------------
(***************************************************************************)
(* Theorems about Delivery, for any set of clients, any script and any     *)
(* size of the queues.                                                     *)
(***************************************************************************)
EXTENDS Delivery, FiniteSetTheorems, SequenceTheorems, TLAPS

-----------------------------------------------------------------------------
(* Where each task is *)

Publish == {"publish", "publish_for"}
Sane(o) ==
  /\ o \in Op
  /\ o.op \in Publish => Len(o.topics) = 1
  /\ o.op = "message" => o.to \in Client
Snap == [due: SUBSET Client, barred: SUBSET Client, seen: [Client -> Nat]]

\* What the position of a task tells about the operation in progress, the
\* receivers left and the acknowledgements to be sent.
Stage(c) ==
  /\ done[c] <= Len(issued[c]) /\ snap[c] \in Seq(Snap) /\ Len(snap[c]) = Len(issued[c])
  /\ \A n \in 1..Len(issued[c]) : Sane(issued[c][n])
  /\ pc[c] \in {"deny", "retain", "deliver", "send", "wait", "evict", "ack"} => Busy(c)
  /\ pc[c] = "deny" => Cur(c).op = "subscribe"
  /\ pc[c] = "retain" => Cur(c).op \in Publish
  /\ pc[c] \in {"deliver", "send", "wait", "evict"} => Cur(c).op \in {"message", "broadcast"} \cup Publish
  /\ pc[c] = "deliver" /\ Cur(c).op = "message" => todo[c] = {Cur(c).to}
  /\ pc[c] \in {"send", "wait", "evict"} /\ Cur(c).op = "message" => tgt[c] = Cur(c).to
  /\ tgt[c] # None <=> pc[c] \in {"send", "wait", "evict"}
  /\ pc[c] = "evict" => tgt[c] \notin listed
  /\ tgt[c] \notin todo[c]
  /\ pc[c] = "ack" => Len(acks[c]) = 1
  /\ pc[c] = "deny" => \A i \in 1..Len(acks[c]) : acks[c][i] = "ERR_ACCESS"
  /\ pc[c] \notin {"ack", "deny"} => acks[c] = <<>>

\* A client whose queue is closed is not listed; exclusions have their flag.
Registered ==
  /\ snap \in [Client -> Seq(Snap)]
  /\ closed \cap listed = {}
  /\ \A c \in Client : excl[c] # {} => hasExcl[c]

StageInv == TypeOK /\ Registered /\ \A c \in Client : Stage(c)

\* A step of one client leaves the tasks of the others alone.
Same(x) ==
  /\ issued'[x] = issued[x] /\ done'[x] = done[x] /\ pc'[x] = pc[x] /\ todo'[x] = todo[x]
  /\ tgt'[x] = tgt[x] /\ acks'[x] = acks[x] /\ snap'[x] = snap[x]

\* A client that has left the registry does not come back.
LEMMA ListedShrinks ==
  ASSUME [Next]_vars
  PROVE  listed' \subseteq listed
<1>1. ASSUME NEW c \in Client, NEW r \in Client,
             \/ ReadOp(c) \/ Call(c) \/ TakeSubscribe(c) \/ Subscribe(c) \/ Unsubscribe(c)
             \/ Exclude(c) \/ Unexclude(c) \/ Refuse(c) \/ LookupMissing(c) \/ Collect(c) \/ Retain(c)
             \/ CheckRoom(c, r) \/ CheckFull(c, r) \/ EvictEnd(c) \/ SendClosed(c) \/ NoReceiver(c)
             \/ Send(c) \/ SendAck(c) \/ Return(c) \/ Write(c) \/ Recv(c) \/ Ping(c)
      PROVE  listed' = listed
  BY <1>1 DEF ReadOp, Call, Issue, TakeSubscribe, Subscribe, Unsubscribe, Exclude, Unexclude, Refuse,
     LookupMissing, Collect, Retain, CheckRoom, CheckFull, EvictEnd, SendClosed, NoReceiver, Send, SendAck, Return,
     Write, Recv, Ping, outVars
<1>2. ASSUME NEW c \in Client, NEW r \in Client, End(c) \/ Evict(c, r) PROVE listed' \subseteq listed
  BY <1>2 DEF End, Evict, Unlist
<1>3. CASE UNCHANGED vars
  BY <1>3 DEF vars, outVars
<1> QED BY <1>1, <1>2, <1>3 DEF Next, Task, EndAck, EndWriter, EndPinger, EndWait, EndStream

LEMMA SameStage ==
  ASSUME NEW x \in Client, Stage(x), Same(x), listed' \subseteq listed
  PROVE  Stage(x)'
  BY DEF Same, Stage, Busy, Cur

-----------------------------------------------------------------------------

LEMMA InitStageInv == Init => StageInv
<1> SUFFICES ASSUME Init PROVE StageInv
  OBVIOUS
<1>1. TypeOK
  <2>1. /\ issued \in [Client -> Seq(Op)] /\ acks \in [Client -> Seq(Codes)]
        /\ queue \in [Client -> Seq(Frame)] /\ got \in [Client -> Seq(Frame)]
        /\ \A c \in Client : Len(queue[c]) <= QueueSize
    BY BoundAssumption DEF Init
  <2>2. hasExcl \in [Client -> BOOLEAN]
    BY DEF Init
  <2>3. /\ done \in [Client -> Nat] /\ pc \in [Client -> PcValues] /\ todo \in [Client -> SUBSET Client]
        /\ tgt \in [Client -> Client \cup {None}] /\ closed \subseteq Client /\ listed \subseteq Client
        /\ subs \in [Topic -> SUBSET Client] /\ excl \in [Client -> SUBSET Topic]
    BY DEF Init, PcValues
  <2> QED BY <2>1, <2>2, <2>3 DEF TypeOK
<1>2. Registered
  BY DEF Init, Registered
<1>3. ASSUME NEW c \in Client PROVE Stage(c)
  BY <1>3, ClientAssumption DEF Init, Stage, Busy
<1> QED BY <1>1, <1>2, <1>3 DEF StageInv

\* The operation in progress is one of the script.
LEMMA CurFacts ==
  ASSUME TypeOK, NEW c \in Client, Stage(c), Busy(c)
  PROVE  /\ Sane(Cur(c)) /\ Cur(c) \in Op /\ done[c] + 1 \in 1..Len(issued[c])
         /\ Id(c) \in Nat \ {0} /\ Cur(c).op \in FrameOp /\ Cur(c).ack \in BOOLEAN
<1>1. issued[c] \in Seq(Op) /\ Len(issued[c]) \in Nat /\ done[c] \in Nat /\ done[c] < Len(issued[c])
  BY DEF TypeOK, Busy
<1>2. done[c] + 1 \in 1..Len(issued[c])
  BY <1>1
<1>3. Sane(Cur(c)) /\ Cur(c) \in Op
  BY <1>2 DEF Stage, Cur, Sane
<1> QED BY <1>1, <1>2, <1>3 DEF Id, Op

\* An operation ends, or its acknowledgement is still to be sent.
LEMMA AnswerFacts ==
  ASSUME TypeOK, NEW c \in Client, Stage(c), Busy(c), acks[c] = <<>>, pc[c] # "ended",
         NEW code \in Codes, Answer(c, code),
         issued' = issued, snap' = snap, tgt'[c] = None, tgt'[c] \notin todo'[c]
  PROVE  /\ done' \in [Client -> Nat] /\ pc' \in [Client -> PcValues] /\ acks' \in [Client -> Seq(Codes)]
         /\ \A x \in Client : x # c => done'[x] = done[x] /\ pc'[x] = pc[x] /\ acks'[x] = acks[x]
         /\ \/ pc'[c] = "ack" /\ acks'[c] = <<code>> /\ done'[c] = done[c]
            \/ pc'[c] = "idle" /\ acks'[c] = <<>> /\ done'[c] = done[c] + 1
         /\ Stage(c)'
<1>1. issued[c] \in Seq(Op) /\ Len(issued[c]) \in Nat /\ done[c] \in Nat /\ done[c] < Len(issued[c])
  BY DEF TypeOK, Busy
<1>2. CASE /\ acks' = [acks EXCEPT ![c] = <<code>>] /\ pc' = [pc EXCEPT ![c] = "ack"]
           /\ UNCHANGED done
  <2>1. <<code>> \in Seq(Codes) /\ Len(<<code>>) = 1
    OBVIOUS
  <2>2. /\ done' \in [Client -> Nat] /\ pc' \in [Client -> PcValues] /\ acks' \in [Client -> Seq(Codes)]
        /\ pc'[c] = "ack" /\ acks'[c] = <<code>> /\ done'[c] = done[c]
        /\ \A x \in Client : x # c => done'[x] = done[x] /\ pc'[x] = pc[x] /\ acks'[x] = acks[x]
    BY <1>2, <2>1 DEF TypeOK, PcValues
  <2>3. Stage(c)'
    BY <2>1, <2>2 DEF Stage, Busy
  <2> QED BY <2>2, <2>3
<1>3. CASE /\ done' = [done EXCEPT ![c] = done[c] + 1] /\ pc' = [pc EXCEPT ![c] = "idle"]
           /\ UNCHANGED acks
  <2>1. /\ done' \in [Client -> Nat] /\ pc' \in [Client -> PcValues] /\ acks' \in [Client -> Seq(Codes)]
        /\ pc'[c] = "idle" /\ acks'[c] = <<>> /\ done'[c] = done[c] + 1
        /\ \A x \in Client : x # c => done'[x] = done[x] /\ pc'[x] = pc[x] /\ acks'[x] = acks[x]
    BY <1>3 DEF TypeOK, PcValues
  <2>2. done'[c] <= Len(issued[c])
    BY <1>1, <2>1
  <2>3. Stage(c)'
    BY <2>1, <2>2 DEF Stage
  <2> QED BY <2>1, <2>3
<1> QED BY <1>2, <1>3 DEF Answer, Goto

LEMMA ServedFacts ==
  ASSUME TypeOK, NEW c \in Client, Stage(c), Busy(c), pc[c] \in {"deliver", "send", "wait", "evict"},
         NEW code \in Codes, NEW left \in SUBSET Client, Served(c, left, code),
         issued' = issued, snap' = snap, tgt'[c] = None, todo'[c] = left
  PROVE  /\ done' \in [Client -> Nat] /\ pc' \in [Client -> PcValues] /\ acks' \in [Client -> Seq(Codes)]
         /\ \A x \in Client : x # c => done'[x] = done[x] /\ pc'[x] = pc[x] /\ acks'[x] = acks[x]
         /\ \/ pc'[c] = "ack" /\ acks'[c] = <<code>> /\ done'[c] = done[c] /\ Cur(c).op = "message"
            \/ /\ pc'[c] = "ack" /\ acks'[c] = <<"OK">> /\ done'[c] = done[c]
               /\ Cur(c).op # "message" /\ left = {}
            \/ /\ pc'[c] = "idle" /\ acks'[c] = <<>> /\ done'[c] = done[c] + 1
               /\ Cur(c).op = "message" \/ left = {}
            \/ pc'[c] = "deliver" /\ acks'[c] = <<>> /\ done'[c] = done[c] /\ Cur(c).op # "message"
         /\ Stage(c)'
<1>1. acks[c] = <<>> /\ pc[c] # "ended" /\ tgt'[c] \notin todo'[c] /\ "OK" \in Codes
  BY ClientAssumption DEF Stage, Codes
<1>2. CASE Cur(c).op = "message" /\ Answer(c, code)
  BY <1>1, <1>2, AnswerFacts
<1>3. CASE Cur(c).op # "message" /\ left = {} /\ Answer(c, "OK")
  <2> DEFINE ok == "OK"
  <2>1. ok \in Codes /\ Answer(c, ok)
    BY <1>1, <1>3
  <2> HIDE DEF ok
  <2>2. /\ done' \in [Client -> Nat] /\ pc' \in [Client -> PcValues] /\ acks' \in [Client -> Seq(Codes)]
        /\ \A x \in Client : x # c => done'[x] = done[x] /\ pc'[x] = pc[x] /\ acks'[x] = acks[x]
        /\ \/ pc'[c] = "ack" /\ acks'[c] = <<ok>> /\ done'[c] = done[c]
           \/ pc'[c] = "idle" /\ acks'[c] = <<>> /\ done'[c] = done[c] + 1
        /\ Stage(c)'
    BY <1>1, <2>1, AnswerFacts
  <2> QED BY <1>3, <2>2 DEF ok
<1>4. CASE Cur(c).op # "message" /\ pc' = [pc EXCEPT ![c] = "deliver"] /\ UNCHANGED <<done, acks>>
  <2>1. /\ done' \in [Client -> Nat] /\ pc' \in [Client -> PcValues] /\ acks' \in [Client -> Seq(Codes)]
        /\ pc'[c] = "deliver" /\ acks'[c] = <<>> /\ done'[c] = done[c]
        /\ \A x \in Client : x # c => done'[x] = done[x] /\ pc'[x] = pc[x] /\ acks'[x] = acks[x]
    BY <1>1, <1>4 DEF TypeOK, PcValues
  <2>2. Stage(c)'
    BY <1>1, <1>4, <2>1 DEF Stage, Busy, Cur
  <2> QED BY <1>4, <2>1, <2>2
<1> QED BY <1>2, <1>3, <1>4 DEF Served, Goto

TaskTypes ==
  /\ issued \in [Client -> Seq(Op)] /\ done \in [Client -> Nat] /\ pc \in [Client -> PcValues]
  /\ todo \in [Client -> SUBSET Client] /\ tgt \in [Client -> Client \cup {None}]
  /\ acks \in [Client -> Seq(Codes)] /\ snap \in [Client -> Seq(Snap)]
OutTypes ==
  /\ queue \in [Client -> Seq(Frame)] /\ \A c \in Client : Len(queue[c]) <= QueueSize
  /\ closed \subseteq Client /\ got \in [Client -> Seq(Frame)] /\ listed \subseteq Client
  /\ closed \cap listed = {}
SubTypes ==
  /\ subs \in [Topic -> SUBSET Client] /\ excl \in [Client -> SUBSET Topic]
  /\ hasExcl \in [Client -> BOOLEAN] /\ \A c \in Client : excl[c] # {} => hasExcl[c]

LEMMA StageParts ==
  ASSUME StageInv
  PROVE  TaskTypes /\ OutTypes /\ SubTypes /\ TypeOK /\ \A c \in Client : Stage(c)
  BY DEF StageInv, TypeOK, Registered, TaskTypes, OutTypes, SubTypes

\* A step of c keeps the invariant when it keeps the types and the stage of c.
LEMMA StageStep ==
  ASSUME StageInv, [Next]_vars, NEW c \in Client, TaskTypes', OutTypes', SubTypes', Stage(c)',
         \A x \in Client : x # c => Same(x)
  PROVE  StageInv'
<1>1. TypeOK' /\ Registered'
  BY DEF TypeOK, Registered, TaskTypes, OutTypes, SubTypes
<1>2. ASSUME NEW x \in Client PROVE Stage(x)'
  BY <1>2, SameStage, ListedShrinks DEF StageInv
<1> QED BY <1>1, <1>2 DEF StageInv

\* A step that moves frames or serves nobody leaves every task where it is.
LEMMA StageRest ==
  ASSUME StageInv, [Next]_vars, OutTypes', UNCHANGED taskVars, UNCHANGED subVars
  PROVE  StageInv'
<1>1. TypeOK' /\ Registered'
  BY DEF StageInv, TypeOK, Registered, OutTypes, taskVars, subVars
<1>2. ASSUME NEW x \in Client PROVE Stage(x)'
  BY <1>2, SameStage, ListedShrinks DEF StageInv, Same, taskVars
<1> QED BY <1>1, <1>2 DEF StageInv

-----------------------------------------------------------------------------
(* Every step keeps the stages *)

\* The operation asked for is one of the script.
LEMMA ScriptFacts ==
  ASSUME NEW c \in Client, NEW o \in Script[c]
  PROVE  o \in Op /\ Sane(o) /\ (o.op \in Publish => TopicAt(o) \in Topic)
<1>1. o \in Op /\ Sane(o) /\ (o.op \in Publish => Len(o.topics) = 1)
  BY ScriptAssumption DEF Sane, Publish
<1>2. o.topics \in Seq(Topic)
  BY <1>1 DEF Op
<1>3. Len(o.topics) = 1 => o.topics[1] \in Topic
  BY <1>2
<1> QED BY <1>1, <1>3 DEF TopicAt

LEMMA SnapshotType ==
  ASSUME TypeOK, NEW o, o.op \in Publish => TopicAt(o) \in Topic
  PROVE  Snapshot(o) \in Snap
<1>1. CASE o.op \in Publish
  <2>1. Entitled(o) \in SUBSET Client
    BY <1>1 DEF TypeOK, Entitled
  <2> QED BY <1>1, <2>1 DEF Snapshot, Snap, TypeOK, Publish
<1>2. CASE o.op \notin Publish
  <2>1. [x \in Client |-> 0] \in [Client -> Nat]
    OBVIOUS
  <2> QED BY <1>2, <2>1 DEF Snapshot, Snap, Publish
<1> QED BY <1>1, <1>2

LEMMA StageIssue ==
  ASSUME StageInv, [Next]_vars, NEW c \in Client, NEW o \in Script[c], Issue(c, o)
  PROVE  StageInv'
<1>1. Sane(o) /\ o \in Op /\ Snapshot(o) \in Snap
  BY ScriptFacts, SnapshotType DEF StageInv
<1>2. TaskTypes /\ OutTypes /\ SubTypes /\ TypeOK /\ Stage(c)
  BY StageParts
<1>3. /\ issued' = [issued EXCEPT ![c] = Append(issued[c], o)]
      /\ snap' = [snap EXCEPT ![c] = Append(snap[c], Snapshot(o))]
      /\ UNCHANGED <<done, pc, todo, tgt, acks, outVars, subVars>> /\ pc[c] = "idle"
  BY DEF Issue
<1>4. /\ issued[c] \in Seq(Op) /\ snap[c] \in Seq(Snap)
      /\ Append(issued[c], o) \in Seq(Op) /\ Append(snap[c], Snapshot(o)) \in Seq(Snap)
      /\ Len(Append(issued[c], o)) = Len(issued[c]) + 1
      /\ Len(Append(snap[c], Snapshot(o))) = Len(snap[c]) + 1
      /\ \A n \in 1..Len(issued[c]) + 1 :
           Append(issued[c], o)[n] = IF n = Len(issued[c]) + 1 THEN o ELSE issued[c][n]
  BY <1>1, <1>2 DEF TaskTypes
<1>5. TaskTypes' /\ OutTypes' /\ SubTypes'
  BY <1>2, <1>3, <1>4 DEF TaskTypes, OutTypes, SubTypes, outVars, subVars
<1>6. \A x \in Client : x # c => Same(x)
  BY <1>3, <1>2 DEF Same, TaskTypes
<1>7. issued'[c] = Append(issued[c], o) /\ snap'[c] = Append(snap[c], Snapshot(o))
  BY <1>2, <1>3 DEF TaskTypes
<1>8. /\ done'[c] = done[c] /\ pc'[c] = "idle" /\ todo'[c] = todo[c] /\ tgt'[c] = tgt[c]
      /\ acks'[c] = acks[c] /\ done[c] \in Nat /\ Len(issued[c]) \in Nat
  BY <1>2, <1>3, <1>4 DEF TaskTypes
<1>9. \A n \in 1..Len(issued'[c]) : Sane(issued'[c][n])
  <2> TAKE n \in 1..Len(issued'[c])
  <2>1. n \in 1..Len(issued[c]) + 1
    BY <1>4, <1>7
  <2>2. n \in 1..Len(issued[c]) \/ n = Len(issued[c]) + 1
    BY <2>1, <1>8
  <2> QED BY <1>1, <1>2, <1>4, <1>7, <1>8, <2>1, <2>2 DEF Stage
<1>10. Stage(c)'
  BY <1>2, <1>3, <1>4, <1>7, <1>8, <1>9 DEF Stage
<1> QED BY <1>5, <1>6, <1>10, StageStep

\* The answer to an operation that was not delivered to anyone.
LEMMA StageAnswer ==
  ASSUME StageInv, [Next]_vars, NEW c \in Client, Busy(c), acks[c] = <<>>, pc[c] \in {"idle", "deny", "deliver"},
         NEW code \in Codes, Answer(c, code), UNCHANGED <<issued, todo, tgt, snap, outVars>>, SubTypes'
  PROVE  StageInv'
<1>1. TaskTypes /\ OutTypes /\ SubTypes /\ TypeOK /\ Stage(c)
  BY StageParts
<1>2. tgt'[c] = None /\ tgt'[c] \notin todo'[c]
  BY <1>1 DEF Stage
<1>3. /\ done' \in [Client -> Nat] /\ pc' \in [Client -> PcValues] /\ acks' \in [Client -> Seq(Codes)]
      /\ \A x \in Client : x # c => done'[x] = done[x] /\ pc'[x] = pc[x] /\ acks'[x] = acks[x]
      /\ Stage(c)'
  BY <1>1, <1>2, AnswerFacts
<1>4. TaskTypes' /\ OutTypes'
  BY <1>1, <1>3 DEF TaskTypes, OutTypes, outVars
<1>5. \A x \in Client : x # c => Same(x)
  BY <1>3 DEF Same
<1> QED BY <1>3, <1>4, <1>5, StageStep

LEMMA StageTopics ==
  ASSUME StageInv, [Next]_vars, NEW c \in Client,
         Subscribe(c) \/ Unsubscribe(c) \/ Exclude(c) \/ Unexclude(c)
  PROVE  StageInv'
<1>1. TaskTypes /\ OutTypes /\ SubTypes /\ TypeOK /\ Stage(c)
  BY StageParts
<1>2. Busy(c) /\ acks[c] = <<>> /\ pc[c] \in {"idle", "deny"}
  BY <1>1 DEF Stage, Subscribe, Unsubscribe, Exclude, Unexclude
<1>3. Cur(c).topics \in Seq(Topic)
  BY <1>1, <1>2, CurFacts DEF Op
<1>4. ToSet(Cur(c).topics) \subseteq Topic
  BY <1>3 DEF ToSet
<1>5. UNCHANGED <<issued, todo, tgt, snap, outVars>> /\ Answer(c, "OK") /\ "OK" \in Codes
  BY DEF Subscribe, Unsubscribe, Exclude, Unexclude, Codes
<1>6. SubTypes'
  <2>1. CASE Subscribe(c)
    BY <1>1, <2>1 DEF SubTypes, Subscribe
  <2>2. CASE Unsubscribe(c)
    BY <1>1, <2>2 DEF SubTypes, Unsubscribe
  <2>3. CASE Exclude(c)
    <3>1. /\ excl' = [excl EXCEPT ![c] = excl[c] \cup ToSet(Cur(c).topics)]
          /\ hasExcl' = [hasExcl EXCEPT ![c] = TRUE] /\ subs' = subs
      BY <2>3 DEF Exclude
    <3> QED BY <1>1, <1>4, <3>1 DEF SubTypes
  <2>4. CASE Unexclude(c)
    <3>1. /\ excl' = [excl EXCEPT ![c] = excl[c] \ ToSet(Cur(c).topics)] /\ subs' = subs
          /\ hasExcl' = [hasExcl EXCEPT ![c] = hasExcl[c] /\ excl'[c] # {}]
      BY <2>4 DEF Unexclude
    <3>2. subs' \in [Topic -> SUBSET Client] /\ excl' \in [Client -> SUBSET Topic]
      BY <1>1, <3>1 DEF SubTypes
    <3>3. hasExcl' \in [Client -> BOOLEAN]
      BY <1>1, <3>1, Zenon DEF SubTypes
    <3>4. ASSUME NEW x \in Client, excl'[x] # {} PROVE hasExcl'[x]
      <4>1. hasExcl'[x] = IF x = c THEN hasExcl[c] /\ excl'[c] # {} ELSE hasExcl[x]
        BY <1>1, <3>1, <3>4, Zenon DEF SubTypes
      <4>2. excl[x] # {}
        BY <1>1, <3>1, <3>4 DEF SubTypes
      <4> QED BY <1>1, <3>4, <4>1, <4>2 DEF SubTypes
    <3> QED BY <3>2, <3>3, <3>4 DEF SubTypes
  <2> QED BY <2>1, <2>2, <2>3, <2>4
<1> QED BY <1>2, <1>5, <1>6, StageAnswer

LEMMA StageTurnedDown ==
  ASSUME StageInv, [Next]_vars, NEW c \in Client, Refuse(c) \/ LookupMissing(c) \/ NoReceiver(c)
  PROVE  StageInv'
<1>1. TaskTypes /\ OutTypes /\ SubTypes /\ TypeOK /\ Stage(c)
  BY StageParts
<1>2. /\ Busy(c) /\ acks[c] = <<>> /\ pc[c] \in {"idle", "deliver"}
      /\ UNCHANGED <<issued, todo, tgt, snap, outVars>>
  BY <1>1 DEF Stage, Refuse, LookupMissing, NoReceiver, Routed
<1>3. SubTypes'
  BY <1>1 DEF SubTypes, Refuse, LookupMissing, NoReceiver, subVars
<1>4. PICK code \in Codes : Answer(c, code)
  BY DEF Refuse, LookupMissing, NoReceiver, Codes
<1> QED BY <1>2, <1>3, <1>4, StageAnswer

\* A subscription has as many refusals as topics that are not allowed.
LEMMA RefusedFacts ==
  ASSUME TypeOK, NEW c \in Client, Stage(c), Busy(c)
  PROVE  /\ IsFiniteSet(Refused(c)) /\ Cardinality(Refused(c)) \in Nat
         /\ [i \in 1..Cardinality(Refused(c)) |-> "ERR_ACCESS"] \in Seq(Codes)
         /\ Len([i \in 1..Cardinality(Refused(c)) |-> "ERR_ACCESS"]) = Cardinality(Refused(c))
         /\ Refused(c) # {} => Cardinality(Refused(c)) > 0
<1>1. Cur(c).topics \in Seq(Topic) /\ Len(Cur(c).topics) \in Nat
  BY CurFacts DEF Op
<1>2. IsFiniteSet(1..Len(Cur(c).topics)) /\ Refused(c) \subseteq 1..Len(Cur(c).topics)
  BY <1>1, FS_Interval DEF Refused
<1>3. IsFiniteSet(Refused(c)) /\ Cardinality(Refused(c)) \in Nat
  BY <1>2, FS_Subset, FS_CardinalityType
<1>4. Refused(c) # {} => Cardinality(Refused(c)) # 0
  BY <1>3, FS_EmptySet
<1> DEFINE k == Cardinality(Refused(c))
<1> HIDE DEF k
<1>5. k \in Nat => /\ [i \in 1..k |-> "ERR_ACCESS"] \in Seq(Codes)
                   /\ Len([i \in 1..k |-> "ERR_ACCESS"]) = k
  BY DEF Codes
<1> QED BY <1>3, <1>4, <1>5 DEF k

LEMMA StageTakeSubscribe ==
  ASSUME StageInv, [Next]_vars, NEW c \in Client, TakeSubscribe(c)
  PROVE  StageInv'
<1>1. TaskTypes /\ OutTypes /\ SubTypes /\ TypeOK /\ Stage(c) /\ Busy(c)
  BY StageParts DEF TakeSubscribe
<1> DEFINE refs == IF Cur(c).ack THEN [i \in 1..Cardinality(Refused(c)) |-> "ERR_ACCESS"] ELSE <<>>
<1>2. /\ acks' = [acks EXCEPT ![c] = refs] /\ pc' = [pc EXCEPT ![c] = "deny"] /\ pc[c] = "idle"
      /\ UNCHANGED <<issued, done, todo, tgt, snap, outVars, subVars>> /\ Cur(c).op = "subscribe"
  BY DEF TakeSubscribe, Goto
<1>3. refs \in Seq(Codes) /\ \A i \in 1..Len(refs) : refs[i] = "ERR_ACCESS"
  <2>1. CASE Cur(c).ack
    BY <1>1, <2>1, RefusedFacts
  <2>2. CASE ~Cur(c).ack
    BY <2>2
  <2> QED BY <2>1, <2>2
<1> HIDE DEF refs
<1>4. TaskTypes' /\ OutTypes' /\ SubTypes'
  BY <1>1, <1>2, <1>3 DEF TaskTypes, OutTypes, SubTypes, outVars, subVars, PcValues
<1>5. acks'[c] = refs /\ pc'[c] = "deny" /\ \A x \in Client : x # c => Same(x)
  BY <1>1, <1>2 DEF Same, TaskTypes
<1>6. Stage(c)'
  BY <1>1, <1>2, <1>3, <1>5 DEF Stage, Busy, Cur
<1> QED BY <1>4, <1>5, <1>6, StageStep

\* The receivers of an operation are clients; a message has the one it names.
LEMMA ReceiverFacts ==
  ASSUME TypeOK, NEW c \in Client, Stage(c), Busy(c), Cur(c).op \notin TopicOps
  PROVE  /\ Receivers(c) \in SUBSET Client
         /\ Cur(c).op = "message" /\ Cur(c).to \in listed => Receivers(c) = {Cur(c).to}
         /\ Cur(c).op \in Publish => TopicAt(Cur(c)) \in Topic
         /\ Cur(c).op \in {"message", "broadcast"} \cup Publish
<1>1. Cur(c) \in Op /\ Sane(Cur(c)) /\ Cur(c).op \in FrameOp
  BY CurFacts
<1>2. Cur(c).op \in Publish => TopicAt(Cur(c)) \in Topic
  <2>1. Cur(c).topics \in Seq(Topic)
    BY <1>1 DEF Op
  <2> QED BY <1>1, <2>1 DEF Sane, TopicAt
<1>3. Cur(c).op \in {"message", "broadcast"} \cup Publish
  BY <1>1 DEF FrameOp, Publish
<1>4. CASE Cur(c).op = "message"
  BY <1>2, <1>4 DEF Receivers, TypeOK, Publish
<1>5. CASE Cur(c).op = "broadcast"
  BY <1>2, <1>5 DEF Receivers, TypeOK, Publish
<1>6. CASE Cur(c).op = "publish"
  BY <1>2, <1>6 DEF Receivers, TypeOK, Publish
<1>7. CASE Cur(c).op = "publish_for"
  BY <1>2, <1>7 DEF Receivers, TypeOK, Publish
<1> QED BY <1>3, <1>4, <1>5, <1>6, <1>7 DEF Publish

LEMMA StageCollect ==
  ASSUME StageInv, [Next]_vars, NEW c \in Client, Collect(c)
  PROVE  StageInv'
<1>1. TaskTypes /\ OutTypes /\ SubTypes /\ TypeOK /\ Stage(c) /\ Busy(c)
  BY StageParts DEF Collect, Routed
<1>2. /\ todo' = [todo EXCEPT ![c] = Receivers(c)] /\ pc[c] = "idle" /\ Cur(c).op \notin TopicOps
      /\ UNCHANGED <<issued, done, tgt, acks, snap, outVars, subVars>>
      /\ Cur(c).op = "message" => Cur(c).to \in listed
  BY DEF Collect, Routed
<1>3. \/ Cur(c).op \in Publish /\ pc' = [pc EXCEPT ![c] = "retain"]
      \/ Cur(c).op \notin Publish /\ pc' = [pc EXCEPT ![c] = "deliver"]
  BY DEF Collect, Goto, Right, Publish
<1>4. /\ Receivers(c) \in SUBSET Client /\ (Cur(c).op = "message" => Receivers(c) = {Cur(c).to})
      /\ Cur(c).op \in {"message", "broadcast"} \cup Publish
  BY <1>1, <1>2, ReceiverFacts
<1>5. TaskTypes' /\ OutTypes' /\ SubTypes'
  BY <1>1, <1>2, <1>3, <1>4 DEF TaskTypes, OutTypes, SubTypes, outVars, subVars, PcValues
<1>6. todo'[c] = Receivers(c) /\ \A x \in Client : x # c => Same(x)
  BY <1>1, <1>2, <1>3 DEF Same, TaskTypes
<1>7. \/ Cur(c).op \in Publish /\ pc'[c] = "retain"
      \/ Cur(c).op \notin Publish /\ pc'[c] = "deliver"
  BY <1>1, <1>3 DEF TaskTypes
<1>8. tgt[c] = None /\ tgt[c] \notin Receivers(c)
  BY <1>1, <1>2, <1>4, ClientAssumption DEF Stage
<1>9. Stage(c)'
  BY <1>1, <1>2, <1>4, <1>6, <1>7, <1>8 DEF Stage, Busy, Cur
<1> QED BY <1>5, <1>6, <1>9, StageStep

LEMMA StageRetain ==
  ASSUME StageInv, [Next]_vars, NEW c \in Client, Retain(c)
  PROVE  StageInv'
<1>1. TaskTypes /\ OutTypes /\ SubTypes /\ TypeOK /\ Stage(c)
  BY StageParts
<1> DEFINE kept == {r \in todo[c] : ~hasExcl[r] \/ TopicAt(Cur(c)) \notin excl[r]}
<1>2. /\ todo' = [todo EXCEPT ![c] = kept] /\ pc[c] = "retain" /\ pc' = [pc EXCEPT ![c] = "deliver"]
      /\ UNCHANGED <<issued, done, tgt, acks, snap, outVars, subVars>>
  BY DEF Retain, Goto
<1>3. kept \subseteq todo[c]
  OBVIOUS
<1> HIDE DEF kept
<1>4. TaskTypes' /\ OutTypes' /\ SubTypes'
  BY <1>1, <1>2, <1>3 DEF TaskTypes, OutTypes, SubTypes, outVars, subVars, PcValues
<1>5. todo'[c] = kept /\ pc'[c] = "deliver" /\ \A x \in Client : x # c => Same(x)
  BY <1>1, <1>2 DEF Same, TaskTypes
<1>6. Stage(c)'
  BY <1>1, <1>2, <1>3, <1>5 DEF Stage, Busy, Cur, Publish
<1> QED BY <1>4, <1>5, <1>6, StageStep

LEMMA StageCheck ==
  ASSUME StageInv, [Next]_vars, NEW c \in Client, NEW r \in Client, CheckRoom(c, r) \/ CheckFull(c, r)
  PROVE  StageInv'
<1>1. TaskTypes /\ OutTypes /\ SubTypes /\ TypeOK /\ Stage(c)
  BY StageParts
<1>2. /\ tgt' = [tgt EXCEPT ![c] = r] /\ todo' = [todo EXCEPT ![c] = todo[c] \ {r}]
      /\ UNCHANGED <<issued, done, acks, snap, outVars, subVars>> /\ pc[c] = "deliver" /\ r \in todo[c]
  BY DEF CheckRoom, CheckFull
<1>3. PICK l \in {"send", "wait"} : pc' = [pc EXCEPT ![c] = l]
  BY DEF CheckRoom, CheckFull, Goto
<1>4. TaskTypes' /\ OutTypes' /\ SubTypes'
  BY <1>1, <1>2, <1>3 DEF TaskTypes, OutTypes, SubTypes, outVars, subVars, PcValues
<1>5. /\ todo'[c] = todo[c] \ {r} /\ tgt'[c] = r /\ pc'[c] = l /\ r # None
      /\ \A x \in Client : x # c => Same(x)
  BY <1>1, <1>2, <1>3, ClientAssumption DEF Same, TaskTypes
<1>6. Stage(c)'
  BY <1>1, <1>2, <1>5 DEF Stage, Busy, Cur
<1> QED BY <1>4, <1>5, <1>6, StageStep

LEMMA StageEvict ==
  ASSUME StageInv, [Next]_vars, NEW c \in Client, NEW r \in Client, Evict(c, r)
  PROVE  StageInv'
<1>1. TaskTypes /\ OutTypes /\ SubTypes /\ TypeOK /\ Stage(c)
  BY StageParts
<1>2. /\ tgt' = [tgt EXCEPT ![c] = r] /\ todo' = [todo EXCEPT ![c] = todo[c] \ {r}]
      /\ pc' = [pc EXCEPT ![c] = "evict"] /\ pc[c] = "deliver" /\ r \in todo[c]
      /\ listed' = listed \ {r} /\ subs' = [t \in Topic |-> subs[t] \ {r}]
      /\ UNCHANGED <<issued, done, acks, snap, queue, closed, got, excl, hasExcl>>
  BY DEF Evict, Unlist, Goto
<1>3. TaskTypes' /\ OutTypes'
  BY <1>1, <1>2 DEF TaskTypes, OutTypes, PcValues
<1>4. SubTypes'
  BY <1>1, <1>2 DEF SubTypes
<1>5. /\ todo'[c] = todo[c] \ {r} /\ tgt'[c] = r /\ pc'[c] = "evict" /\ r # None /\ r \notin listed'
      /\ \A x \in Client : x # c => Same(x)
  BY <1>1, <1>2, ClientAssumption DEF Same, TaskTypes
<1>6. Stage(c)'
  BY <1>1, <1>2, <1>5 DEF Stage, Busy, Cur
<1> QED BY <1>3, <1>4, <1>5, <1>6, StageStep

\* The frame a task puts into a queue.
LEMMA FrameFacts ==
  ASSUME TypeOK, NEW c \in Client, Stage(c), pc[c] \in {"deliver", "send", "wait", "evict"}
  PROVE  /\ FrameOf(c) \in Frame /\ FrameOf(c).from = c /\ FrameOf(c).id = done[c] + 1
         /\ FrameOf(c).kind \notin {"ack", "nop"}
<1>1. Busy(c) /\ Cur(c).op \in {"message", "broadcast"} \cup Publish
  BY DEF Stage
<1>2. Id(c) \in Nat \ {0}
  BY <1>1, CurFacts
<1> DEFINE k == IF Cur(c).op = "publish_for" THEN "publish" ELSE Cur(c).op
<1>3. k \in {"message", "broadcast", "publish"}
  BY <1>1 DEF Publish
<1>4. FrameOf(c) = [kind |-> k, from |-> c, id |-> Id(c), code |-> "-"]
  BY DEF FrameOf
<1> HIDE DEF k
<1> QED BY <1>2, <1>3, <1>4 DEF Frame, Id

\* What Append adds to the frames of a sequence.
LEMMA AppendSet ==
  ASSUME NEW q \in Seq(Frame), NEW f \in Frame
  PROVE  ToSet(Append(q, f)) = ToSet(q) \cup {f}
<1> DEFINE p == Append(q, f)
<1>1. /\ p \in Seq(Frame) /\ Len(q) \in Nat /\ Len(p) = Len(q) + 1 /\ p[Len(q) + 1] = f
      /\ \A i \in 1..Len(q) : p[i] = q[i]
  OBVIOUS
<1>2. DOMAIN p = 1..Len(q) + 1 /\ DOMAIN q = 1..Len(q)
  BY <1>1
<1> HIDE DEF p
<1>3. ASSUME NEW x \in ToSet(p) PROVE x \in ToSet(q) \cup {f}
  <2>1. PICK i \in 1..Len(q) + 1 : x = p[i]
    BY <1>2 DEF ToSet
  <2> QED BY <1>1, <1>2, <2>1 DEF ToSet
<1>4. ASSUME NEW x \in ToSet(q) PROVE x \in ToSet(p)
  <2>1. PICK i \in 1..Len(q) : x = q[i]
    BY <1>2 DEF ToSet
  <2> QED BY <1>1, <1>2, <2>1 DEF ToSet
<1>5. f \in ToSet(p)
  <2>1. Len(q) + 1 \in DOMAIN p
    BY <1>1, <1>2
  <2> QED BY <1>1, <2>1 DEF ToSet
<1>6. ToSet(p) = ToSet(q) \cup {f}
  BY <1>3, <1>4, <1>5
<1> QED BY <1>6 DEF p

\* There is room in the queue of x for a frame.
LEMMA PutFacts ==
  ASSUME OutTypes, NEW x \in Client, NEW f \in Frame, ~Full(x),
         queue' = [queue EXCEPT ![x] = Append(queue[x], f)], UNCHANGED <<closed, got, listed>>
  PROVE  OutTypes' /\ queue'[x] = Append(queue[x], f) /\ ToSet(queue'[x]) = ToSet(queue[x]) \cup {f}
<1>1. queue[x] \in Seq(Frame) /\ Len(queue[x]) \in Nat /\ Len(queue[x]) < QueueSize
  BY BoundAssumption DEF OutTypes, Full
<1>2. Append(queue[x], f) \in Seq(Frame) /\ Len(Append(queue[x], f)) <= QueueSize
  BY <1>1, BoundAssumption
<1>3. queue'[x] = Append(queue[x], f) /\ queue' \in [Client -> Seq(Frame)]
  BY <1>2 DEF OutTypes
<1>4. \A y \in Client : Len(queue'[y]) <= QueueSize
  BY <1>2, <1>3 DEF OutTypes
<1>5. ToSet(Append(queue[x], f)) = ToSet(queue[x]) \cup {f}
  BY <1>1, AppendSet
<1> QED BY <1>3, <1>4, <1>5 DEF OutTypes

LEMMA StageServed ==
  ASSUME StageInv, [Next]_vars, NEW c \in Client, EvictEnd(c) \/ Send(c) \/ SendClosed(c)
  PROVE  StageInv'
<1>1. TaskTypes /\ OutTypes /\ SubTypes /\ TypeOK /\ Stage(c)
  BY StageParts
<1>2. Busy(c) /\ pc[c] \in {"deliver", "send", "wait", "evict"}
  BY <1>1 DEF EvictEnd, Send, SendClosed, Stage
<1>3. /\ issued' = issued /\ snap' = snap /\ todo' \in [Client -> SUBSET Client]
      /\ tgt' \in [Client -> Client \cup {None}] /\ tgt'[c] = None
      /\ \A x \in Client : x # c => todo'[x] = todo[x] /\ tgt'[x] = tgt[x]
      /\ SubTypes'
      /\ \E code \in Codes : Served(c, todo'[c], code)
  <2>1. /\ tgt' = [tgt EXCEPT ![c] = None] /\ UNCHANGED <<issued, todo, snap, subVars>>
        /\ \/ Served(c, todo[c], "OK") \/ Served(c, todo[c], "EOF")
           \/ Served(c, todo[c], "ERR_NOT_DELIVERED")
    BY DEF EvictEnd, Send, SendClosed
  <2>2. SubTypes'
    BY <1>1, <2>1 DEF SubTypes, subVars
  <2>3. "OK" \in Codes /\ "EOF" \in Codes /\ "ERR_NOT_DELIVERED" \in Codes
    BY DEF Codes
  <2> QED BY <1>1, <2>1, <2>2, <2>3 DEF TaskTypes
<1>4. OutTypes'
  <2>1. CASE EvictEnd(c)
    <3>1. tgt[c] \in Client /\ tgt[c] \notin listed
      BY <1>1, <2>1 DEF EvictEnd, Stage, TaskTypes
    <3> QED BY <1>1, <2>1, <3>1 DEF EvictEnd, OutTypes
  <2>2. CASE Send(c)
    <3>1. pc[c] \in {"send", "wait"} /\ tgt[c] \in Client
      BY <1>1, <2>2 DEF Send, Stage, TaskTypes
    <3>2. FrameOf(c) \in Frame
      BY <1>1, <1>2, FrameFacts
    <3> QED BY <1>1, <2>2, <3>1, <3>2, PutFacts DEF Send
  <2>3. CASE SendClosed(c)
    BY <1>1, <2>3 DEF SendClosed, outVars, OutTypes
  <2> QED BY <2>1, <2>2, <2>3
<1>5. PICK code \in Codes : Served(c, todo'[c], code)
  BY <1>3
<1>6. todo'[c] \in SUBSET Client
  BY <1>3
<1>7. /\ done' \in [Client -> Nat] /\ pc' \in [Client -> PcValues] /\ acks' \in [Client -> Seq(Codes)]
      /\ \A x \in Client : x # c => done'[x] = done[x] /\ pc'[x] = pc[x] /\ acks'[x] = acks[x]
      /\ Stage(c)'
  BY <1>1, <1>2, <1>3, <1>5, <1>6, ServedFacts
<1>8. TaskTypes' /\ \A x \in Client : x # c => Same(x)
  BY <1>1, <1>3, <1>7 DEF TaskTypes, Same
<1> QED BY <1>3, <1>4, <1>7, <1>8, StageStep

\* An acknowledgement has been sent: the last one ends the operation.
LEMMA AckSentFacts ==
  ASSUME TaskTypes, NEW c \in Client, Stage(c), acks[c] # <<>>, AckSent(c),
         UNCHANGED <<issued, todo, tgt, snap>>
  PROVE  /\ TaskTypes' /\ Stage(c)' /\ (\A x \in Client : x # c => Same(x))
         /\ acks'[c] = Tail(acks[c]) /\ acks[c] \in Seq(Codes) /\ Len(acks[c]) > 0 /\ Busy(c)
         /\ \/ pc[c] = "ack" /\ pc'[c] = "idle" /\ done'[c] = done[c] + 1 /\ Len(acks[c]) = 1
            \/ pc[c] = "deny" /\ pc'[c] = "deny" /\ done'[c] = done[c]
<1>1. /\ acks[c] \in Seq(Codes) /\ Len(acks[c]) > 0 /\ Tail(acks[c]) \in Seq(Codes)
      /\ Len(Tail(acks[c])) = Len(acks[c]) - 1 /\ Len(acks[c]) \in Nat
      /\ \A i \in 1..Len(Tail(acks[c])) : Tail(acks[c])[i] = acks[c][i + 1]
  BY DEF TaskTypes
<1>2. acks' = [acks EXCEPT ![c] = Tail(acks[c])]
  BY DEF AckSent
<1>3. CASE pc[c] = "ack" /\ pc' = [pc EXCEPT ![c] = "idle"] /\ done' = [done EXCEPT ![c] = done[c] + 1]
  <2>1. TaskTypes' /\ \A x \in Client : x # c => Same(x)
    BY <1>1, <1>2, <1>3 DEF TaskTypes, Same, PcValues
  <2>2. /\ acks'[c] = Tail(acks[c]) /\ pc'[c] = "idle" /\ done'[c] = done[c] + 1
        /\ Len(acks[c]) = 1 /\ done[c] < Len(issued[c]) /\ done[c] \in Nat /\ Len(issued[c]) \in Nat
    BY <1>1, <1>2, <1>3 DEF TaskTypes, Stage, Busy
  <2>3. acks'[c] = <<>>
    <3>1. Len(Tail(acks[c])) = 0
      BY <1>1, <2>2
    <3>2. Tail(acks[c]) = <<>>
      BY <1>1, <3>1, EmptySeq
    <3> QED BY <2>2, <3>2
  <2>4. done'[c] <= Len(issued'[c])
    BY <2>2
  <2>5. Stage(c)'
    BY <1>3, <2>2, <2>3, <2>4 DEF Stage
  <2> QED BY <1>1, <1>3, <2>1, <2>2, <2>5 DEF Busy
<1>4. CASE pc[c] = "deny" /\ UNCHANGED <<pc, done>>
  <2>1. TaskTypes' /\ \A x \in Client : x # c => Same(x)
    BY <1>1, <1>2, <1>4 DEF TaskTypes, Same
  <2>2. acks'[c] = Tail(acks[c])
    BY <1>2 DEF TaskTypes
  <2>3. \A i \in 1..Len(acks'[c]) : acks'[c][i] = "ERR_ACCESS"
    <3> TAKE i \in 1..Len(acks'[c])
    <3>1. i + 1 \in 1..Len(acks[c]) /\ acks'[c][i] = acks[c][i + 1]
      BY <1>1, <2>2
    <3> QED BY <1>4, <3>1 DEF Stage
  <2>4. Stage(c)'
    BY <1>4, <2>2, <2>3 DEF Stage, Busy, Cur
  <2> QED BY <1>1, <1>4, <2>1, <2>2, <2>4 DEF Stage
<1> QED BY <1>3, <1>4 DEF AckSent, Goto

LEMMA AckFrame ==
  ASSUME TypeOK, NEW c \in Client, Stage(c), acks[c] # <<>>, pc[c] \in {"ack", "deny"}
  PROVE  /\ Head(acks[c]) \in Codes /\ AckOf(c, Head(acks[c])) \in Frame
         /\ Head(acks[c]) = acks[c][1] /\ 1 \in 1..Len(acks[c])
<1>1. acks[c] \in Seq(Codes) /\ Busy(c)
  BY DEF TypeOK, Stage
<1>2. Head(acks[c]) \in Codes /\ Head(acks[c]) = acks[c][1] /\ 1 \in 1..Len(acks[c])
  BY <1>1
<1>3. Id(c) \in Nat \ {0}
  BY <1>1, CurFacts
<1> QED BY <1>2, <1>3 DEF AckOf, Frame

LEMMA StageAckSent ==
  ASSUME StageInv, [Next]_vars, NEW c \in Client, SendAck(c) \/ Return(c)
  PROVE  StageInv'
<1>1. TaskTypes /\ OutTypes /\ SubTypes /\ TypeOK /\ Stage(c)
  BY StageParts
<1>2. acks[c] # <<>> /\ AckSent(c) /\ UNCHANGED <<issued, todo, tgt, snap, subVars>> /\ pc[c] \in {"ack", "deny"}
  BY DEF SendAck, Return, AckSent
<1>3. TaskTypes' /\ Stage(c)' /\ \A x \in Client : x # c => Same(x)
  BY <1>1, <1>2, AckSentFacts
<1> DEFINE f == AckOf(c, Head(acks[c]))
<1>4. f \in Frame
  BY <1>1, <1>2, AckFrame
<1> HIDE DEF f
<1>5. OutTypes'
  <2>1. CASE SendAck(c)
    <3>1. /\ ~Full(c) /\ queue' = [queue EXCEPT ![c] = Append(queue[c], f)]
          /\ UNCHANGED <<closed, got, listed>>
      BY <2>1 DEF SendAck, f
    <3> QED BY <1>1, <1>4, <3>1, PutFacts
  <2>2. CASE Return(c)
    <3>1. got' = [got EXCEPT ![c] = Append(got[c], f)] /\ UNCHANGED <<queue, closed, listed>>
      BY <2>2 DEF Return, f
    <3>2. Append(got[c], f) \in Seq(Frame)
      BY <1>1, <1>4 DEF OutTypes
    <3> QED BY <1>1, <3>1, <3>2 DEF OutTypes
  <2> QED BY <2>1, <2>2
<1>6. SubTypes'
  BY <1>1, <1>2 DEF SubTypes, subVars
<1> QED BY <1>3, <1>5, <1>6, StageStep

LEMMA StageStream ==
  ASSUME StageInv, [Next]_vars, NEW c \in Client, Write(c) \/ Recv(c) \/ Ping(c)
  PROVE  StageInv'
<1>1. TaskTypes /\ OutTypes /\ SubTypes /\ TypeOK
  BY StageParts
<1>2. UNCHANGED taskVars /\ UNCHANGED subVars
  BY DEF Write, Recv, Ping
<1>3. CASE Write(c) \/ Recv(c)
  <2>1. /\ queue[c] # <<>> /\ queue' = [queue EXCEPT ![c] = Tail(queue[c])] /\ UNCHANGED <<closed, listed>>
        /\ \/ got' = [got EXCEPT ![c] = got[c]]
           \/ got' = [got EXCEPT ![c] = Append(got[c], Head(queue[c]))]
    BY <1>3 DEF Write, Recv
  <2>2. queue[c] \in Seq(Frame) /\ Len(queue[c]) \in Nat /\ Len(queue[c]) <= QueueSize
    BY <1>1 DEF OutTypes
  <2>3. /\ Tail(queue[c]) \in Seq(Frame) /\ Len(Tail(queue[c])) = Len(queue[c]) - 1
        /\ Head(queue[c]) \in Frame
    BY <2>1, <2>2
  <2>4. Append(got[c], Head(queue[c])) \in Seq(Frame)
    BY <1>1, <2>3 DEF OutTypes
  <2>5. Len(Tail(queue[c])) <= QueueSize
    BY <2>2, <2>3, BoundAssumption
  <2>6. OutTypes'
    BY <1>1, <2>1, <2>3, <2>4, <2>5 DEF OutTypes
  <2> QED BY <1>2, <2>6, StageRest
<1>4. CASE Ping(c)
  <2> DEFINE f == [kind |-> "nop", from |-> c, id |-> 0, code |-> "-"]
  <2>1. f \in Frame
    BY DEF Frame
  <2> HIDE DEF f
  <2>2. ~Full(c) /\ queue' = [queue EXCEPT ![c] = Append(queue[c], f)] /\ UNCHANGED <<closed, got, listed>>
    BY <1>4 DEF Ping, f
  <2>3. OutTypes'
    BY <1>1, <2>1, <2>2, PutFacts
  <2> QED BY <1>2, <2>3, StageRest
<1> QED BY <1>3, <1>4

LEMMA StageEnd ==
  ASSUME StageInv, [Next]_vars, NEW c \in Client, End(c)
  PROVE  StageInv'
<1>1. TaskTypes /\ OutTypes /\ SubTypes /\ TypeOK /\ Stage(c)
  BY StageParts
<1>2. /\ listed' = listed \ {c} /\ subs' = [t \in Topic |-> subs[t] \ {c}] /\ closed' = closed \cup {c}
      /\ pc' = [pc EXCEPT ![c] = "ended"] /\ todo' = [todo EXCEPT ![c] = {}]
      /\ tgt' = [tgt EXCEPT ![c] = None] /\ acks' = [acks EXCEPT ![c] = <<>>]
      /\ UNCHANGED <<issued, done, snap, queue, got, excl, hasExcl>>
  BY DEF End, Unlist, Goto
<1>3. <<>> \in Seq(Codes)
  OBVIOUS
<1>4. TaskTypes'
  BY <1>1, <1>2, <1>3 DEF TaskTypes, PcValues
<1>5. OutTypes' /\ SubTypes'
  BY <1>1, <1>2 DEF OutTypes, SubTypes
<1>6. /\ pc'[c] = "ended" /\ todo'[c] = {} /\ tgt'[c] = None /\ acks'[c] = <<>>
      /\ \A x \in Client : x # c => Same(x)
  BY <1>1, <1>2 DEF TaskTypes, Same
<1>7. Stage(c)'
  BY <1>1, <1>2, <1>6 DEF Stage
<1> QED BY <1>4, <1>5, <1>6, <1>7, StageStep

LEMMA NextStageInv == StageInv /\ [Next]_vars => StageInv'
<1> SUFFICES ASSUME StageInv, [Next]_vars PROVE StageInv'
  OBVIOUS
<1>1. CASE UNCHANGED vars
  <2>1. UNCHANGED taskVars /\ UNCHANGED subVars /\ UNCHANGED outVars
    BY <1>1 DEF vars
  <2>2. OutTypes'
    BY <2>1, StageParts DEF OutTypes, outVars
  <2> QED BY <2>1, <2>2, StageRest
<1>2. ASSUME NEW c \in Client, ReadOp(c) \/ Call(c) PROVE StageInv'
  BY <1>2, StageIssue DEF ReadOp, Call
<1>3. ASSUME NEW c \in Client, Task(c) PROVE StageInv'
  BY <1>3, StageTakeSubscribe, StageTopics, StageTurnedDown, StageCollect, StageRetain, StageCheck,
     StageEvict, StageServed, StageAckSent, StageEnd DEF Task, EndAck
<1>4. ASSUME NEW c \in Client,
             \/ EvictEnd(c) \/ Write(c) \/ Recv(c) \/ Ping(c)
             \/ EndWriter(c) \/ EndPinger(c) \/ EndWait(c) \/ EndStream(c)
      PROVE  StageInv'
  BY <1>4, StageServed, StageStream, StageEnd DEF EndWriter, EndPinger, EndWait, EndStream
<1> QED BY <1>1, <1>2, <1>3, <1>4 DEF Next

LEMMA StageInvTrue == Spec => []StageInv
  BY InitStageInv, NextStageInv, PTL DEF Spec

\* Every state of the delivery of frames has its type: above all, no queue
\* ever holds more frames than its capacity, whatever the senders that have
\* found room in it at the same time (safe_send_frame!, send_ack!,
\* handle_pinger).
THEOREM DeliveryTypes == Spec => []TypeOK
  BY StageInvTrue, PTL DEF StageInv

-----------------------------------------------------------------------------
(* What a step does to the streams and to the operations asked for *)

\* All that was put into the queue of r, in no order.
In(r) == ToSet(got[r]) \cup ToSet(queue[r])

\* The frames of a step: none is lost, and a new one is a frame of the task
\* that sends it, an acknowledgement of its own, or a ping.
Puts(r, f) ==
  \E c \in Client :
    \/ Send(c) /\ r = tgt[c] /\ f = FrameOf(c)
    \/ (SendAck(c) \/ Return(c)) /\ r = c /\ f = AckOf(c, Head(acks[c]))
Flow(r) ==
  /\ \A f \in In(r) : f.kind # "nop" => f \in In(r)'
  /\ \A f \in In(r)' : f \in In(r) \/ f.kind = "nop" \/ Puts(r, f)

LEMMA FlowKept ==
  ASSUME NEW r, got'[r] = got[r], queue'[r] = queue[r]
  PROVE  Flow(r)
  BY DEF Flow, In, ToSet

LEMMA FlowPut ==
  ASSUME OutTypes, NEW x \in Client, NEW f \in Frame, ~Full(x), f.kind = "nop" \/ Puts(x, f),
         queue' = [queue EXCEPT ![x] = Append(queue[x], f)], UNCHANGED <<closed, got, listed>>
  PROVE  \A r \in Client : Flow(r)
<1>1. ToSet(queue'[x]) = ToSet(queue[x]) \cup {f}
  BY PutFacts
<1>2. Flow(x)
  BY <1>1 DEF Flow, In, ToSet
<1>3. \A r \in Client : r # x => Flow(r)
  BY FlowKept DEF OutTypes
<1> QED BY <1>2, <1>3

\* A frame at the head of a queue is taken by the writer or the owner.
LEMMA MoveFacts ==
  ASSUME OutTypes, NEW c \in Client, Write(c) \/ Recv(c)
  PROVE  /\ queue[c] \in Seq(Frame) /\ got[c] \in Seq(Frame) /\ queue[c] # <<>>
         /\ Head(queue[c]) \in Frame /\ queue'[c] = Tail(queue[c])
         /\ \/ got'[c] = got[c] /\ Head(queue[c]).kind = "nop"
            \/ got'[c] = Append(got[c], Head(queue[c]))
         /\ \A r \in Client : r # c => got'[r] = got[r] /\ queue'[r] = queue[r]
         /\ ToSet(queue[c]) = {Head(queue[c])} \cup ToSet(Tail(queue[c]))
         /\ ToSet(Append(got[c], Head(queue[c]))) = ToSet(got[c]) \cup {Head(queue[c])}
<1>1. queue[c] \in Seq(Frame) /\ got[c] \in Seq(Frame) /\ queue[c] # <<>>
  BY DEF OutTypes, Write, Recv
<1>2. /\ queue'[c] = Tail(queue[c])
      /\ \A r \in Client : r # c => got'[r] = got[r] /\ queue'[r] = queue[r]
      /\ \/ got'[c] = got[c] /\ Head(queue[c]).kind = "nop"
         \/ got'[c] = Append(got[c], Head(queue[c]))
  BY DEF OutTypes, Write, Recv
<1>3. Head(queue[c]) \in Frame
  BY <1>1
<1>4. ToSet(queue[c]) = {Head(queue[c])} \cup ToSet(Tail(queue[c]))
  <2>1. ASSUME NEW f \in ToSet(queue[c]) PROVE f \in {Head(queue[c])} \cup ToSet(Tail(queue[c]))
    <3>1. PICK i \in 1..Len(queue[c]) : f = queue[c][i]
      BY <2>1 DEF ToSet
    <3>2. CASE i = 1
      BY <1>1, <3>1, <3>2
    <3>3. CASE i # 1
      <4> DEFINE q == Tail(queue[c])
                 k == i - 1
      <4>1. k \in 1..Len(q) /\ q[k] = f
        BY <1>1, <3>1, <3>3
      <4> HIDE DEF q, k
      <4>2. f \in ToSet(q)
        BY <4>1 DEF ToSet
      <4> QED BY <4>2 DEF q
    <3> QED BY <3>2, <3>3
  <2>2. ASSUME NEW f \in ToSet(Tail(queue[c])) PROVE f \in ToSet(queue[c])
    <3>1. PICK i \in 1..Len(Tail(queue[c])) : f = Tail(queue[c])[i]
      BY <2>2 DEF ToSet
    <3>2. i + 1 \in 1..Len(queue[c]) /\ Tail(queue[c])[i] = queue[c][i + 1]
      BY <1>1, <3>1
    <3> QED BY <3>1, <3>2 DEF ToSet
  <2>3. Head(queue[c]) \in ToSet(queue[c])
    <3>1. 1 \in 1..Len(queue[c]) /\ Head(queue[c]) = queue[c][1]
      BY <1>1
    <3> QED BY <3>1 DEF ToSet
  <2> QED BY <2>1, <2>2, <2>3
<1>5. ToSet(Append(got[c], Head(queue[c]))) = ToSet(got[c]) \cup {Head(queue[c])}
  BY <1>1, <1>3, AppendSet
<1> QED BY <1>1, <1>2, <1>3, <1>4, <1>5

LEMMA StepFlow ==
  ASSUME StageInv, [Next]_vars
  PROVE  \A r \in Client : Flow(r)
<1>1. TaskTypes /\ OutTypes /\ TypeOK /\ \A c \in Client : Stage(c)
  BY StageParts
<1>2. CASE UNCHANGED <<got, queue>>
  BY <1>2, FlowKept
<1>3. ASSUME NEW c \in Client, Send(c) PROVE \A r \in Client : Flow(r)
  <2>1. pc[c] \in {"send", "wait"} /\ tgt[c] \in Client
    BY <1>1, <1>3 DEF Send, Stage, TaskTypes
  <2>2. FrameOf(c) \in Frame /\ Puts(tgt[c], FrameOf(c))
    BY <1>1, <1>3, <2>1, FrameFacts DEF Puts
  <2> QED BY <1>1, <1>3, <2>1, <2>2, FlowPut DEF Send
<1>4. ASSUME NEW c \in Client, SendAck(c) PROVE \A r \in Client : Flow(r)
  <2>1. acks[c] # <<>> /\ pc[c] \in {"ack", "deny"}
    BY <1>4 DEF SendAck, AckSent
  <2>2. AckOf(c, Head(acks[c])) \in Frame /\ Puts(c, AckOf(c, Head(acks[c])))
    BY <1>1, <1>4, <2>1, AckFrame DEF Puts
  <2> QED BY <1>1, <1>4, <2>2, FlowPut DEF SendAck
<1>5. ASSUME NEW c \in Client, Return(c) PROVE \A r \in Client : Flow(r)
  <2> DEFINE f == AckOf(c, Head(acks[c]))
  <2>1. acks[c] # <<>> /\ pc[c] \in {"ack", "deny"}
    BY <1>5 DEF Return, AckSent
  <2>2. f \in Frame /\ Puts(c, f)
    BY <1>1, <1>5, <2>1, AckFrame DEF Puts
  <2>3. got' = [got EXCEPT ![c] = Append(got[c], f)] /\ UNCHANGED queue
    BY <1>5 DEF Return
  <2> HIDE DEF f
  <2>4. ToSet(got'[c]) = ToSet(got[c]) \cup {f}
    BY <1>1, <2>2, <2>3, AppendSet DEF OutTypes
  <2>5. Flow(c)
    BY <2>2, <2>3, <2>4 DEF Flow, In, ToSet
  <2>6. \A r \in Client : r # c => Flow(r)
    BY <1>1, <2>3, FlowKept DEF OutTypes
  <2> QED BY <2>5, <2>6
<1>6. ASSUME NEW c \in Client, Write(c) \/ Recv(c) PROVE \A r \in Client : Flow(r)
  <2>1. \A r \in Client : r # c => Flow(r)
    BY <1>1, <1>6, MoveFacts, FlowKept
  <2>2. \/ In(c)' = In(c)
        \/ Head(queue[c]).kind = "nop" /\ In(c)' \subseteq In(c) /\ In(c) \subseteq In(c)' \cup {Head(queue[c])}
    BY <1>1, <1>6, MoveFacts DEF In
  <2>3. Flow(c)
    BY <2>2 DEF Flow
  <2> QED BY <2>1, <2>3
<1>7. ASSUME NEW c \in Client, Ping(c) PROVE \A r \in Client : Flow(r)
  <2> DEFINE f == [kind |-> "nop", from |-> c, id |-> 0, code |-> "-"]
  <2>1. f \in Frame /\ f.kind = "nop"
    BY DEF Frame
  <2> HIDE DEF f
  <2>2. ~Full(c) /\ queue' = [queue EXCEPT ![c] = Append(queue[c], f)] /\ UNCHANGED <<closed, got, listed>>
    BY <1>7 DEF Ping, f
  <2> QED BY <1>1, <2>1, <2>2, FlowPut
<1>8. ASSUME NEW c \in Client, NEW r \in Client,
             \/ ReadOp(c) \/ Call(c) \/ TakeSubscribe(c) \/ Subscribe(c) \/ Unsubscribe(c)
             \/ Exclude(c) \/ Unexclude(c) \/ Refuse(c) \/ LookupMissing(c) \/ Collect(c) \/ Retain(c)
             \/ CheckRoom(c, r) \/ CheckFull(c, r) \/ Evict(c, r) \/ EvictEnd(c)
             \/ SendClosed(c) \/ NoReceiver(c) \/ End(c)
      PROVE  UNCHANGED <<got, queue>>
  BY <1>8 DEF ReadOp, Call, Issue, TakeSubscribe, Subscribe, Unsubscribe, Exclude, Unexclude, Refuse,
     LookupMissing, Collect, Retain, CheckRoom, CheckFull, Evict, EvictEnd, SendClosed, NoReceiver,
     End, outVars
<1>9. CASE UNCHANGED vars
  BY <1>2, <1>9 DEF vars, outVars
<1> QED BY <1>2, <1>3, <1>4, <1>5, <1>6, <1>7, <1>8, <1>9
        DEF Next, Task, EndAck, EndWriter, EndPinger, EndWait, EndStream

\* The steps of the task of c.
Acts(c) ==
  \/ \E o \in Script[c] : Issue(c, o)
  \/ TakeSubscribe(c) \/ Subscribe(c) \/ Unsubscribe(c) \/ Exclude(c) \/ Unexclude(c)
  \/ Refuse(c) \/ LookupMissing(c) \/ NoReceiver(c) \/ Collect(c) \/ Retain(c)
  \/ \E r \in Client : CheckRoom(c, r) \/ CheckFull(c, r) \/ Evict(c, r)
  \/ EvictEnd(c) \/ Send(c) \/ SendClosed(c) \/ SendAck(c) \/ Return(c) \/ End(c)

LEMMA OthersRest ==
  ASSUME TaskTypes, NEW c \in Client, Acts(c), NEW x \in Client, x # c
  PROVE  Same(x)
<1>1. ASSUME NEW code, Answer(c, code) PROVE done'[x] = done[x] /\ pc'[x] = pc[x] /\ acks'[x] = acks[x]
  BY <1>1 DEF Answer, Goto, TaskTypes
<1>2. ASSUME NEW left, NEW code, Served(c, left, code)
      PROVE  done'[x] = done[x] /\ pc'[x] = pc[x] /\ acks'[x] = acks[x]
  BY <1>1, <1>2 DEF Served, Goto, TaskTypes
<1>3. CASE \E o \in Script[c] : Issue(c, o)
  BY <1>3 DEF Issue, Same, TaskTypes
<1>4. CASE TakeSubscribe(c)
  BY <1>4 DEF TakeSubscribe, Goto, Same, TaskTypes
<1>5. CASE \/ Subscribe(c) \/ Unsubscribe(c) \/ Exclude(c) \/ Unexclude(c)
           \/ Refuse(c) \/ LookupMissing(c) \/ NoReceiver(c)
  <2>1. UNCHANGED <<issued, todo, tgt, snap>> /\ \E code \in Codes : Answer(c, code)
    BY <1>5 DEF Subscribe, Unsubscribe, Exclude, Unexclude, Refuse, LookupMissing, NoReceiver, Codes
  <2> QED BY <1>1, <2>1 DEF Same
<1>6. CASE Collect(c) \/ Retain(c)
  BY <1>6 DEF Collect, Retain, Goto, Same, TaskTypes
<1>7. CASE \E r \in Client : CheckRoom(c, r) \/ CheckFull(c, r) \/ Evict(c, r)
  BY <1>7 DEF CheckRoom, CheckFull, Evict, Goto, Same, TaskTypes
<1>8. CASE EvictEnd(c) \/ Send(c) \/ SendClosed(c)
  <2>1. /\ UNCHANGED <<issued, snap>> /\ todo'[x] = todo[x] /\ tgt'[x] = tgt[x]
        /\ \E left \in SUBSET Client, code \in Codes : Served(c, left, code)
    BY <1>8 DEF EvictEnd, Send, SendClosed, Codes, TaskTypes
  <2> QED BY <1>2, <2>1 DEF Same
<1>9. CASE SendAck(c) \/ Return(c)
  BY <1>9 DEF SendAck, Return, AckSent, Goto, Same, TaskTypes
<1>10. CASE End(c)
  BY <1>10 DEF End, Goto, Same, TaskTypes
<1> QED BY <1>3, <1>4, <1>5, <1>6, <1>7, <1>8, <1>9, <1>10 DEF Acts

\* Either the task of s makes the step, or it stays where it is.
LEMMA WhoActs ==
  ASSUME StageInv, [Next]_vars, NEW s \in Client
  PROVE  Same(s) \/ Acts(s)
<1>1. TaskTypes
  BY StageParts
<1>2. CASE UNCHANGED taskVars
  BY <1>2 DEF Same, taskVars
<1>3. ASSUME NEW c \in Client, Acts(c) PROVE Same(s) \/ Acts(s)
  BY <1>1, <1>3, OthersRest
<1>4. ASSUME NEW c \in Client, Write(c) \/ Recv(c) \/ Ping(c) PROVE UNCHANGED taskVars
  BY <1>4 DEF Write, Recv, Ping
<1>5. CASE UNCHANGED vars
  BY <1>2, <1>5 DEF vars
<1>6. ASSUME NEW c \in Client, ReadOp(c) \/ Call(c) \/ Task(c) \/ EvictEnd(c) \/ EndWriter(c) \/ EndPinger(c)
                                \/ EndWait(c) \/ EndStream(c)
      PROVE  Acts(c)
  BY <1>6 DEF ReadOp, Call, Task, EndAck, EndWriter, EndPinger, EndWait, EndStream, Acts
<1> QED BY <1>2, <1>3, <1>4, <1>5, <1>6 DEF Next

\* No operation asked for is forgotten or changed.
Grows(s) ==
  \A n \in 1..Len(issued[s]) :
    n \in 1..Len(issued'[s]) /\ issued'[s][n] = issued[s][n] /\ snap'[s][n] = snap[s][n]

LEMMA StepGrows ==
  ASSUME StageInv, [Next]_vars, NEW s \in Client
  PROVE  Grows(s)
<1>1. TaskTypes /\ TypeOK /\ Stage(s)
  BY StageParts
<1>2. CASE issued'[s] = issued[s] /\ snap'[s] = snap[s]
  BY <1>2 DEF Grows
<1>3. ASSUME NEW o \in Script[s], Issue(s, o) PROVE Grows(s)
  <2>1. issued'[s] = Append(issued[s], o) /\ snap'[s] = Append(snap[s], Snapshot(o))
    BY <1>1, <1>3 DEF Issue, TaskTypes
  <2>2. o \in Op /\ Snapshot(o) \in Snap /\ issued[s] \in Seq(Op) /\ snap[s] \in Seq(Snap)
    BY <1>1, ScriptFacts, SnapshotType DEF TaskTypes
  <2>3. Len(issued[s]) = Len(snap[s])
    BY <1>1 DEF Stage
  <2> HIDE DEF TaskTypes
  <2> QED BY <2>1, <2>2, <2>3 DEF Grows
<1>4. CASE Acts(s) /\ ~(\E o \in Script[s] : Issue(s, o))
  <2>1. UNCHANGED <<issued, snap>>
    BY <1>4 DEF Acts, TakeSubscribe, Subscribe, Unsubscribe, Exclude, Unexclude, Refuse, LookupMissing,
       NoReceiver, Collect, Retain, CheckRoom, CheckFull, Evict, EvictEnd, Send, SendClosed, SendAck, Return, End
  <2> QED BY <1>2, <2>1
<1>5. CASE Same(s)
  BY <1>2, <1>5 DEF Same
<1> QED BY <1>3, <1>4, <1>5, WhoActs

-----------------------------------------------------------------------------
(* The frames of one sender arrive in order *)

\* The operation in progress of s has been tried for r.
Reached(s, r) ==
  \/ pc[s] \in {"ack", "ended"}
  \/ pc[s] \in {"deliver", "send", "wait", "evict"} /\ r \notin todo[s] /\ r # tgt[s]

\* Frames of s belong to finished operations, or to the one in progress when
\* the receiver has been served.
Past(s) ==
  \A r \in Client : \A f \in In(r) :
    IsFrom(f, s) => f.id <= done[s] \/ (f.id = done[s] + 1 /\ Reached(s, r))

LEMMA SendFacts ==
  ASSUME StageInv, NEW c \in Client, Send(c)
  PROVE  /\ pc[c] \in {"send", "wait"} /\ tgt[c] \in Client /\ tgt[c] \notin todo[c] /\ Busy(c)
         /\ todo'[c] = todo[c] /\ tgt'[c] = None /\ done[c] \in Nat
         /\ FrameOf(c) \in Frame /\ FrameOf(c).id = done[c] + 1 /\ FrameOf(c).from = c
         /\ FrameOf(c).kind \notin {"ack", "nop"}
         /\ \/ pc'[c] = "ack" /\ acks'[c] = <<"OK">> /\ done'[c] = done[c]
            \/ pc'[c] = "idle" /\ acks'[c] = <<>> /\ done'[c] = done[c] + 1
            \/ pc'[c] = "deliver" /\ acks'[c] = <<>> /\ done'[c] = done[c] /\ Cur(c).op # "message"
<1>1. TaskTypes /\ OutTypes /\ TypeOK /\ Stage(c)
  BY StageParts
<1>2. /\ pc[c] \in {"send", "wait"} /\ tgt[c] \in Client /\ tgt[c] \notin todo[c] /\ Busy(c)
      /\ todo' = todo /\ tgt'[c] = None /\ issued' = issued /\ snap' = snap /\ done[c] \in Nat
      /\ Served(c, todo[c], "OK") /\ todo[c] \in SUBSET Client
  BY <1>1 DEF Send, Stage, TaskTypes
<1> DEFINE ok == "OK"
<1>3. ok \in Codes /\ Served(c, todo[c], ok) /\ pc[c] \in {"deliver", "send", "wait", "evict"}
  BY <1>2 DEF Codes
<1> HIDE DEF ok
<1>4. \/ pc'[c] = "ack" /\ acks'[c] = <<ok>> /\ done'[c] = done[c]
      \/ pc'[c] = "ack" /\ acks'[c] = <<"OK">> /\ done'[c] = done[c]
      \/ pc'[c] = "idle" /\ acks'[c] = <<>> /\ done'[c] = done[c] + 1
      \/ pc'[c] = "deliver" /\ acks'[c] = <<>> /\ done'[c] = done[c] /\ Cur(c).op # "message"
  BY <1>1, <1>2, <1>3, ServedFacts
<1>5. /\ FrameOf(c) \in Frame /\ FrameOf(c).id = done[c] + 1 /\ FrameOf(c).from = c
      /\ FrameOf(c).kind \notin {"ack", "nop"}
  BY <1>1, <1>3, FrameFacts
<1> QED BY <1>2, <1>4, <1>5 DEF ok

\* A task serves on, or finishes one operation.
LEMMA Advance ==
  ASSUME StageInv, [Next]_vars, NEW s \in Client
  PROVE  \/ done'[s] = done[s] /\ \A r \in Client : Reached(s, r) => Reached(s, r)'
         \/ done'[s] = done[s] + 1
<1>1. TaskTypes /\ OutTypes /\ TypeOK /\ Stage(s)
  BY StageParts
<1>2. CASE Same(s)
  BY <1>2 DEF Same, Reached
<1>3. CASE (\E o \in Script[s] : Issue(s, o)) \/ TakeSubscribe(s) \/ Collect(s) \/ Retain(s)
  BY <1>3 DEF Issue, TakeSubscribe, Collect, Routed, Retain, Reached
<1>4. CASE \/ Subscribe(s) \/ Unsubscribe(s) \/ Exclude(s) \/ Unexclude(s)
           \/ Refuse(s) \/ LookupMissing(s) \/ NoReceiver(s)
  <2>1. PICK code \in Codes : Answer(s, code)
    BY <1>4 DEF Subscribe, Unsubscribe, Exclude, Unexclude, Refuse, LookupMissing, NoReceiver, Codes
  <2>2. \/ pc'[s] = "ack" /\ done'[s] = done[s]
        \/ done'[s] = done[s] + 1
    BY <1>1, <2>1 DEF Answer, Goto, TaskTypes
  <2> QED BY <2>2 DEF Reached
<1>5. ASSUME NEW r \in Client, CheckRoom(s, r) \/ CheckFull(s, r) \/ Evict(s, r)
      PROVE  done'[s] = done[s] /\ \A x \in Client : Reached(s, x) => Reached(s, x)'
  <2>1. /\ pc[s] = "deliver" /\ pc'[s] \in {"send", "wait", "evict"} /\ r \in todo[s]
        /\ todo'[s] = todo[s] \ {r} /\ tgt'[s] = r /\ done' = done
    BY <1>1, <1>5 DEF CheckRoom, CheckFull, Evict, Goto, TaskTypes
  <2> QED BY <2>1 DEF Reached
<1>6. ASSUME EvictEnd(s) \/ Send(s) \/ SendClosed(s)
      PROVE  \/ done'[s] = done[s] /\ \A x \in Client : Reached(s, x) => Reached(s, x)'
             \/ done'[s] = done[s] + 1
  <2>1. /\ pc[s] \in {"deliver", "send", "wait", "evict"} /\ todo'[s] \subseteq todo[s]
        /\ tgt'[s] = None \/ tgt'[s] = tgt[s]
    BY <1>1, <1>6 DEF EvictEnd, Send, SendClosed, TaskTypes
  <2>2. \E left \in SUBSET Client, code \in Codes : Served(s, left, code)
    BY <1>1, <1>6 DEF EvictEnd, Send, SendClosed, Codes, TaskTypes
  <2>3. \/ pc'[s] \in {"ack", "deliver"} /\ done'[s] = done[s]
        \/ done'[s] = done[s] + 1
    BY <1>1, <2>2 DEF Served, Answer, Goto, TaskTypes
  <2> QED BY <2>1, <2>3, ClientAssumption DEF Reached
<1>7. CASE SendAck(s) \/ Return(s)
  <2>1. \/ done'[s] = done[s] /\ pc[s] = "deny"
        \/ done'[s] = done[s] + 1
    BY <1>1, <1>7 DEF SendAck, Return, AckSent, TaskTypes
  <2> QED BY <2>1 DEF Reached
<1>8. CASE End(s)
  BY <1>1, <1>8 DEF End, Goto, TaskTypes, Reached
<1> QED BY <1>2, <1>3, <1>4, <1>5, <1>6, <1>7, <1>8, WhoActs DEF Acts

LEMMA NextPast ==
  ASSUME StageInv, [Next]_vars, NEW s \in Client, Past(s)
  PROVE  Past(s)'
<1> SUFFICES ASSUME NEW r \in Client, NEW f \in In(r)', IsFrom(f, s)
             PROVE  f.id <= done'[s] \/ (f.id = done'[s] + 1 /\ Reached(s, r)')
  BY DEF Past, IsFrom
<1>1. OutTypes /\ TaskTypes /\ OutTypes'
  BY StageParts, NextStageInv DEF OutTypes, StageInv, TypeOK, Registered
<1>2. done[s] \in Nat /\ f \in Frame
  <2>1. done[s] \in Nat
    BY <1>1 DEF TaskTypes
  <2>2. got'[r] \in Seq(Frame) /\ queue'[r] \in Seq(Frame)
    BY <1>1 DEF OutTypes
  <2>3. f \in ToSet(got'[r]) \/ f \in ToSet(queue'[r])
    BY DEF In, ToSet
  <2>4. (\E i \in DOMAIN got'[r] : f = got'[r][i]) \/ (\E i \in DOMAIN queue'[r] : f = queue'[r][i])
    BY <2>3 DEF ToSet
  <2> QED BY <2>1, <2>2, <2>4
<1>3. f.id \in Nat
  BY <1>2 DEF Frame
<1>4. CASE f \in In(r)
  <2>1. f.id <= done[s] \/ (f.id = done[s] + 1 /\ Reached(s, r))
    BY <1>4 DEF Past
  <2> QED BY <1>2, <1>3, <2>1, Advance
<1>5. CASE f \notin In(r)
  <2>1. Puts(r, f)
    BY <1>5, StepFlow DEF Flow, IsFrom
  <2>2. PICK c \in Client : Send(c) /\ r = tgt[c] /\ f = FrameOf(c)
    BY <2>1 DEF Puts, IsFrom, AckOf
  <2>3. c = s
    BY <2>2, SendFacts DEF IsFrom
  <2>4. f.id = done[s] + 1
    BY <2>2, <2>3, SendFacts
  <2>5. done'[s] = done[s] + 1 \/ (done'[s] = done[s] /\ Reached(s, r)')
    BY <2>2, <2>3, SendFacts, ClientAssumption DEF Reached
  <2> QED BY <1>2, <1>3, <2>4, <2>5
<1> QED BY <1>4, <1>5

\* The order within what was received, within the queue, and between them.
Rising(q, s) ==
  \A i, j \in 1..Len(q) : i < j /\ IsFrom(q[i], s) /\ IsFrom(q[j], s) => q[i].id < q[j].id
Before(F, G, s) ==
  \A f \in F : \A g \in G : IsFrom(f, s) /\ IsFrom(g, s) => f.id < g.id
Ordered(r, s) ==
  Rising(got[r], s) /\ Rising(queue[r], s) /\ Before(ToSet(got[r]), ToSet(queue[r]), s)

LEMMA RisingAppend ==
  ASSUME NEW q \in Seq(Frame), NEW f \in Frame, NEW s, Rising(q, s), Before(ToSet(q), {f}, s)
  PROVE  Rising(Append(q, f), s)
<1> DEFINE p == Append(q, f)
<1>1. /\ Len(q) \in Nat /\ Len(p) = Len(q) + 1 /\ p[Len(q) + 1] = f
      /\ \A i \in 1..Len(q) : p[i] = q[i] /\ q[i] \in ToSet(q)
  BY DEF ToSet
<1> HIDE DEF p
<1>2. ASSUME NEW i \in 1..Len(p), NEW j \in 1..Len(p), i < j, IsFrom(p[i], s), IsFrom(p[j], s)
      PROVE  p[i].id < p[j].id
  <2>1. i \in 1..Len(q)
    BY <1>1, <1>2
  <2>2. CASE j \in 1..Len(q)
    BY <1>1, <1>2, <2>1, <2>2 DEF Rising
  <2>3. CASE j = Len(q) + 1
    BY <1>1, <1>2, <2>1, <2>3 DEF Before
  <2> QED BY <1>1, <2>2, <2>3
<1> QED BY <1>2 DEF Rising, p

LEMMA RisingTail ==
  ASSUME NEW q \in Seq(Frame), q # <<>>, NEW s, Rising(q, s)
  PROVE  Rising(Tail(q), s) /\ Before({Head(q)}, ToSet(Tail(q)), s)
<1> DEFINE p == Tail(q)
<1>1. /\ Len(q) \in Nat /\ Len(q) > 0 /\ Len(p) = Len(q) - 1 /\ Head(q) = q[1]
      /\ \A i \in 1..Len(p) : p[i] = q[i + 1]
  OBVIOUS
<1> HIDE DEF p
<1>2. ASSUME NEW i \in 1..Len(p), NEW j \in 1..Len(p), i < j, IsFrom(p[i], s), IsFrom(p[j], s)
      PROVE  p[i].id < p[j].id
  <2>1. i + 1 \in 1..Len(q) /\ j + 1 \in 1..Len(q) /\ i + 1 < j + 1
    BY <1>1, <1>2
  <2> QED BY <1>1, <1>2, <2>1 DEF Rising
<1>3. ASSUME NEW g \in ToSet(p), IsFrom(Head(q), s), IsFrom(g, s) PROVE Head(q).id < g.id
  <2>1. PICK i \in 1..Len(p) : g = p[i]
    BY <1>3 DEF ToSet
  <2>2. i + 1 \in 1..Len(q) /\ 1 \in 1..Len(q) /\ 1 < i + 1
    BY <1>1, <2>1
  <2> QED BY <1>1, <1>3, <2>1, <2>2 DEF Rising
<1> QED BY <1>2, <1>3 DEF Rising, Before, p

\* A frame is put into the queue of x.
LEMMA OrderedPut ==
  ASSUME OutTypes, NEW x \in Client, NEW f \in Frame, ~Full(x),
         queue' = [queue EXCEPT ![x] = Append(queue[x], f)], UNCHANGED <<closed, got, listed>>,
         NEW s \in Client, \A r \in Client : Ordered(r, s), Before(In(x), {f}, s)
  PROVE  \A r \in Client : Ordered(r, s)'
<1>1. /\ queue'[x] = Append(queue[x], f) /\ ToSet(queue'[x]) = ToSet(queue[x]) \cup {f}
      /\ queue[x] \in Seq(Frame)
  BY PutFacts DEF OutTypes
<1>2. Rising(Append(queue[x], f), s)
  BY <1>1, RisingAppend DEF Ordered, In, Before
<1>3. Before(ToSet(got[x]), ToSet(queue[x]) \cup {f}, s)
  BY DEF Ordered, In, Before
<1>4. Ordered(x, s)'
  BY <1>1, <1>2, <1>3 DEF Ordered
<1>5. ASSUME NEW r \in Client, r # x PROVE Ordered(r, s)'
  <2>1. queue'[r] = queue[r] /\ got'[r] = got[r]
    BY <1>5 DEF OutTypes
  <2> QED BY <2>1 DEF Ordered
<1> QED BY <1>4, <1>5

LEMMA NextOrdered ==
  ASSUME StageInv, [Next]_vars, NEW s \in Client, Past(s), \A r \in Client : Ordered(r, s)
  PROVE  \A r \in Client : Ordered(r, s)'
<1>1. TaskTypes /\ OutTypes /\ TypeOK /\ \A c \in Client : Stage(c)
  BY StageParts
<1>2. CASE UNCHANGED <<got, queue>>
  BY <1>2 DEF Ordered
<1>3. ASSUME NEW c \in Client, Send(c) PROVE \A r \in Client : Ordered(r, s)'
  <2>1. /\ ~Full(tgt[c]) /\ queue' = [queue EXCEPT ![tgt[c]] = Append(queue[tgt[c]], FrameOf(c))]
        /\ UNCHANGED <<closed, got, listed>>
    BY <1>3 DEF Send
  <2>2. ASSUME NEW g \in In(tgt[c]), IsFrom(g, s), IsFrom(FrameOf(c), s) PROVE g.id < FrameOf(c).id
    <3>1. c = s /\ FrameOf(c).id = done[s] + 1 /\ pc[s] \in {"send", "wait"} /\ tgt[c] \in Client
      BY <1>3, <2>2, SendFacts DEF IsFrom
    <3>2. g \in Frame /\ done[s] \in Nat
      BY <1>1, <2>2, <3>1 DEF In, ToSet, OutTypes, TaskTypes
    <3>3. g.id \in Nat
      BY <3>2 DEF Frame
    <3>4. g.id <= done[s]
      BY <2>2, <3>1 DEF Past, Reached
    <3> QED BY <3>1, <3>2, <3>3, <3>4
  <2>3. Before(In(tgt[c]), {FrameOf(c)}, s)
    BY <2>2 DEF Before
  <2> QED BY <1>1, <1>3, <2>1, <2>3, OrderedPut, SendFacts
<1>4. ASSUME NEW c \in Client, NEW f \in Frame, f.kind \in {"ack", "nop"}, ~Full(c),
             queue' = [queue EXCEPT ![c] = Append(queue[c], f)], UNCHANGED <<closed, got, listed>>
      PROVE  \A r \in Client : Ordered(r, s)'
  <2>1. Before(In(c), {f}, s)
    BY <1>4 DEF Before, IsFrom
  <2> QED BY <1>1, <1>4, <2>1, OrderedPut
<1>5. ASSUME NEW c \in Client, SendAck(c) PROVE \A r \in Client : Ordered(r, s)'
  <2>1. acks[c] # <<>> /\ pc[c] \in {"ack", "deny"}
    BY <1>5 DEF SendAck, AckSent
  <2>2. AckOf(c, Head(acks[c])) \in Frame /\ AckOf(c, Head(acks[c])).kind = "ack"
    BY <1>1, <2>1, AckFrame DEF AckOf
  <2> QED BY <1>4, <1>5, <2>2 DEF SendAck
<1>6. ASSUME NEW c \in Client, Ping(c) PROVE \A r \in Client : Ordered(r, s)'
  <2> DEFINE f == [kind |-> "nop", from |-> c, id |-> 0, code |-> "-"]
  <2>1. f \in Frame /\ f.kind = "nop"
    BY DEF Frame
  <2>2. ~Full(c) /\ queue' = [queue EXCEPT ![c] = Append(queue[c], f)] /\ UNCHANGED <<closed, got, listed>>
    BY <1>6 DEF Ping
  <2> HIDE DEF f
  <2> QED BY <1>4, <2>1, <2>2
<1>7. ASSUME NEW c \in Client, Return(c) PROVE \A r \in Client : Ordered(r, s)'
  <2> DEFINE f == AckOf(c, Head(acks[c]))
  <2>1. acks[c] # <<>> /\ pc[c] \in {"ack", "deny"}
    BY <1>7 DEF Return, AckSent
  <2>2. f \in Frame /\ ~IsFrom(f, s)
    BY <1>1, <2>1, AckFrame DEF IsFrom, AckOf
  <2>3. got' = [got EXCEPT ![c] = Append(got[c], f)] /\ UNCHANGED queue
    BY <1>7 DEF Return
  <2> HIDE DEF f
  <2>4. got[c] \in Seq(Frame) /\ got'[c] = Append(got[c], f)
    BY <1>1, <2>3 DEF OutTypes
  <2>5. ToSet(got'[c]) = ToSet(got[c]) \cup {f}
    BY <2>2, <2>4, AppendSet
  <2>6. Rising(got'[c], s)
    BY <2>2, <2>4, RisingAppend DEF Ordered, Before
  <2>7. Before(ToSet(got'[c]), ToSet(queue'[c]), s)
    BY <2>2, <2>3, <2>5 DEF Ordered, Before
  <2>8. Ordered(c, s)'
    BY <2>3, <2>6, <2>7 DEF Ordered
  <2>9. ASSUME NEW r \in Client, r # c PROVE Ordered(r, s)'
    <3>1. got'[r] = got[r] /\ queue'[r] = queue[r]
      BY <1>1, <2>3, <2>9 DEF OutTypes
    <3> QED BY <3>1 DEF Ordered
  <2> QED BY <2>8, <2>9
<1>8. ASSUME NEW c \in Client, Write(c) \/ Recv(c) PROVE \A r \in Client : Ordered(r, s)'
  <2>1. /\ queue[c] \in Seq(Frame) /\ got[c] \in Seq(Frame) /\ queue[c] # <<>>
        /\ Head(queue[c]) \in Frame /\ queue'[c] = Tail(queue[c])
        /\ \/ got'[c] = got[c] /\ Head(queue[c]).kind = "nop"
           \/ got'[c] = Append(got[c], Head(queue[c]))
        /\ \A r \in Client : r # c => got'[r] = got[r] /\ queue'[r] = queue[r]
        /\ ToSet(queue[c]) = {Head(queue[c])} \cup ToSet(Tail(queue[c]))
        /\ ToSet(Append(got[c], Head(queue[c]))) = ToSet(got[c]) \cup {Head(queue[c])}
    BY <1>1, <1>8, MoveFacts
  <2>2. Rising(Tail(queue[c]), s) /\ Before({Head(queue[c])}, ToSet(Tail(queue[c])), s)
    BY <2>1, RisingTail DEF Ordered
  <2>3. Rising(Append(got[c], Head(queue[c])), s)
    BY <2>1, RisingAppend DEF Ordered, Before
  <2>4. Before(ToSet(got[c]) \cup {Head(queue[c])}, ToSet(Tail(queue[c])), s)
    BY <2>1, <2>2 DEF Ordered, Before
  <2>5. Before(ToSet(got[c]), ToSet(Tail(queue[c])), s)
    BY <2>4 DEF Before
  <2>6. Ordered(c, s)'
    BY <2>1, <2>2, <2>3, <2>4, <2>5 DEF Ordered
  <2>7. \A r \in Client : r # c => Ordered(r, s)'
    BY <2>1 DEF Ordered
  <2> QED BY <2>6, <2>7
<1>9. ASSUME NEW c \in Client, NEW r \in Client,
             \/ ReadOp(c) \/ Call(c) \/ TakeSubscribe(c) \/ Subscribe(c) \/ Unsubscribe(c)
             \/ Exclude(c) \/ Unexclude(c) \/ Refuse(c) \/ LookupMissing(c) \/ Collect(c) \/ Retain(c)
             \/ CheckRoom(c, r) \/ CheckFull(c, r) \/ Evict(c, r) \/ EvictEnd(c)
             \/ SendClosed(c) \/ NoReceiver(c) \/ End(c)
      PROVE  UNCHANGED <<got, queue>>
  BY <1>9 DEF ReadOp, Call, Issue, TakeSubscribe, Subscribe, Unsubscribe, Exclude, Unexclude, Refuse,
     LookupMissing, Collect, Retain, CheckRoom, CheckFull, Evict, EvictEnd, SendClosed, NoReceiver,
     End, outVars
<1>10. CASE UNCHANGED vars
  BY <1>2, <1>10 DEF vars, outVars
<1> QED BY <1>2, <1>3, <1>5, <1>6, <1>7, <1>8, <1>9, <1>10
        DEF Next, Task, EndAck, EndWriter, EndPinger, EndWait, EndStream

OrderInv == StageInv /\ \A s \in Client : Past(s) /\ \A r \in Client : Ordered(r, s)

LEMMA InitOrderInv == Init => OrderInv
<1> SUFFICES ASSUME Init PROVE OrderInv
  OBVIOUS
<1>1. \A r \in Client : got[r] = <<>> /\ queue[r] = <<>>
  BY DEF Init
<1>2. \A r, s \in Client : Ordered(r, s)
  BY <1>1 DEF Ordered, Rising, Before, ToSet
<1>3. \A s \in Client : Past(s)
  BY <1>1 DEF Past, In, ToSet
<1> QED BY <1>2, <1>3, InitStageInv DEF OrderInv

LEMMA NextOrderInv == OrderInv /\ [Next]_vars => OrderInv'
<1> SUFFICES ASSUME OrderInv, [Next]_vars PROVE OrderInv'
  OBVIOUS
<1>1. StageInv'
  BY NextStageInv DEF OrderInv
<1>2. \A s \in Client : Past(s)'
  BY NextPast DEF OrderInv
<1>3. \A s \in Client : \A r \in Client : Ordered(r, s)'
  BY NextOrdered DEF OrderInv
<1> QED BY <1>1, <1>2, <1>3 DEF OrderInv

\* A stream is in order when its parts are.
LEMMA OrderedInOrder == OrderInv => InOrder
<1> SUFFICES ASSUME OrderInv, NEW r \in Client, NEW s \in Client,
                    NEW i \in 1..Len(Stream(r)), NEW j \in 1..Len(Stream(r)),
                    i < j, IsFrom(Stream(r)[i], s), IsFrom(Stream(r)[j], s)
             PROVE  Stream(r)[i].id < Stream(r)[j].id
  BY DEF InOrder
<1> DEFINE g == got[r]
           q == queue[r]
<1>1. g \in Seq(Frame) /\ q \in Seq(Frame) /\ Rising(g, s) /\ Rising(q, s) /\ Before(ToSet(g), ToSet(q), s)
  BY DEF OrderInv, StageInv, TypeOK, Ordered
<1>2. Stream(r) = g \o q
  BY DEF Stream
<1> HIDE DEF g, q
<1>3. /\ Len(g) \in Nat /\ Len(q) \in Nat /\ Len(g \o q) = Len(g) + Len(q)
      /\ \A k \in 1..Len(g) + Len(q) : (g \o q)[k] = IF k <= Len(g) THEN g[k] ELSE q[k - Len(g)]
  BY <1>1
<1>4. CASE j <= Len(g)
  <2>1. i \in 1..Len(g) /\ j \in 1..Len(g)
    BY <1>2, <1>3, <1>4
  <2> QED BY <1>1, <1>2, <1>3, <2>1 DEF Rising
<1>5. CASE i <= Len(g) /\ j > Len(g)
  <2>1. /\ i \in 1..Len(g) /\ j - Len(g) \in 1..Len(q)
        /\ Stream(r)[i] = g[i] /\ Stream(r)[j] = q[j - Len(g)]
    BY <1>2, <1>3, <1>5
  <2>2. ASSUME NEW p, NEW k \in 1..Len(p) PROVE p[k] \in ToSet(p)
    BY <2>2 DEF ToSet
  <2> QED BY <1>1, <2>1, <2>2 DEF Before
<1>6. CASE i > Len(g)
  <2>1. /\ i - Len(g) \in 1..Len(q) /\ j - Len(g) \in 1..Len(q) /\ i - Len(g) < j - Len(g)
        /\ Stream(r)[i] = q[i - Len(g)] /\ Stream(r)[j] = q[j - Len(g)]
    BY <1>2, <1>3, <1>6
  <2> QED BY <1>1, <2>1 DEF Rising
<1> QED BY <1>2, <1>3, <1>4, <1>5, <1>6

\* A receiver gets the frames of one sender in the order in which the sender
\* asked for them and none twice, however many clients send to it at a time,
\* wait for room in its queue, or evict it (safe_send_frame!, handle_writer).
THEOREM FramesInOrder == Spec => []InOrder
  BY InitOrderInv, NextOrderInv, OrderedInOrder, PTL DEF Spec

-----------------------------------------------------------------------------
(* What was asked for stays asked for, and subscriptions change only for it *)

\* An operation at a time; a publication was recorded before it is processed,
\* and of the operations of others only those that were done by then.
Recorded(s) ==
  /\ Len(issued[s]) <= done[s] + 1
  /\ \A n \in 1..Len(issued[s]) :
       /\ \A r \in Client : snap[s][n].seen[r] <= done[r]
       /\ issued[s][n].op \notin Publish => snap[s][n].barred = {}

\* Acknowledgements of s are for operations it asked for; those of the one in
\* progress are refusals.
AckPast(s) ==
  \A f \in In(s) : f.kind = "ack" =>
    /\ f.id \in 1..Len(issued[s])
    /\ \/ f.id <= done[s]
       \/ f.id = done[s] + 1 /\ f.code = "ERR_ACCESS" /\ pc[s] \in {"deny", "ack", "ended"}

LEMMA NextRecorded ==
  ASSUME StageInv, [Next]_vars, \A s \in Client : Recorded(s)
  PROVE  \A s \in Client : Recorded(s)'
<1> TAKE s \in Client
<1>1. TaskTypes /\ TypeOK /\ Stage(s) /\ TaskTypes'
  BY StageParts, NextStageInv DEF StageInv, TypeOK, Registered, TaskTypes
<1>2. \A r \in Client : done[r] \in Nat /\ done'[r] \in Nat /\ done[r] <= done'[r]
  <2> TAKE r \in Client
  <2>1. done[r] \in Nat /\ done'[r] \in Nat
    BY <1>1 DEF TaskTypes
  <2>2. done'[r] = done[r] \/ done'[r] = done[r] + 1
    BY Advance
  <2> QED BY <2>1, <2>2
<1>3. issued[s] \in Seq(Op) /\ snap[s] \in Seq(Snap) /\ Len(issued[s]) = Len(snap[s]) /\ Len(issued[s]) \in Nat
  BY <1>1 DEF TaskTypes, Stage
<1>4. \A n \in 1..Len(issued[s]) : \A r \in Client : snap[s][n].seen[r] \in Nat
  <2> TAKE n \in 1..Len(issued[s])
  <2>1. snap[s][n] \in Snap
    BY <1>3
  <2> QED BY <2>1 DEF Snap
<1>5. CASE issued'[s] = issued[s] /\ snap'[s] = snap[s]
  <2>1. Len(issued[s]) <= done'[s] + 1
    BY <1>2, <1>3 DEF Recorded
  <2>2. ASSUME NEW n \in 1..Len(issued[s]), NEW r \in Client PROVE snap[s][n].seen[r] <= done'[r]
    <3>1. snap[s][n].seen[r] <= done[r]
      BY <2>2 DEF Recorded
    <3> QED BY <1>2, <1>4, <2>2, <3>1
  <2> QED BY <1>5, <2>1, <2>2 DEF Recorded
<1>6. ASSUME NEW o \in Script[s], Issue(s, o) PROVE Recorded(s)'
  <2>1. issued'[s] = Append(issued[s], o) /\ snap'[s] = Append(snap[s], Snapshot(o)) /\ done' = done /\ ~Busy(s)
    BY <1>1, <1>6 DEF Issue, TaskTypes
  <2>2. /\ Len(issued'[s]) = Len(issued[s]) + 1
        /\ \A n \in 1..Len(issued[s]) + 1 :
             /\ issued'[s][n] = IF n = Len(issued[s]) + 1 THEN o ELSE issued[s][n]
             /\ snap'[s][n] = IF n = Len(issued[s]) + 1 THEN Snapshot(o) ELSE snap[s][n]
    BY <1>3, <2>1
  <2>3. /\ \A r \in Client : Snapshot(o).seen[r] <= done[r]
        /\ o.op \notin Publish => Snapshot(o).barred = {}
    BY <1>2 DEF Snapshot, Publish
  <2>4. Len(issued'[s]) <= done'[s] + 1
    BY <1>2, <1>3, <2>1, <2>2 DEF Busy
  <2>5. ASSUME NEW n \in 1..Len(issued'[s])
        PROVE  /\ \A r \in Client : snap'[s][n].seen[r] <= done'[r]
               /\ issued'[s][n].op \notin Publish => snap'[s][n].barred = {}
    <3>1. CASE n = Len(issued[s]) + 1
      BY <1>3, <2>1, <2>2, <2>3, <3>1
    <3>2. CASE n \in 1..Len(issued[s])
      BY <1>3, <2>1, <2>2, <3>2 DEF Recorded
    <3> QED BY <1>3, <2>2, <3>1, <3>2
  <2> QED BY <2>4, <2>5 DEF Recorded
<1>7. CASE Acts(s) /\ ~(\E o \in Script[s] : Issue(s, o))
  <2>1. UNCHANGED <<issued, snap>>
    BY <1>7 DEF Acts, TakeSubscribe, Subscribe, Unsubscribe, Exclude, Unexclude, Refuse, LookupMissing,
       NoReceiver, Collect, Retain, CheckRoom, CheckFull, Evict, EvictEnd, Send, SendClosed, SendAck, Return, End
  <2> QED BY <1>5, <2>1
<1>8. CASE Same(s)
  BY <1>5, <1>8 DEF Same
<1> QED BY <1>6, <1>7, <1>8, WhoActs

\* A task that waits to acknowledge does nothing else.
LEMMA AckingFacts ==
  ASSUME StageInv, [Next]_vars, NEW s \in Client, pc[s] \in {"deny", "ack", "ended"}
  PROVE  \/ done'[s] = done[s] /\ pc'[s] \in {"deny", "ack", "ended"}
         \/ done'[s] = done[s] + 1
<1>1. TaskTypes /\ TypeOK /\ Stage(s)
  BY StageParts
<1>2. CASE Same(s)
  BY <1>2 DEF Same
<1>3. CASE Subscribe(s)
  BY <1>1, <1>3 DEF Subscribe, Answer, Goto, TaskTypes
<1>4. CASE SendAck(s) \/ Return(s)
  BY <1>1, <1>4 DEF SendAck, Return, AckSent, Goto, TaskTypes
<1>5. CASE End(s)
  BY <1>1, <1>5 DEF End, Goto, TaskTypes
<1>6. Same(s) \/ Subscribe(s) \/ SendAck(s) \/ Return(s) \/ End(s)
  BY WhoActs DEF Acts, Issue, TakeSubscribe, Unsubscribe, Exclude, Unexclude, Refuse, LookupMissing,
     Routed, NoReceiver, Collect, Retain, CheckRoom, CheckFull, Evict, EvictEnd, Send, SendClosed
<1> QED BY <1>2, <1>3, <1>4, <1>5, <1>6

\* A new acknowledgement of s is the first one still to be sent.
LEMMA NewAck ==
  ASSUME StageInv, [Next]_vars, NEW s \in Client, NEW f \in In(s)', f \notin In(s), f.kind = "ack"
  PROVE  /\ f = AckOf(s, Head(acks[s])) /\ f.id = done[s] + 1 /\ Busy(s) /\ done[s] \in Nat
         /\ Len(issued[s]) \in Nat /\ issued'[s] = issued[s] /\ (SendAck(s) \/ Return(s)) /\ acks[s] # <<>>
         /\ \/ pc[s] = "ack" /\ done'[s] = done[s] + 1
            \/ /\ pc[s] = "deny" /\ f.code = "ERR_ACCESS"
               /\ pc'[s] = "deny" /\ done'[s] = done[s]
<1>1. TaskTypes /\ TypeOK /\ \A c \in Client : Stage(c)
  BY StageParts
<1>2. PICK c \in Client :
        \/ Send(c) /\ s = tgt[c] /\ f = FrameOf(c)
        \/ (SendAck(c) \/ Return(c)) /\ s = c /\ f = AckOf(c, Head(acks[c]))
  BY StepFlow DEF Flow, Puts
<1>3. (SendAck(s) \/ Return(s)) /\ f = AckOf(s, Head(acks[s]))
  BY <1>2, SendFacts
<1>4. acks[s] # <<>> /\ AckSent(s) /\ UNCHANGED <<issued, todo, tgt, snap>> /\ pc[s] \in {"ack", "deny"}
  BY <1>3 DEF SendAck, Return, AckSent
<1>5. /\ Busy(s)
      /\ \/ pc[s] = "ack" /\ pc'[s] = "idle" /\ done'[s] = done[s] + 1
         \/ pc[s] = "deny" /\ pc'[s] = "deny" /\ done'[s] = done[s]
  BY <1>1, <1>4, AckSentFacts
<1>6. Head(acks[s]) = acks[s][1] /\ 1 \in 1..Len(acks[s])
  BY <1>1, <1>4, AckFrame
<1>7. pc[s] = "deny" => f.code = "ERR_ACCESS"
  BY <1>1, <1>3, <1>6 DEF Stage, AckOf
<1>8. done[s] \in Nat /\ Len(issued[s]) \in Nat /\ f.id = done[s] + 1
  BY <1>1, <1>3 DEF TaskTypes, AckOf, Id
<1> QED BY <1>3, <1>4, <1>5, <1>7, <1>8

LEMMA NextAckPast ==
  ASSUME StageInv, [Next]_vars, NEW s \in Client, AckPast(s)
  PROVE  AckPast(s)'
<1> SUFFICES ASSUME NEW f \in In(s)', f.kind = "ack"
             PROVE  /\ f.id \in 1..Len(issued'[s])
                    /\ \/ f.id <= done'[s]
                       \/ f.id = done'[s] + 1 /\ f.code = "ERR_ACCESS" /\ pc'[s] \in {"deny", "ack", "ended"}
  BY DEF AckPast
<1>1. TaskTypes /\ TypeOK /\ Stage(s)
  BY StageParts
<1>2. done[s] \in Nat /\ Len(issued[s]) \in Nat
  BY <1>1 DEF TaskTypes
<1>3. CASE f \in In(s)
  <2>1. /\ f.id \in 1..Len(issued[s])
        /\ \/ f.id <= done[s]
           \/ f.id = done[s] + 1 /\ f.code = "ERR_ACCESS" /\ pc[s] \in {"deny", "ack", "ended"}
    BY <1>3 DEF AckPast
  <2>2. f.id \in 1..Len(issued'[s]) /\ f.id \in Nat
    BY <1>2, <2>1, StepGrows DEF Grows
  <2>3. done'[s] = done[s] \/ done'[s] = done[s] + 1
    BY Advance
  <2> QED BY <1>2, <2>1, <2>2, <2>3, AckingFacts
<1>4. CASE f \notin In(s)
  <2>1. /\ f.id = done[s] + 1 /\ Busy(s) /\ issued'[s] = issued[s]
        /\ \/ pc[s] = "ack" /\ done'[s] = done[s] + 1
           \/ pc[s] = "deny" /\ f.code = "ERR_ACCESS" /\ pc'[s] = "deny" /\ done'[s] = done[s]
    BY <1>4, NewAck
  <2>2. f.id \in 1..Len(issued'[s])
    BY <1>2, <2>1 DEF Busy
  <2> QED BY <1>2, <2>1, <2>2
<1> QED BY <1>3, <1>4

\* r is processing one of ops on t.
Turns(r, ops, t) == Busy(r) /\ Cur(r).op \in ops /\ t \in ToSet(Cur(r).topics)

\* A client comes to a topic or leaves it by its own doing, or is unregistered.
Topical(r, t) ==
  /\ r \in subs[t] => r \in subs'[t] \/ r \notin listed' \/ Turns(r, {"unsubscribe"}, t)
  /\ r \in subs'[t] => r \in subs[t] \/ Turns(r, {"subscribe"}, t)
  /\ t \in excl'[r] => t \in excl[r] \/ Turns(r, {"exclude"}, t)
  /\ t \in excl[r] => t \in excl'[r] \/ Turns(r, {"unexclude"}, t)

LEMMA StepTopical ==
  ASSUME StageInv, [Next]_vars, NEW r \in Client, NEW t \in Topic
  PROVE  Topical(r, t)
<1>1. TaskTypes /\ OutTypes /\ SubTypes /\ TypeOK /\ \A c \in Client : Stage(c)
  BY StageParts
<1>2. CASE UNCHANGED <<listed, subVars>>
  BY <1>2 DEF Topical, subVars
<1>3. ASSUME NEW c \in Client, Subscribe(c) PROVE Topical(r, t)
  <2>1. Busy(c) /\ Cur(c).op = "subscribe" /\ UNCHANGED <<listed, excl>>
    BY <1>1, <1>3 DEF Subscribe, Stage, outVars
  <2>2. /\ subs'[t] = IF t \in ToSet(Cur(c).topics) /\ Allowed(c, "subscribe", t) /\ c \in listed
                      THEN subs[t] \cup {c} ELSE subs[t]
    BY <1>3 DEF Subscribe
  <2>3. CASE t \in ToSet(Cur(c).topics) /\ Allowed(c, "subscribe", t) /\ c \in listed
    BY <2>1, <2>2, <2>3 DEF Topical, Turns
  <2>4. CASE ~(t \in ToSet(Cur(c).topics) /\ Allowed(c, "subscribe", t) /\ c \in listed)
    BY <2>1, <2>2, <2>4 DEF Topical
  <2> QED BY <2>3, <2>4
<1>4. ASSUME NEW c \in Client, Unsubscribe(c) PROVE Topical(r, t)
  <2>1. /\ Busy(c) /\ Cur(c).op = "unsubscribe" /\ UNCHANGED <<listed, excl>>
        /\ subs'[t] = IF t \in ToSet(Cur(c).topics) THEN subs[t] \ {c} ELSE subs[t]
    BY <1>4 DEF Unsubscribe, outVars
  <2> QED BY <2>1 DEF Topical, Turns
<1>5. ASSUME NEW c \in Client, Exclude(c) PROVE Topical(r, t)
  <2>1. /\ Busy(c) /\ Cur(c).op = "exclude" /\ UNCHANGED <<listed, subs>>
        /\ excl'[r] = IF r = c THEN excl[c] \cup ToSet(Cur(c).topics) ELSE excl[r]
    BY <1>1, <1>5 DEF Exclude, outVars, SubTypes
  <2> QED BY <2>1 DEF Topical, Turns
<1>6. ASSUME NEW c \in Client, Unexclude(c) PROVE Topical(r, t)
  <2>1. /\ Busy(c) /\ Cur(c).op = "unexclude" /\ UNCHANGED <<listed, subs>>
        /\ excl'[r] = IF r = c THEN excl[c] \ ToSet(Cur(c).topics) ELSE excl[r]
    BY <1>1, <1>6 DEF Unexclude, outVars, SubTypes
  <2> QED BY <2>1 DEF Topical, Turns
<1>7. ASSUME NEW c \in Client, Unlist(c), UNCHANGED excl PROVE Topical(r, t)
  BY <1>7 DEF Unlist, Topical
<1>8. ASSUME NEW c \in Client, NEW x \in Client,
             \/ ReadOp(c) \/ Call(c) \/ TakeSubscribe(c) \/ Refuse(c) \/ LookupMissing(c) \/ Collect(c)
             \/ Retain(c) \/ CheckRoom(c, x) \/ CheckFull(c, x) \/ EvictEnd(c) \/ SendClosed(c) \/ NoReceiver(c)
             \/ Send(c) \/ SendAck(c) \/ Return(c) \/ Write(c) \/ Recv(c) \/ Ping(c)
      PROVE  UNCHANGED <<listed, subVars>>
  BY <1>8 DEF ReadOp, Call, Issue, TakeSubscribe, Refuse, LookupMissing, Collect, Retain, CheckRoom,
     CheckFull, EvictEnd, SendClosed, NoReceiver, Send, SendAck, Return, Write, Recv, Ping, outVars
<1>9. ASSUME NEW c \in Client, NEW x \in Client, End(c) \/ Evict(c, x) PROVE Topical(r, t)
  BY <1>7, <1>9 DEF End, Evict
<1>10. CASE UNCHANGED vars
  BY <1>2, <1>10 DEF vars, outVars
<1> QED BY <1>2, <1>3, <1>4, <1>5, <1>6, <1>8, <1>9, <1>10
        DEF Next, Task, EndAck, EndWriter, EndPinger, EndWait, EndStream

\* What r is processing it has asked for after the operations done before.
LEMMA TurnsAsked ==
  ASSUME TypeOK, NEW r \in Client, Stage(r), NEW k \in Nat, k <= done[r], NEW ops, NEW t, Turns(r, ops, t)
  PROVE  AskedSince(r, k, ops, t)
<1>1. done[r] \in Nat /\ Len(issued[r]) \in Nat /\ done[r] < Len(issued[r])
  BY DEF TypeOK, Turns, Busy
<1>2. done[r] + 1 \in k+1..Len(issued[r])
  BY <1>1
<1> QED BY <1>2 DEF AskedSince, Turns, Cur

LEMMA AskedGrows ==
  ASSUME TypeOK, NEW r \in Client, Grows(r), NEW k \in Nat, NEW ops, NEW t, AskedSince(r, k, ops, t)
  PROVE  AskedSince(r, k, ops, t)'
<1>1. PICK i \in k+1..Len(issued[r]) : issued[r][i].op \in ops /\ t \in ToSet(issued[r][i].topics)
  BY DEF AskedSince
<1>2. Len(issued[r]) \in Nat
  BY DEF TypeOK
<1>3. i \in 1..Len(issued[r])
  BY <1>1, <1>2
<1>4. i \in 1..Len(issued'[r]) /\ issued'[r][i] = issued[r][i]
  BY <1>3 DEF Grows
<1>5. i \in k+1..Len(issued'[r])
  BY <1>1, <1>4
<1> QED BY <1>1, <1>4, <1>5 DEF AskedSince

-----------------------------------------------------------------------------
(* What a confirmation says *)

Reaches(r, s, n) == \E f \in In(r) : IsFrom(f, s) /\ f.id = n
Withdrawn(r, s, n) ==
  \/ r \notin listed
  \/ AskedSince(r, snap[s][n].seen[r], {"unsubscribe", "exclude"}, TopicAt(issued[s][n]))
Joined(r, s, n) ==
  AskedSince(r, snap[s][n].seen[r], {"subscribe", "unexclude"}, TopicAt(issued[s][n]))

\* What the sender may rely on when operation n is confirmed.
Fulfilled(s, n) ==
  /\ issued[s][n].op = "message" => Reaches(issued[s][n].to, s, n)
  /\ issued[s][n].op \in Publish =>
       \A r \in snap[s][n].due : Reaches(r, s, n) \/ Withdrawn(r, s, n)

LEMMA OpFacts ==
  ASSUME StageInv, NEW s \in Client, NEW n \in 1..Len(issued[s])
  PROVE  /\ Sane(issued[s][n]) /\ snap[s][n] \in Snap /\ snap[s][n].due \in SUBSET Client
         /\ snap[s][n].barred \in SUBSET Client /\ \A r \in Client : snap[s][n].seen[r] \in Nat
         /\ (issued[s][n].op = "message" => issued[s][n].to \in Client)
         /\ (issued[s][n].op \in Publish => TopicAt(issued[s][n]) \in Topic)
<1>1. TaskTypes /\ Stage(s)
  BY StageParts
<1>2. Sane(issued[s][n]) /\ snap[s][n] \in Snap
  BY <1>1 DEF Stage
<1>3. issued[s][n].topics \in Seq(Topic)
  BY <1>2 DEF Sane, Op
<1>4. issued[s][n].op \in Publish => TopicAt(issued[s][n]) \in Topic
  BY <1>2, <1>3 DEF Sane, TopicAt
<1> QED BY <1>2, <1>4 DEF Snap, Sane

LEMMA ReachesStays ==
  ASSUME StageInv, [Next]_vars, NEW r \in Client, NEW s \in Client, NEW n, Reaches(r, s, n)
  PROVE  Reaches(r, s, n)'
<1>1. PICK f \in In(r) : IsFrom(f, s) /\ f.id = n
  BY DEF Reaches
<1>2. f \in In(r)'
  BY <1>1, StepFlow DEF Flow, IsFrom
<1> QED BY <1>1, <1>2 DEF Reaches

LEMMA WithdrawnStays ==
  ASSUME StageInv, [Next]_vars, NEW s \in Client, NEW n \in 1..Len(issued[s]), NEW r \in Client
  PROVE  /\ Withdrawn(r, s, n) => Withdrawn(r, s, n)'
         /\ Joined(r, s, n) => Joined(r, s, n)'
<1>1. TypeOK /\ Grows(r) /\ Grows(s)
  BY StageParts, StepGrows
<1>2. snap'[s][n] = snap[s][n] /\ issued'[s][n] = issued[s][n]
  BY <1>1 DEF Grows
<1>3. snap[s][n].seen[r] \in Nat
  BY OpFacts
<1>4. Joined(r, s, n) => Joined(r, s, n)'
  BY <1>1, <1>2, <1>3, AskedGrows DEF Joined
<1>5. AskedSince(r, snap[s][n].seen[r], {"unsubscribe", "exclude"}, TopicAt(issued[s][n]))
        => Withdrawn(r, s, n)'
  BY <1>1, <1>2, <1>3, AskedGrows DEF Withdrawn
<1>6. listed' \subseteq listed
  BY ListedShrinks
<1> QED BY <1>4, <1>5, <1>6 DEF Withdrawn

\* How far the publication of s in progress is with a subscriber r that is to
\* get it, and with a client that is not.
OnWay(s, r) ==
  /\ pc[s] = "idle" => r \in Entitled(Cur(s))
  /\ pc[s] = "retain" => r \in todo[s] /\ TopicAt(Cur(s)) \notin excl[r]
  /\ pc[s] \in {"deliver", "send", "wait", "evict"} => r \in todo[s] \/ r = tgt[s] \/ Reaches(r, s, Id(s))
  /\ pc[s] = "ack" /\ acks[s] = <<"OK">> => Reaches(r, s, Id(s))
Off(s, r) ==
  /\ pc[s] = "idle" => r \notin Entitled(Cur(s))
  /\ pc[s] = "retain" => r \notin todo[s] \/ TopicAt(Cur(s)) \in excl[r]
  /\ pc[s] \in {"deliver", "send", "wait", "evict"} => r \notin todo[s] /\ r # tgt[s]
Due(s) ==
  Busy(s) /\ Cur(s).op \in Publish =>
    \A r \in snap[s][Id(s)].due : Withdrawn(r, s, Id(s)) \/ OnWay(s, r)
Bar(s) ==
  Busy(s) /\ Cur(s).op \in Publish =>
    \A r \in snap[s][Id(s)].barred : Joined(r, s, Id(s)) \/ Off(s, r)

\* Subscriptions and exclusions of r change for the worse of a publication
\* asked for only if r withdrew, and for the better only if it asked for it.
LEMMA TopicStays ==
  ASSUME StageInv, [Next]_vars, \A x \in Client : Recorded(x), NEW s \in Client,
         NEW n \in 1..Len(issued[s]), NEW r \in Client, NEW t \in Topic, t = TopicAt(issued[s][n])
  PROVE  /\ r \in subs[t] => r \in subs'[t] \/ Withdrawn(r, s, n)'
         /\ t \in excl'[r] => t \in excl[r] \/ Withdrawn(r, s, n)'
         /\ r \in subs'[t] => r \in subs[t] \/ Joined(r, s, n)'
         /\ t \in excl[r] => t \in excl'[r] \/ Joined(r, s, n)'
<1>1. TaskTypes /\ TypeOK /\ Stage(s) /\ Stage(r)
  BY StageParts
<1>2. snap[s][n].seen[r] \in Nat /\ snap[s][n].seen[r] <= done[r]
  BY OpFacts DEF Recorded
<1>3. ASSUME Turns(r, {"unsubscribe"}, t) \/ Turns(r, {"exclude"}, t) PROVE Withdrawn(r, s, n)'
  <2>1. Turns(r, {"unsubscribe", "exclude"}, t)
    BY <1>3 DEF Turns
  <2>2. Withdrawn(r, s, n)
    BY <1>1, <1>2, <2>1, TurnsAsked DEF Withdrawn
  <2> QED BY <2>2, WithdrawnStays
<1>4. ASSUME Turns(r, {"subscribe"}, t) \/ Turns(r, {"unexclude"}, t) PROVE Joined(r, s, n)'
  <2>1. Turns(r, {"subscribe", "unexclude"}, t)
    BY <1>4 DEF Turns
  <2>2. Joined(r, s, n)
    BY <1>1, <1>2, <2>1, TurnsAsked DEF Joined
  <2> QED BY <2>2, WithdrawnStays
<1>5. r \notin listed' => Withdrawn(r, s, n)'
  BY DEF Withdrawn
<1> QED BY <1>3, <1>4, <1>5, StepTopical DEF Topical

LEMMA SendReaches ==
  ASSUME StageInv, NEW s \in Client, Send(s), NEW r, r = tgt[s], NEW n, n = done[s] + 1
  PROVE  Reaches(r, s, n)'
<1>1. OutTypes /\ r \in Client
  BY StageParts, SendFacts
<1>2. PICK f \in Frame : f = FrameOf(s)
  BY SendFacts
<1>3. queue'[r] = Append(queue[r], f) /\ queue[r] \in Seq(Frame)
  BY <1>1, <1>2 DEF Send, OutTypes
<1>4. f \in ToSet(queue'[r])
  BY <1>3, AppendSet
<1>5. f \in In(r)'
  BY <1>4 DEF In
<1>6. IsFrom(f, s) /\ f.id = n
  BY <1>2, SendFacts DEF IsFrom
<1> QED BY <1>5, <1>6 DEF Reaches

\* The publication goes on: nobody who is due is lost, nobody barred is added.
LEMMA NextWay ==
  ASSUME StageInv, [Next]_vars, \A x \in Client : Recorded(x),
         NEW s \in Client, Busy(s), Cur(s).op \in Publish, done'[s] = done[s],
         NEW n \in 1..Len(issued[s]), n = done[s] + 1, NEW r \in Client
  PROVE  /\ OnWay(s, r) => OnWay(s, r)' \/ Withdrawn(r, s, n)'
         /\ Off(s, r) => Off(s, r)' \/ Joined(r, s, n)'
<1>1. TaskTypes /\ OutTypes /\ SubTypes /\ TypeOK /\ Stage(s)
  BY StageParts
<1>2. Cur(s)' = Cur(s) /\ Id(s)' = n /\ Id(s) = n /\ issued[s][n] = Cur(s)
  BY StepGrows DEF Grows, Cur, Id
<1>3. PICK t \in Topic : t = TopicAt(issued[s][n])
  BY <1>2, OpFacts
<1>4. /\ r \in subs[t] => r \in subs'[t] \/ Withdrawn(r, s, n)'
      /\ t \in excl'[r] => t \in excl[r] \/ Withdrawn(r, s, n)'
      /\ r \in subs'[t] => r \in subs[t] \/ Joined(r, s, n)'
      /\ t \in excl[r] => t \in excl'[r] \/ Joined(r, s, n)'
  BY <1>3, TopicStays
<1>5. TopicAt(Cur(s)) = t /\ TopicAt(Cur(s))' = t
  BY <1>2, <1>3 DEF TopicAt
<1> DEFINE match == Cur(s).op = "publish_for" => primary[r] = Cur(s).to
<1>6. /\ r \in Entitled(Cur(s)) <=> r \in subs[t] /\ t \notin excl[r] /\ match
      /\ r \in Entitled(Cur(s))' <=> r \in subs'[t] /\ t \notin excl'[r] /\ match
  BY <1>2, <1>5 DEF Entitled
<1> HIDE DEF match
<1>7. Reaches(r, s, n) => Reaches(r, s, n)'
  BY ReachesStays
<1>8. CASE Same(s)
  BY <1>2, <1>4, <1>5, <1>6, <1>7, <1>8 DEF Same, OnWay, Off
<1>9. CASE pc'[s] = "ended" \/ (pc'[s] = "ack" /\ acks'[s] # <<"OK">>)
  BY <1>9 DEF OnWay, Off
<1>10. CASE Collect(s)
  <2>1. /\ pc[s] = "idle" /\ pc'[s] = "retain" /\ todo'[s] = Receivers(s) /\ excl' = excl
    BY <1>1, <1>10 DEF Collect, Routed, Goto, Right, Publish, TaskTypes, subVars
  <2>2. r \in Receivers(s) <=> r \in subs[t] /\ match
    BY <1>5 DEF Receivers, Publish, match
  <2> QED BY <1>5, <1>6, <2>1, <2>2 DEF OnWay, Off
<1>11. CASE Retain(s)
  <2>1. /\ pc[s] = "retain" /\ pc'[s] = "deliver" /\ tgt' = tgt /\ tgt[s] = None
        /\ todo'[s] = {x \in todo[s] : ~hasExcl[x] \/ t \notin excl[x]}
    BY <1>1, <1>5, <1>11 DEF Retain, Goto, TaskTypes, Stage
  <2>2. t \in excl[r] => hasExcl[r]
    BY <1>1 DEF SubTypes
  <2>3. r # None
    BY ClientAssumption
  <2> QED BY <1>5, <2>1, <2>2, <2>3 DEF OnWay, Off
<1>12. ASSUME NEW x \in Client, CheckRoom(s, x) \/ CheckFull(s, x)
       PROVE  /\ OnWay(s, r) => OnWay(s, r)'
              /\ Off(s, r) => Off(s, r)'
  <2>1. /\ pc[s] = "deliver" /\ pc'[s] \in {"send", "wait"} /\ x \in todo[s] /\ tgt[s] = None
        /\ todo'[s] = todo[s] \ {x} /\ tgt'[s] = x /\ r # None
    BY <1>1, <1>12, ClientAssumption DEF CheckRoom, CheckFull, Goto, TaskTypes, Stage
  <2> QED BY <1>2, <1>7, <2>1 DEF OnWay, Off
<1>13. ASSUME NEW x \in Client, Evict(s, x)
       PROVE  /\ OnWay(s, r) => OnWay(s, r)'
              /\ Off(s, r) => Off(s, r)'
  <2>1. /\ pc[s] = "deliver" /\ pc'[s] = "evict" /\ x \in todo[s] /\ tgt[s] = None
        /\ todo'[s] = todo[s] \ {x} /\ tgt'[s] = x /\ r # None
    BY <1>1, <1>13, ClientAssumption DEF Evict, Goto, TaskTypes, Stage
  <2> QED BY <1>2, <1>7, <2>1 DEF OnWay, Off
<1>14. CASE EvictEnd(s) \/ Send(s) \/ SendClosed(s)
  <2>1. /\ pc[s] \in {"send", "wait", "evict"} /\ todo' = todo /\ tgt'[s] = None /\ tgt[s] \in Client
    BY <1>1, <1>14 DEF EvictEnd, Send, SendClosed, TaskTypes, Stage
  <2>2. /\ pc'[s] \in {"idle", "ack", "deliver"} /\ (pc'[s] = "idle" => done'[s] = done[s] + 1)
        /\ pc'[s] = "ack" => todo[s] = {}
    <3>1. Served(s, todo[s], "OK") \/ Served(s, todo[s], "EOF") \/ Served(s, todo[s], "ERR_NOT_DELIVERED")
      BY <1>14 DEF EvictEnd, Send, SendClosed
    <3> QED BY <1>1, <3>1 DEF Served, Answer, Goto, TaskTypes, Publish
  <2>3. pc'[s] # "idle"
    BY <1>1, <2>2 DEF TaskTypes
  <2>4. r = tgt[s] => Reaches(r, s, n)' \/ Withdrawn(r, s, n)'
    <3> SUFFICES ASSUME r = tgt[s] PROVE Reaches(r, s, n)' \/ Withdrawn(r, s, n)'
      OBVIOUS
    <3>1. CASE Send(s)
      BY <3>1, SendReaches
    <3>2. CASE SendClosed(s)
      <4>1. r \notin listed'
        BY <1>1, <3>2 DEF SendClosed, OutTypes, outVars
      <4> QED BY <4>1 DEF Withdrawn
    <3>3. CASE EvictEnd(s)
      <4>1. r \notin listed'
        BY <1>1, <3>3 DEF EvictEnd, Stage
      <4> QED BY <4>1 DEF Withdrawn
    <3> QED BY <1>14, <3>1, <3>2, <3>3
  <2>5. r # None
    BY ClientAssumption
  <2> QED BY <1>2, <1>7, <2>1, <2>2, <2>3, <2>4, <2>5 DEF OnWay, Off
<1>15. CASE Refuse(s) \/ LookupMissing(s) \/ NoReceiver(s)
  <2>1. CASE Refuse(s)
    <3>1. (pc'[s] = "ack" /\ acks'[s] = <<"ERR_ACCESS">>) \/ done'[s] = done[s] + 1
      BY <1>1, <2>1 DEF Refuse, Answer, Goto, TaskTypes
    <3>2. <<"ERR_ACCESS">> # <<"OK">>
      OBVIOUS
    <3>3. done[s] # done[s] + 1
      BY <1>1 DEF TaskTypes
    <3> QED BY <1>9, <3>1, <3>2, <3>3
  <2>2. CASE NoReceiver(s)
    <3>1. /\ pc'[s] = "ack" \/ done'[s] = done[s] + 1
          /\ pc[s] = "deliver" /\ todo[s] = {}
      BY <1>1, <2>2 DEF NoReceiver, Answer, Goto, TaskTypes
    <3>2. tgt[s] = None /\ r # None
      BY <1>1, <3>1, ClientAssumption DEF Stage
    <3>3. pc'[s] = "ack"
      BY <1>1, <3>1 DEF TaskTypes
    <3> QED BY <1>2, <1>7, <3>1, <3>2, <3>3 DEF OnWay, Off
  <2> QED BY <1>15, <2>1, <2>2 DEF LookupMissing, Publish
<1>16. CASE SendAck(s) \/ Return(s)
  <2>1. pc[s] = "deny" \/ done'[s] = done[s] + 1
    BY <1>1, <1>16 DEF SendAck, Return, AckSent, TaskTypes
  <2>2. pc[s] # "deny"
    BY <1>1 DEF Stage, Publish
  <2> QED BY <1>1, <2>1, <2>2 DEF TaskTypes
<1>17. CASE End(s)
  <2>1. pc'[s] = "ended"
    BY <1>1, <1>17 DEF End, Goto, TaskTypes
  <2> QED BY <1>9, <2>1
<1>18. \/ Same(s) \/ Collect(s) \/ Retain(s) \/ (\E x \in Client : CheckRoom(s, x) \/ CheckFull(s, x) \/ Evict(s, x))
       \/ EvictEnd(s) \/ Send(s) \/ SendClosed(s) \/ Refuse(s) \/ LookupMissing(s) \/ NoReceiver(s)
       \/ SendAck(s) \/ Return(s) \/ End(s)
  <2>1. ~Subscribe(s)
    BY <1>1 DEF Subscribe, Stage, Publish
  <2> QED BY <2>1, WhoActs DEF Acts, Issue, TakeSubscribe, Unsubscribe, Exclude, Unexclude, Publish
<1> QED BY <1>8, <1>10, <1>11, <1>12, <1>13, <1>14, <1>15, <1>16, <1>17, <1>18

LEMMA NextDue ==
  ASSUME StageInv, [Next]_vars, \A x \in Client : Recorded(x), NEW s \in Client, Due(s), Bar(s)
  PROVE  Due(s)' /\ Bar(s)'
<1>1. TaskTypes /\ TypeOK /\ Stage(s) /\ done[s] \in Nat /\ Len(issued[s]) \in Nat
  BY StageParts DEF TaskTypes
<1>2. ASSUME NEW o \in Script[s], Issue(s, o) PROVE Due(s)' /\ Bar(s)'
  <2> DEFINE n == Len(issued[s]) + 1
  <2>1. /\ issued'[s] = Append(issued[s], o) /\ snap'[s] = Append(snap[s], Snapshot(o))
        /\ UNCHANGED <<done, pc, subVars>> /\ ~Busy(s) /\ pc[s] = "idle"
    BY <1>1, <1>2 DEF Issue, TaskTypes
  <2>2. done[s] + 1 = n
    BY <1>1, <2>1 DEF Busy, Stage
  <2>3. issued'[s][n] = o /\ snap'[s][n] = Snapshot(o)
    <3>1. issued[s] \in Seq(Op) /\ snap[s] \in Seq(Snap) /\ Len(snap[s]) = Len(issued[s])
      BY <1>1 DEF TaskTypes, Stage
    <3> QED BY <2>1, <3>1
  <2>4. Cur(s)' = o /\ snap'[s][Id(s)'] = Snapshot(o)
    BY <2>1, <2>2, <2>3 DEF Cur, Id
  <2>5. Entitled(o)' = Entitled(o)
    BY <2>1 DEF Entitled, TopicAt, subVars
  <2>6. o.op \in Publish => Snapshot(o).due = Entitled(o) /\ Snapshot(o).barred = Client \ Entitled(o)
    BY DEF Snapshot, Publish
  <2>7. Entitled(Cur(s))' = Entitled(o)
    BY <2>4, <2>5 DEF Entitled, TopicAt
  <2>8. o.op \in Publish => (\A r \in Entitled(o) : OnWay(s, r)') /\ \A r \in Client \ Entitled(o) : Off(s, r)'
    BY <2>1, <2>7 DEF OnWay, Off
  <2> QED BY <2>4, <2>6, <2>8 DEF Due, Bar
<1>3. CASE issued'[s] = issued[s] /\ snap'[s] = snap[s]
  <2>1. CASE done'[s] = done[s] + 1
    <3>1. ~Busy(s)'
      BY <1>1, <1>3, <2>1 DEF Busy, Recorded
    <3> QED BY <3>1 DEF Due, Bar
  <2>2. CASE done'[s] = done[s] /\ Busy(s) /\ Cur(s).op \in Publish
    <3>1. PICK n \in 1..Len(issued[s]) : n = done[s] + 1
      BY <1>1, <2>2 DEF Busy
    <3>2. Id(s) = n /\ Id(s)' = n /\ snap'[s][n] = snap[s][n] /\ snap[s][n].due \in SUBSET Client
          /\ snap[s][n].barred \in SUBSET Client
      BY <1>3, <2>2, <3>1, OpFacts DEF Id
    <3>3. ASSUME NEW r \in snap[s][n].due PROVE Withdrawn(r, s, n)' \/ OnWay(s, r)'
      <4>1. Withdrawn(r, s, n) \/ OnWay(s, r)
        BY <2>2, <3>2, <3>3 DEF Due
      <4>2. r \in Client
        BY <3>2, <3>3
      <4> QED BY <2>2, <3>1, <4>1, <4>2, WithdrawnStays, NextWay
    <3>4. ASSUME NEW r \in snap[s][n].barred PROVE Joined(r, s, n)' \/ Off(s, r)'
      <4>1. Joined(r, s, n) \/ Off(s, r)
        BY <2>2, <3>2, <3>4 DEF Bar
      <4>2. r \in Client
        BY <3>2, <3>4
      <4> QED BY <2>2, <3>1, <4>1, <4>2, WithdrawnStays, NextWay
    <3>5. ASSUME NEW r \in Client
          PROVE  /\ Withdrawn(r, s, n)' => Withdrawn(r, s, Id(s))'
                 /\ Joined(r, s, n)' => Joined(r, s, Id(s))'
      BY <3>2 DEF Withdrawn, Joined
    <3>6. Due(s)'
      BY <3>2, <3>3, <3>5 DEF Due
    <3>7. Bar(s)'
      BY <3>2, <3>4, <3>5 DEF Bar
    <3> QED BY <3>6, <3>7
  <2>3. CASE done'[s] = done[s] /\ ~(Busy(s) /\ Cur(s).op \in Publish)
    BY <1>3, <2>3 DEF Due, Bar, Busy, Cur
  <2> QED BY <2>1, <2>2, <2>3, Advance
<1>4. CASE Acts(s) /\ ~(\E o \in Script[s] : Issue(s, o))
  <2>1. UNCHANGED <<issued, snap>>
    BY <1>4 DEF Acts, TakeSubscribe, Subscribe, Unsubscribe, Exclude, Unexclude, Refuse, LookupMissing,
       NoReceiver, Collect, Retain, CheckRoom, CheckFull, Evict, EvictEnd, Send, SendClosed, SendAck, Return, End
  <2> QED BY <1>3, <2>1
<1>5. CASE Same(s)
  BY <1>3, <1>5 DEF Same
<1> QED BY <1>2, <1>4, <1>5, WhoActs

\* The operation that is about to be confirmed is carried out, and so is every
\* one whose confirmation was sent.
Told(s) ==
  pc[s] = "ack" /\ acks[s] = <<"OK">> /\ Cur(s).op = "message" => Reaches(Cur(s).to, s, Id(s))
Paid(s) ==
  \A f \in In(s) : f.kind = "ack" /\ f.code = "OK" => Fulfilled(s, f.id)

\* Whoever was barred from a publication and got it has asked for the topic.
Guarded(s) ==
  \A n \in 1..Len(issued[s]) : \A r \in snap[s][n].barred : Reaches(r, s, n) => Joined(r, s, n)

LEMMA FulfilledStays ==
  ASSUME StageInv, [Next]_vars, NEW s \in Client, NEW n \in 1..Len(issued[s]), Fulfilled(s, n)
  PROVE  Fulfilled(s, n)'
<1>1. issued'[s][n] = issued[s][n] /\ snap'[s][n] = snap[s][n]
  BY StepGrows DEF Grows
<1>2. ASSUME issued[s][n].op = "message" PROVE Reaches(issued[s][n].to, s, n)'
  <2>1. PICK r \in Client : r = issued[s][n].to
    BY <1>2, OpFacts
  <2>2. Reaches(r, s, n)'
    BY <1>2, <2>1, ReachesStays DEF Fulfilled
  <2> QED BY <1>1, <2>1, <2>2 DEF Reaches
<1>3. ASSUME issued[s][n].op \in Publish, NEW r \in snap[s][n].due
      PROVE  Reaches(r, s, n)' \/ Withdrawn(r, s, n)'
  <2>1. r \in Client
    BY <1>3, OpFacts
  <2>2. Reaches(r, s, n) \/ Withdrawn(r, s, n)
    BY <1>3 DEF Fulfilled
  <2> QED BY <2>1, <2>2, ReachesStays, WithdrawnStays
<1> QED BY <1>1, <1>2, <1>3 DEF Fulfilled

LEMMA NextPaid ==
  ASSUME StageInv, [Next]_vars, NEW s \in Client, AckPast(s), Due(s), Told(s), Paid(s)
  PROVE  Paid(s)'
<1> SUFFICES ASSUME NEW f \in In(s)', f.kind = "ack", f.code = "OK" PROVE Fulfilled(s, f.id)'
  BY DEF Paid
<1>1. CASE f \in In(s)
  BY <1>1, FulfilledStays DEF AckPast, Paid
<1>2. CASE f \notin In(s)
  <2>1. /\ f = AckOf(s, Head(acks[s])) /\ f.id = done[s] + 1 /\ Busy(s) /\ done[s] \in Nat
        /\ Len(issued[s]) \in Nat /\ acks[s] # <<>> /\ pc[s] = "ack"
    BY <1>2, NewAck
  <2>2. TypeOK /\ Stage(s)
    BY StageParts
  <2>3. acks[s] = <<"OK">>
    <3>1. acks[s] \in Seq(Codes) /\ Len(acks[s]) = 1 /\ Head(acks[s]) = "OK"
      BY <2>1, <2>2 DEF TypeOK, Stage, AckOf
    <3> QED BY <3>1
  <2>4. PICK n \in 1..Len(issued[s]) : n = f.id
    BY <2>1 DEF Busy
  <2>5. Id(s) = n /\ Cur(s) = issued[s][n]
    BY <2>1, <2>4 DEF Id, Cur
  <2>6. Fulfilled(s, n)
    <3>1. issued[s][n].op = "message" => Reaches(issued[s][n].to, s, n)
      BY <2>1, <2>3, <2>5 DEF Told
    <3>2. ASSUME issued[s][n].op \in Publish, NEW r \in snap[s][n].due
          PROVE  Reaches(r, s, n) \/ Withdrawn(r, s, n)
      BY <2>1, <2>3, <2>5, <3>2 DEF Due, OnWay
    <3> QED BY <3>1, <3>2 DEF Fulfilled
  <2>7. Fulfilled(s, n)'
    BY <2>6, FulfilledStays
  <2> QED BY <2>4, <2>7
<1> QED BY <1>1, <1>2

LEMMA NextTold ==
  ASSUME StageInv, [Next]_vars, NEW s \in Client, Told(s)
  PROVE  Told(s)'
<1>1. TaskTypes /\ TypeOK /\ Stage(s)
  BY StageParts
<1>2. ASSUME NEW r, NEW n, Reaches(r, s, n)', Cur(s)'.to = r, Id(s)' = n PROVE Told(s)'
  BY <1>2 DEF Told, Reaches
<1>3. CASE pc'[s] # "ack" \/ acks'[s] # <<"OK">>
  BY <1>3 DEF Told
<1>4. CASE Same(s)
  <2>1. /\ pc'[s] = pc[s] /\ acks'[s] = acks[s] /\ Cur(s)' = Cur(s) /\ Id(s)' = Id(s)
    BY <1>4 DEF Same, Cur, Id
  <2>2. CASE pc[s] = "ack" /\ acks[s] = <<"OK">> /\ Cur(s).op = "message"
    <3>1. PICK r, n : r = Cur(s).to /\ n = Id(s)
      OBVIOUS
    <3>2. Busy(s)
      BY <1>1, <2>2 DEF Stage
    <3>3. r \in Client
      BY <1>1, <2>2, <3>1, <3>2, CurFacts DEF Sane
    <3>4. Reaches(r, s, n)'
      BY <2>2, <3>1, <3>3, ReachesStays DEF Told
    <3> QED BY <1>2, <2>1, <3>1, <3>4
  <2>3. CASE ~(pc[s] = "ack" /\ acks[s] = <<"OK">> /\ Cur(s).op = "message")
    BY <2>1, <2>3 DEF Told
  <2> QED BY <2>2, <2>3
<1>5. CASE Send(s)
  <2>1. PICK r, n : r = tgt[s] /\ n = done[s] + 1
    OBVIOUS
  <2>2. Reaches(r, s, n)'
    BY <1>5, <2>1, SendReaches
  <2>3. issued' = issued
    BY <1>5 DEF Send
  <2>4. CASE pc'[s] = "ack" /\ Cur(s).op = "message"
    <3>1. done'[s] = done[s] /\ pc[s] \in {"send", "wait"}
      BY <1>5, <2>4, SendFacts
    <3>2. r = Cur(s).to /\ Cur(s)' = Cur(s) /\ Id(s)' = n
      BY <1>1, <2>1, <2>3, <2>4, <3>1 DEF Stage, Cur, Id
    <3> QED BY <1>2, <2>2, <3>2
  <2>5. CASE pc'[s] = "ack" /\ Cur(s).op # "message"
    <3>1. Cur(s)' = Cur(s)
      BY <1>5, <2>3, <2>5, SendFacts DEF Cur
    <3> QED BY <2>5, <3>1 DEF Told
  <2> QED BY <1>3, <2>4, <2>5
<1>6. CASE /\ issued' = issued /\ Cur(s).op # "message"
           /\ done'[s] = done[s] \/ pc'[s] # "ack"
  BY <1>3, <1>6 DEF Told, Cur
<1>7. ASSUME NEW code, Answer(s, code) PROVE pc'[s] # "ack" \/ (acks'[s] = <<code>> /\ done'[s] = done[s])
  BY <1>1, <1>7 DEF Answer, Goto, TaskTypes
<1>8. CASE Subscribe(s) \/ Unsubscribe(s) \/ Exclude(s) \/ Unexclude(s)
  <2>1. issued' = issued /\ Cur(s).op # "message" /\ Answer(s, "OK")
    BY <1>1, <1>8 DEF Subscribe, Unsubscribe, Exclude, Unexclude, Stage
  <2> QED BY <1>6, <1>7, <2>1
<1>9. CASE Refuse(s) \/ LookupMissing(s)
  <2>1. Answer(s, "ERR_ACCESS") \/ Answer(s, "ERR_NOT_REGISTERED")
    BY <1>9 DEF Refuse, LookupMissing
  <2>2. <<"ERR_ACCESS">> # <<"OK">> /\ <<"ERR_NOT_REGISTERED">> # <<"OK">>
    OBVIOUS
  <2> QED BY <1>3, <1>7, <2>1, <2>2
<1>10. CASE NoReceiver(s)
  <2>1. issued' = issued /\ Answer(s, "OK") /\ pc[s] = "deliver" /\ todo[s] = {}
    BY <1>10 DEF NoReceiver
  <2>2. Cur(s).op # "message"
    BY <1>1, <2>1 DEF Stage
  <2> QED BY <1>6, <1>7, <2>1, <2>2
<1>11. CASE EvictEnd(s) \/ SendClosed(s)
  <2>1. /\ issued' = issued
        /\ \E left : Served(s, left, "ERR_NOT_DELIVERED") \/ Served(s, left, "EOF")
    BY <1>11 DEF EvictEnd, SendClosed
  <2>2. CASE Cur(s).op = "message"
    <3>1. Answer(s, "ERR_NOT_DELIVERED") \/ Answer(s, "EOF")
      BY <2>1, <2>2 DEF Served
    <3>2. <<"ERR_NOT_DELIVERED">> # <<"OK">> /\ <<"EOF">> # <<"OK">>
      OBVIOUS
    <3> QED BY <1>3, <1>7, <3>1, <3>2
  <2>3. CASE Cur(s).op # "message"
    <3>1. Answer(s, "OK") \/ pc'[s] # "ack"
      BY <1>1, <2>1, <2>3 DEF Served, Goto, TaskTypes
    <3> QED BY <1>6, <1>7, <2>1, <2>3, <3>1
  <2> QED BY <2>2, <2>3
<1>12. CASE \/ \E o \in Script[s] : Issue(s, o)
            \/ \E x \in Client : CheckRoom(s, x) \/ CheckFull(s, x) \/ Evict(s, x)
  <2>1. pc'[s] # "ack"
    BY <1>1, <1>12 DEF Issue, CheckRoom, CheckFull, Evict, Goto, TaskTypes
  <2> QED BY <1>3, <2>1
<1>13. CASE TakeSubscribe(s) \/ Collect(s) \/ Retain(s) \/ SendAck(s) \/ Return(s) \/ End(s)
  <2>1. pc'[s] # "ack"
    BY <1>1, <1>13 DEF TakeSubscribe, Collect, Retain, SendAck, Return, AckSent, End, Goto, TaskTypes
  <2> QED BY <1>3, <2>1
<1> QED BY <1>3, <1>4, <1>5, <1>8, <1>9, <1>10, <1>11, <1>12, <1>13, WhoActs DEF Acts

LEMMA NextGuarded ==
  ASSUME StageInv, [Next]_vars, \A x \in Client : Recorded(x), NEW s \in Client,
         Past(s), Bar(s), Guarded(s)
  PROVE  Guarded(s)'
<1> SUFFICES ASSUME NEW n \in 1..Len(issued'[s]), NEW r \in snap'[s][n].barred, Reaches(r, s, n)'
             PROVE  Joined(r, s, n)'
  BY DEF Guarded
<1>1. TaskTypes /\ TypeOK /\ Stage(s) /\ done[s] \in Nat /\ Len(issued[s]) \in Nat
  BY StageParts DEF TaskTypes
<1>2. r \in Client
  <2>1. StageInv'
    BY NextStageInv
  <2>2. snap'[s] \in Seq(Snap) /\ Len(snap'[s]) = Len(issued'[s])
    BY <2>1 DEF StageInv, Stage
  <2>3. snap'[s][n] \in Snap
    BY <2>2
  <2> QED BY <2>3 DEF Snap
<1>3. PICK f \in In(r)' : IsFrom(f, s) /\ f.id = n
  BY DEF Reaches, IsFrom
<1>4. CASE n \in 1..Len(issued[s])
  <2>1. snap'[s][n] = snap[s][n] /\ issued'[s][n] = issued[s][n]
    BY <1>4, StepGrows DEF Grows
  <2>2. CASE f \in In(r)
    <3>1. Joined(r, s, n)
      BY <1>3, <1>4, <2>1, <2>2 DEF Guarded, Reaches
    <3> QED BY <1>2, <1>4, <3>1, WithdrawnStays
  <2>3. CASE f \notin In(r)
    <3>1. PICK c \in Client : Send(c) /\ r = tgt[c] /\ f = FrameOf(c)
      BY <1>2, <1>3, <2>3, StepFlow DEF Flow, Puts, IsFrom, AckOf
    <3>2. c = s /\ f.id = done[s] + 1 /\ Busy(s) /\ pc[s] \in {"send", "wait"}
      BY <1>3, <3>1, SendFacts DEF IsFrom
    <3>3. Id(s) = n /\ Cur(s) = issued[s][n]
      BY <1>3, <3>2 DEF Id, Cur
    <3>4. Cur(s).op \in Publish
      BY <1>4, <2>1, <3>3 DEF Recorded
    <3>5. Joined(r, s, n) \/ Off(s, r)
      BY <2>1, <3>2, <3>3, <3>4 DEF Bar
    <3>6. Joined(r, s, n)
      BY <3>1, <3>2, <3>5 DEF Off
    <3> QED BY <1>2, <1>4, <3>6, WithdrawnStays
  <2> QED BY <2>2, <2>3
<1>5. CASE n \notin 1..Len(issued[s])
  <2>1. PICK o \in Script[s] : Issue(s, o)
    <3>1. issued'[s] # issued[s]
      BY <1>5
    <3>2. Acts(s)
      BY <3>1, WhoActs DEF Same
    <3>3. CASE ~(\E o \in Script[s] : Issue(s, o))
      BY <3>1, <3>2, <3>3 DEF Acts, TakeSubscribe, Subscribe, Unsubscribe, Exclude, Unexclude, Refuse,
         LookupMissing, NoReceiver, Collect, Retain, CheckRoom, CheckFull, Evict, EvictEnd, Send, SendClosed, SendAck,
         Return, End
    <3> QED BY <3>3
  <2>2. /\ pc[s] = "idle" /\ ~Busy(s) /\ UNCHANGED <<got, queue>>
        /\ issued'[s] = Append(issued[s], o)
    BY <1>1, <2>1 DEF Issue, outVars, TaskTypes
  <2>3. Len(issued'[s]) = Len(issued[s]) + 1
    BY <1>1, <2>2 DEF TaskTypes
  <2>4. n = done[s] + 1
    BY <1>1, <1>5, <2>2, <2>3 DEF Busy, Stage
  <2>5. f \in In(r)
    BY <2>2 DEF In, ToSet
  <2>6. f.id <= done[s]
    BY <1>2, <1>3, <2>2, <2>5 DEF Past, Reached
  <2> QED BY <1>1, <1>3, <2>4, <2>6
<1> QED BY <1>4, <1>5

\* Everything that is known of the frames and of their confirmations.
DeliveryInv ==
  /\ OrderInv
  /\ \A s \in Client :
       Recorded(s) /\ AckPast(s) /\ Due(s) /\ Bar(s) /\ Told(s) /\ Paid(s) /\ Guarded(s)

LEMMA InitDeliveryInv == Init => DeliveryInv
<1> SUFFICES ASSUME Init PROVE DeliveryInv
  OBVIOUS
<1>1. ASSUME NEW s \in Client
      PROVE  Recorded(s) /\ AckPast(s) /\ Due(s) /\ Bar(s) /\ Told(s) /\ Paid(s) /\ Guarded(s)
  <2>1. /\ got[s] = <<>> /\ queue[s] = <<>> /\ issued[s] = <<>> /\ done[s] = 0 /\ pc[s] = "idle"
        /\ Len(issued[s]) = 0
    BY <1>1 DEF Init
  <2>2. In(s) = {} /\ ~Busy(s)
    BY <2>1 DEF In, ToSet, Busy
  <2>3. Recorded(s) /\ Guarded(s)
    BY <2>1 DEF Recorded, Guarded
  <2> QED BY <2>1, <2>2, <2>3 DEF AckPast, Due, Bar, Told, Paid
<1> QED BY <1>1, InitOrderInv DEF DeliveryInv

LEMMA NextDeliveryInv == DeliveryInv /\ [Next]_vars => DeliveryInv'
<1> SUFFICES ASSUME DeliveryInv, [Next]_vars PROVE DeliveryInv'
  OBVIOUS
<1>1. OrderInv'
  BY NextOrderInv DEF DeliveryInv
<1>2. StageInv /\ \A x \in Client : Recorded(x)
  BY DEF DeliveryInv, OrderInv
<1>3. \A s \in Client : Recorded(s)'
  BY <1>2, NextRecorded
<1>4. ASSUME NEW s \in Client
      PROVE  AckPast(s)' /\ Due(s)' /\ Bar(s)' /\ Told(s)' /\ Paid(s)' /\ Guarded(s)'
  <2>1. AckPast(s) /\ Due(s) /\ Bar(s) /\ Told(s) /\ Paid(s) /\ Guarded(s) /\ Past(s)
    BY <1>4 DEF DeliveryInv, OrderInv
  <2> QED BY <1>2, <2>1, NextAckPast, NextDue, NextTold, NextPaid, NextGuarded
<1> QED BY <1>1, <1>3, <1>4 DEF DeliveryInv

LEMMA DeliveryInvTrue == Spec => []DeliveryInv
  BY InitDeliveryInv, NextDeliveryInv, PTL DEF Spec

\* The stream of a client is what was put into its queue.
LEMMA StreamFacts ==
  ASSUME TypeOK, NEW r \in Client
  PROVE  ToSet(Stream(r)) = In(r) /\ \A i \in 1..Len(Stream(r)) : Stream(r)[i] \in In(r)
<1> DEFINE g == got[r]
           q == queue[r]
<1>1. g \in Seq(Frame) /\ q \in Seq(Frame)
  BY DEF TypeOK
<1> HIDE DEF g, q
<1> DEFINE p == g \o q
<1>2. /\ Len(g) \in Nat /\ Len(q) \in Nat /\ Len(p) = Len(g) + Len(q)
      /\ \A k \in 1..Len(g) + Len(q) : p[k] = IF k <= Len(g) THEN g[k] ELSE q[k - Len(g)]
  BY <1>1
<1> HIDE DEF p
<1>3. ASSUME NEW i \in 1..Len(p) PROVE p[i] \in ToSet(g) \cup ToSet(q)
  <2>1. CASE i <= Len(g)
    <3>1. i \in 1..Len(g) /\ p[i] = g[i]
      BY <1>2, <2>1
    <3> QED BY <3>1 DEF ToSet
  <2>2. CASE i > Len(g)
    <3>1. PICK k \in 1..Len(q) : k = i - Len(g)
      BY <1>2, <2>2
    <3>2. p[i] = q[k]
      BY <1>2, <2>2, <3>1
    <3> QED BY <3>2 DEF ToSet
  <2> QED BY <1>2, <2>1, <2>2
<1>4. ASSUME NEW f \in ToSet(g) PROVE f \in ToSet(p)
  <2>1. PICK k \in 1..Len(g) : f = g[k]
    BY <1>4 DEF ToSet
  <2>2. k \in 1..Len(p) /\ p[k] = f
    BY <1>2, <2>1
  <2> QED BY <2>2 DEF ToSet
<1>5. ASSUME NEW f \in ToSet(q) PROVE f \in ToSet(p)
  <2>1. PICK k \in 1..Len(q) : f = q[k]
    BY <1>5 DEF ToSet
  <2>2. PICK j \in 1..Len(p) : j = Len(g) + k
    BY <1>2, <2>1
  <2>3. p[j] = f
    BY <1>2, <2>1, <2>2
  <2> QED BY <2>3 DEF ToSet
<1>6. ToSet(p) \subseteq ToSet(g) \cup ToSet(q)
  BY <1>3 DEF ToSet
<1> QED BY <1>3, <1>4, <1>5, <1>6 DEF Stream, In, g, q, p

LEMMA HasFacts ==
  ASSUME TypeOK, NEW r \in Client, NEW s, NEW n
  PROVE  Has(r, s, n) <=> Reaches(r, s, n)
  BY StreamFacts DEF Has, Reaches

LEMMA ConfirmedFacts ==
  ASSUME DeliveryInv, NEW s \in Client, NEW n \in 1..Len(issued[s]), Confirmed(s, n)
  PROVE  Fulfilled(s, n) /\ n <= done[s]
<1>1. TypeOK /\ AckPast(s) /\ Paid(s)
  BY DEF DeliveryInv, OrderInv, StageInv
<1>2. PICK f \in In(s) : f.kind = "ack" /\ f.id = n /\ f.code = "OK"
  BY <1>1, StreamFacts DEF Confirmed, IsAck
<1> QED BY <1>1, <1>2 DEF Paid, AckPast

\* A message that is confirmed to its sender is in the queue of the receiver
\* or was taken from it: no answer of a closed or full queue, of the access
\* list or of the registry is ever taken for a delivery (send!, send_ack!).
THEOREM ConfirmedMessages == Spec => []ConfirmedIsQueued
<1>1. DeliveryInv => ConfirmedIsQueued
  <2> SUFFICES ASSUME DeliveryInv, NEW s \in Client, NEW n \in 1..Len(issued[s]),
                      issued[s][n].op = "message", Confirmed(s, n)
               PROVE  Has(issued[s][n].to, s, n)
    BY DEF ConfirmedIsQueued
  <2>1. StageInv /\ TypeOK
    BY DEF DeliveryInv, OrderInv, StageInv
  <2>2. Reaches(issued[s][n].to, s, n) /\ issued[s][n].to \in Client
    BY <2>1, ConfirmedFacts, OpFacts DEF Fulfilled
  <2> QED BY <2>1, <2>2, HasFacts
<1> QED BY <1>1, DeliveryInvTrue, PTL

\* When a publication is confirmed, every subscriber of the moment it was
\* asked for has it in its queue, unless it withdrew or was unregistered in
\* the meantime, whatever subscriptions, exclusions and evictions happen
\* while the receivers are served one by one (publish!).
THEOREM PublicationsReach == Spec => []PublicationReaches
<1>1. DeliveryInv => PublicationReaches
  <2> SUFFICES ASSUME DeliveryInv, NEW s \in Client, NEW n \in 1..Len(issued[s]),
                      issued[s][n].op \in {"publish", "publish_for"}, Confirmed(s, n),
                      NEW r \in snap[s][n].due
               PROVE  \/ Has(r, s, n) \/ r \notin listed
                      \/ AskedSince(r, snap[s][n].seen[r], {"unsubscribe", "exclude"},
                                    TopicAt(issued[s][n]))
    BY DEF PublicationReaches
  <2>1. StageInv /\ TypeOK
    BY DEF DeliveryInv, OrderInv, StageInv
  <2>2. Reaches(r, s, n) \/ Withdrawn(r, s, n)
    BY ConfirmedFacts DEF Fulfilled, Publish
  <2>3. r \in Client
    BY <2>1, OpFacts
  <2> QED BY <2>1, <2>2, <2>3, HasFacts DEF Withdrawn
<1> QED BY <1>1, DeliveryInvTrue, PTL

\* A client that was not entitled to a publication when it was asked for gets
\* it only if it asked for the topic in the meantime (publish!).
THEOREM OnlyEntitled == Spec => []OnlyEntitledReceive
<1>1. DeliveryInv => OnlyEntitledReceive
  <2> SUFFICES ASSUME DeliveryInv, NEW s \in Client, NEW n \in 1..Len(issued[s]),
                      NEW r \in snap[s][n].barred, Has(r, s, n)
               PROVE  AskedSince(r, snap[s][n].seen[r], {"subscribe", "unexclude"},
                                 TopicAt(issued[s][n]))
    BY DEF OnlyEntitledReceive
  <2>1. StageInv /\ TypeOK /\ Guarded(s)
    BY DEF DeliveryInv, OrderInv, StageInv
  <2>2. r \in Client
    BY <2>1, OpFacts
  <2>3. Reaches(r, s, n)
    BY <2>1, <2>2, HasFacts
  <2> QED BY <2>1, <2>3 DEF Guarded, Joined
<1> QED BY <1>1, DeliveryInvTrue, PTL

-----------------------------------------------------------------------------
(* What the answer to a subscription says *)

Processed(c, n) == n <= done[c] \/ (n = done[c] + 1 /\ pc[c] = "ack")

\* A subscription that was processed has its effect on the topics allowed.
Effective(c) ==
  \A n \in 1..Len(issued[c]) :
    issued[c][n].op = "subscribe" /\ Processed(c, n) =>
      \A t \in ToSet(issued[c][n].topics) :
        Allowed(c, "subscribe", t) =>
          c \in subs[t] \/ c \notin listed \/ AskedSince(c, n, {"unsubscribe"}, t)

LEMMA TopicsFacts ==
  ASSUME StageInv, NEW s \in Client, NEW n \in 1..Len(issued[s]), NEW t \in ToSet(issued[s][n].topics)
  PROVE  t \in Topic /\ \E i \in 1..Len(issued[s][n].topics) : t = issued[s][n].topics[i]
<1>1. issued[s][n].topics \in Seq(Topic)
  BY OpFacts DEF Sane, Op
<1> QED BY <1>1 DEF ToSet

LEMMA NextEffective ==
  ASSUME StageInv, [Next]_vars, NEW c \in Client, Recorded(c), Effective(c)
  PROVE  Effective(c)'
<1> SUFFICES ASSUME NEW n \in 1..Len(issued'[c]), issued'[c][n].op = "subscribe", Processed(c, n)',
                    NEW t \in ToSet(issued'[c][n].topics), Allowed(c, "subscribe", t)
             PROVE  c \in subs'[t] \/ c \notin listed' \/ AskedSince(c, n, {"unsubscribe"}, t)'
  BY DEF Effective, Allowed
<1>1. TaskTypes /\ TypeOK /\ Stage(c) /\ done[c] \in Nat /\ Len(issued[c]) \in Nat
  BY StageParts DEF TaskTypes
<1>2. CASE n \notin 1..Len(issued[c])
  <2>1. issued'[c] # issued[c]
    BY <1>2
  <2>2. Acts(c)
    BY <2>1, WhoActs DEF Same
  <2>3. CASE ~(\E o \in Script[c] : Issue(c, o))
    BY <2>1, <2>2, <2>3 DEF Acts, TakeSubscribe, Subscribe, Unsubscribe, Exclude, Unexclude, Refuse,
       LookupMissing, NoReceiver, Collect, Retain, CheckRoom, CheckFull, Evict, EvictEnd, Send, SendClosed, SendAck,
       Return, End
  <2>4. CASE \E o \in Script[c] : Issue(c, o)
    <3>1. done' = done /\ pc'[c] = "idle"
      BY <2>4 DEF Issue
    <3>2. n <= done[c]
      BY <3>1 DEF Processed
    <3>3. done[c] <= Len(issued[c])
      BY <1>1 DEF Stage
    <3> QED BY <1>1, <1>2, <3>2, <3>3
  <2> QED BY <2>3, <2>4
<1>3. CASE n \in 1..Len(issued[c])
  <2>1. issued'[c][n] = issued[c][n] /\ Grows(c)
    BY <1>3, StepGrows DEF Grows
  <2>2. t \in Topic /\ listed' \subseteq listed
    BY <1>3, <2>1, TopicsFacts, ListedShrinks
  <2>3. CASE Processed(c, n)
    <3>1. c \in subs[t] \/ c \notin listed \/ AskedSince(c, n, {"unsubscribe"}, t)
      BY <1>3, <2>1, <2>3 DEF Effective
    <3>2. c \in subs[t] => c \in subs'[t] \/ c \notin listed' \/ Turns(c, {"unsubscribe"}, t)
      BY <2>2, StepTopical DEF Topical
    <3>3. ASSUME Turns(c, {"unsubscribe"}, t) PROVE AskedSince(c, n, {"unsubscribe"}, t)
      <4>1. n # done[c] + 1
        BY <2>1, <3>3 DEF Turns, Cur
      <4>2. n <= done[c] /\ n \in Nat
        BY <1>3, <2>3, <4>1 DEF Processed
      <4> QED BY <1>1, <3>3, <4>2, TurnsAsked
    <3>4. AskedSince(c, n, {"unsubscribe"}, t) => AskedSince(c, n, {"unsubscribe"}, t)'
      BY <1>1, <2>1, AskedGrows
    <3> QED BY <2>2, <3>1, <3>2, <3>3, <3>4
  <2>4. CASE ~Processed(c, n)
    <3>1. n = done[c] + 1
      <4>1. n \in Nat /\ n <= done[c] + 1
        BY <1>1, <1>3 DEF Recorded
      <4> QED BY <1>1, <2>4, <4>1 DEF Processed
    <3>2. Cur(c).op = "subscribe" /\ t \in ToSet(Cur(c).topics)
      BY <2>1, <3>1 DEF Cur
    <3>3. CASE Subscribe(c)
      BY <2>2, <3>2, <3>3 DEF Subscribe, outVars
    <3>4. CASE Same(c)
      BY <2>4, <3>4 DEF Same, Processed
    <3>5. CASE (\E o \in Script[c] : Issue(c, o)) \/ TakeSubscribe(c) \/ End(c)
      <4>1. done' = done /\ pc'[c] # "ack"
        BY <1>1, <3>5 DEF Issue, TakeSubscribe, End, Goto, TaskTypes
      <4> QED BY <2>4, <4>1 DEF Processed
    <3>6. CASE SendAck(c) \/ Return(c)
      <4>1. pc[c] = "deny" /\ done' = done /\ pc' = pc
        BY <2>4, <3>1, <3>6 DEF SendAck, Return, AckSent, Processed
      <4> QED BY <2>4, <4>1 DEF Processed
    <3>7. Same(c) \/ Subscribe(c) \/ (\E o \in Script[c] : Issue(c, o)) \/ TakeSubscribe(c) \/ End(c)
          \/ SendAck(c) \/ Return(c)
      BY <1>1, <3>2, WhoActs DEF Acts, Unsubscribe, Exclude, Unexclude, Refuse, LookupMissing, Routed,
         TopicOps, NoReceiver, Collect, Retain, CheckRoom, CheckFull, Evict, EvictEnd, Send, SendClosed, Stage, Publish
    <3> QED BY <3>3, <3>4, <3>5, <3>6, <3>7
  <2> QED BY <2>3, <2>4
<1> QED BY <1>2, <1>3

\* A subscription with a topic that is not allowed; only a connection has one.
Forbidden(c, n) ==
  /\ issued[c][n].op = "subscribe"
  /\ \E t \in ToSet(issued[c][n].topics) : ~Allowed(c, "subscribe", t)
HasAck(c, n) == \E f \in In(c) : IsAck(f, n)

\* Its refusal is still to be sent, or was sent before the confirmation is.
Warned(c) ==
  /\ pc[c] = "deny" /\ Cur(c).ack /\ Forbidden(c, Id(c)) => acks[c] # <<>> \/ HasAck(c, Id(c))
  /\ pc[c] = "ack" /\ Forbidden(c, Id(c)) => HasAck(c, Id(c))

LEMMA HasAckStays ==
  ASSUME StageInv, [Next]_vars, NEW c \in Client, NEW n, HasAck(c, n)
  PROVE  HasAck(c, n)'
<1>1. PICK f \in In(c) : IsAck(f, n)
  BY DEF HasAck
<1>2. f \in In(c)'
  BY <1>1, StepFlow DEF Flow, IsAck
<1> QED BY <1>1, <1>2 DEF HasAck

LEMMA NextWarned ==
  ASSUME StageInv, [Next]_vars, NEW c \in Client, Warned(c)
  PROVE  Warned(c)'
<1>1. TaskTypes /\ OutTypes /\ TypeOK /\ Stage(c) /\ done[c] \in Nat /\ Len(issued[c]) \in Nat
  BY StageParts DEF TaskTypes
<1>2. PICK n : n = Id(c)
  OBVIOUS
<1>3. HasAck(c, n) => HasAck(c, n)'
  BY HasAckStays
<1>4. CASE pc'[c] \notin {"deny", "ack"}
  BY <1>4 DEF Warned
<1>5. CASE Same(c)
  <2>1. Cur(c)' = Cur(c) /\ Id(c)' = n /\ Forbidden(c, Id(c))' = Forbidden(c, n)
    BY <1>2, <1>5 DEF Same, Cur, Id, Forbidden, Allowed
  <2>2. HasAck(c, n)' => HasAck(c, Id(c))'
    BY <2>1 DEF HasAck
  <2> QED BY <1>2, <1>3, <1>5, <2>1, <2>2 DEF Same, Warned
<1>6. CASE TakeSubscribe(c)
  <2>1. /\ pc'[c] = "deny" /\ Busy(c) /\ UNCHANGED <<issued, done>> /\ Cur(c)' = Cur(c) /\ Id(c)' = n
        /\ Cur(c).ack => acks'[c] = [i \in 1..Cardinality(Refused(c)) |-> "ERR_ACCESS"]
    BY <1>1, <1>2, <1>6 DEF TakeSubscribe, Goto, TaskTypes, Cur, Id
  <2>2. Forbidden(c, Id(c))' => Refused(c) # {}
    <3> SUFFICES ASSUME Forbidden(c, Id(c))' PROVE Refused(c) # {}
      OBVIOUS
    <3>1. PICK t \in ToSet(Cur(c).topics) : ~Allowed(c, "subscribe", t)
      BY <1>2, <2>1 DEF Forbidden, Cur, Id, Allowed
    <3>2. PICK i \in 1..Len(Cur(c).topics) : t = Cur(c).topics[i]
      BY <3>1 DEF ToSet
    <3> QED BY <3>1, <3>2 DEF Refused
  <2>3. Refused(c) # {} /\ Cur(c).ack => acks'[c] # <<>>
    <3> DEFINE k == Cardinality(Refused(c))
               q == [i \in 1..k |-> "ERR_ACCESS"]
    <3>1. Refused(c) # {} => k \in Nat /\ k > 0 /\ Len(q) = k
      BY <1>1, <2>1, RefusedFacts
    <3> HIDE DEF q
    <3>2. Refused(c) # {} => q # <<>>
      BY <3>1
    <3> QED BY <2>1, <3>2 DEF q
  <2> QED BY <2>1, <2>2, <2>3 DEF Warned
<1>7. CASE Subscribe(c)
  <2>1. pc'[c] \notin {"ack", "deny"} \/ (pc'[c] = "ack" /\ Cur(c).ack /\ done' = done)
    BY <1>1, <1>7 DEF Subscribe, Answer, Goto, TaskTypes
  <2>2. issued' = issued /\ pc[c] = "deny" /\ acks[c] = <<>>
    BY <1>7 DEF Subscribe
  <2>3. CASE pc'[c] = "ack" /\ Cur(c).ack /\ done' = done
    <3>1. Id(c)' = n /\ Forbidden(c, Id(c))' = Forbidden(c, n)
      BY <1>2, <2>2, <2>3 DEF Id, Forbidden, Allowed
    <3>2. Forbidden(c, n) => HasAck(c, n)
      BY <1>2, <2>2, <2>3 DEF Warned
    <3>3. HasAck(c, n)' => HasAck(c, Id(c))'
      BY <3>1 DEF HasAck
    <3> QED BY <1>3, <2>3, <3>1, <3>2, <3>3 DEF Warned
  <2> QED BY <1>4, <2>1, <2>3
<1>8. CASE SendAck(c) \/ Return(c)
  <2>1. acks[c] # <<>> /\ pc[c] \in {"ack", "deny"} /\ issued' = issued
    BY <1>8 DEF SendAck, Return, AckSent
  <2>2. pc'[c] = "idle" \/ (pc'[c] = "deny" /\ done' = done)
    BY <1>1, <1>8 DEF SendAck, Return, AckSent, Goto, TaskTypes
  <2>3. CASE pc'[c] = "deny" /\ done' = done
    <3>1. PICK f \in Frame : f = AckOf(c, Head(acks[c]))
      BY <1>1, <2>1, AckFrame
    <3>2. IsAck(f, n)
      BY <1>2, <3>1 DEF IsAck, AckOf
    <3>3. f \in In(c)'
      <4>1. CASE SendAck(c)
        <5>1. queue'[c] = Append(queue[c], f) /\ queue[c] \in Seq(Frame)
          BY <1>1, <3>1, <4>1 DEF SendAck, OutTypes
        <5> QED BY <5>1, AppendSet DEF In
      <4>2. CASE Return(c)
        <5>1. got'[c] = Append(got[c], f) /\ got[c] \in Seq(Frame)
          BY <1>1, <3>1, <4>2 DEF Return, OutTypes
        <5> QED BY <5>1, AppendSet DEF In
      <4> QED BY <1>8, <4>1, <4>2
    <3>4. Id(c)' = n
      BY <1>2, <2>3 DEF Id
    <3>5. HasAck(c, Id(c))'
      BY <3>2, <3>3, <3>4 DEF HasAck
    <3> QED BY <2>3, <3>5 DEF Warned
  <2> QED BY <1>4, <2>2, <2>3
<1>9. CASE /\ issued' = issued /\ Cur(c).op # "subscribe" /\ pc'[c] # "deny"
           /\ done'[c] = done[c] \/ pc'[c] # "ack"
  BY <1>9 DEF Warned, Forbidden, Cur, Id
<1>10. CASE \/ Unsubscribe(c) \/ Exclude(c) \/ Unexclude(c) \/ Refuse(c) \/ LookupMissing(c) \/ NoReceiver(c)
  <2>1. issued' = issued /\ Cur(c).op # "subscribe" /\ \E code : Answer(c, code)
    BY <1>1, <1>10 DEF Unsubscribe, Exclude, Unexclude, Refuse, LookupMissing, Routed, TopicOps, NoReceiver,
       Stage, Publish
  <2>2. pc'[c] # "deny" /\ (done'[c] = done[c] \/ pc'[c] # "ack")
    BY <1>1, <2>1 DEF Answer, Goto, TaskTypes
  <2> QED BY <1>9, <2>1, <2>2
<1>11. CASE EvictEnd(c) \/ Send(c) \/ SendClosed(c)
  <2>1. issued' = issued /\ Cur(c).op # "subscribe" /\ \E left, code : Served(c, left, code)
    BY <1>1, <1>11 DEF EvictEnd, Send, SendClosed, Stage, Publish
  <2>2. pc'[c] # "deny" /\ (done'[c] = done[c] \/ pc'[c] # "ack")
    BY <1>1, <2>1 DEF Served, Answer, Goto, TaskTypes
  <2> QED BY <1>9, <2>1, <2>2
<1>12. CASE \/ (\E o \in Script[c] : Issue(c, o)) \/ (\E x \in Client : CheckRoom(c, x) \/ CheckFull(c, x) \/ Evict(c, x))
            \/ Collect(c) \/ Retain(c) \/ End(c)
  <2>1. pc'[c] \notin {"deny", "ack"}
    BY <1>1, <1>12 DEF Issue, CheckRoom, CheckFull, Evict, Collect, Retain, End, Goto, TaskTypes
  <2> QED BY <1>4, <2>1
<1> QED BY <1>5, <1>6, <1>7, <1>8, <1>10, <1>11, <1>12, WhoActs DEF Acts

\* In a sequence, the confirmation of n comes after another answer to n, which
\* may also be among the frames of F.
Leads(F, q, n) ==
  \A i \in 1..Len(q) : IsAck(q[i], n) /\ q[i].code = "OK" =>
    (\E f \in F : IsAck(f, n)) \/ \E j \in 1..i-1 : IsAck(q[j], n)
Led(c) ==
  \A n \in 1..Len(issued[c]) :
    Forbidden(c, n) => Leads({}, got[c], n) /\ Leads(ToSet(got[c]), queue[c], n)

LEMMA LeadsAppend ==
  ASSUME NEW q \in Seq(Frame), NEW f \in Frame, NEW F, NEW n, Leads(F, q, n),
         IsAck(f, n) /\ f.code = "OK" => \E g \in F \cup ToSet(q) : IsAck(g, n)
  PROVE  Leads(F, Append(q, f), n)
<1> DEFINE p == Append(q, f)
<1>1. /\ Len(q) \in Nat /\ Len(p) = Len(q) + 1 /\ p[Len(q) + 1] = f
      /\ \A i \in 1..Len(q) : p[i] = q[i]
  OBVIOUS
<1> HIDE DEF p
<1> SUFFICES ASSUME NEW i \in 1..Len(p), IsAck(p[i], n), p[i].code = "OK"
             PROVE  (\E g \in F : IsAck(g, n)) \/ \E j \in 1..i-1 : IsAck(p[j], n)
  BY DEF Leads, p
<1>2. CASE i \in 1..Len(q)
  <2>1. (\E g \in F : IsAck(g, n)) \/ \E j \in 1..i-1 : IsAck(q[j], n)
    BY <1>1, <1>2 DEF Leads
  <2>2. \A j \in 1..i-1 : p[j] = q[j]
    BY <1>1, <1>2
  <2> QED BY <2>1, <2>2
<1>3. CASE i = Len(q) + 1
  <2>1. PICK g \in F \cup ToSet(q) : IsAck(g, n)
    BY <1>1, <1>3
  <2>2. CASE g \in ToSet(q)
    <3>1. PICK j \in 1..Len(q) : g = q[j]
      BY <2>2 DEF ToSet
    <3>2. j \in 1..i-1 /\ p[j] = g
      BY <1>1, <1>3, <3>1
    <3> QED BY <2>1, <3>2
  <2> QED BY <2>1, <2>2
<1> QED BY <1>1, <1>2, <1>3

LEMMA LeadsTail ==
  ASSUME NEW q \in Seq(Frame), q # <<>>, NEW F, NEW G, NEW n, Leads(F, q, n),
         F \subseteq G, Head(q) \in G \/ ~IsAck(Head(q), n)
  PROVE  /\ Leads(G, Tail(q), n)
         /\ IsAck(Head(q), n) /\ Head(q).code = "OK" => \E f \in F : IsAck(f, n)
<1> DEFINE p == Tail(q)
<1>1. /\ Len(q) \in Nat /\ Len(q) > 0 /\ Len(p) = Len(q) - 1 /\ Head(q) = q[1]
      /\ \A i \in 1..Len(p) : p[i] = q[i + 1]
  OBVIOUS
<1> HIDE DEF p
<1>2. ASSUME NEW i \in 1..Len(p), IsAck(p[i], n), p[i].code = "OK"
      PROVE  (\E f \in G : IsAck(f, n)) \/ \E j \in 1..i-1 : IsAck(p[j], n)
  <2>1. i + 1 \in 1..Len(q) /\ q[i + 1] = p[i] /\ i + 1 - 1 = i
    BY <1>1, <1>2
  <2>2. (\E f \in F : IsAck(f, n)) \/ \E j \in 1..i : IsAck(q[j], n)
    BY <1>2, <2>1 DEF Leads
  <2>3. ASSUME NEW j \in 1..i, IsAck(q[j], n)
        PROVE  (\E f \in G : IsAck(f, n)) \/ \E k \in 1..i-1 : IsAck(p[k], n)
    <3>1. CASE j = 1
      BY <1>1, <2>3, <3>1
    <3>2. CASE j # 1
      <4>1. PICK k \in 1..i-1 : k = j - 1
        BY <1>2, <2>3, <3>2
      <4>2. k \in 1..Len(p) /\ k + 1 = j
        BY <1>1, <1>2, <2>3, <4>1
      <4>3. p[k] = q[j]
        BY <1>1, <4>2
      <4> QED BY <2>3, <4>3
    <3> QED BY <3>1, <3>2
  <2> QED BY <2>2, <2>3
<1>3. ASSUME IsAck(Head(q), n), Head(q).code = "OK" PROVE \E f \in F : IsAck(f, n)
  <2>1. 1 \in 1..Len(q) /\ q[1] = Head(q)
    BY <1>1
  <2> QED BY <1>3, <2>1 DEF Leads
<1> QED BY <1>2, <1>3 DEF Leads, p

\* Only connections have an access list.
LEMMA DeniedConn ==
  ASSUME NEW c \in Client, NEW t, ~Allowed(c, "subscribe", t)
  PROVE  c \in Conn
<1>1. <<c, "subscribe", t>> \in Denied /\ <<c, "subscribe", t>>[1] = c
  BY DEF Allowed
<1> QED BY <1>1, ClientAssumption

\* What a step does to the queue of c and to what it has received.
LEMMA QueueStep ==
  ASSUME StageInv, [Next]_vars, NEW c \in Client
  PROVE  \/ got'[c] = got[c] /\ queue'[c] = queue[c]
         \/ Write(c) \/ Recv(c) \/ Return(c)
         \/ \E f \in Frame :
              /\ got'[c] = got[c] /\ queue'[c] = Append(queue[c], f)
              /\ f.kind # "ack" \/ (SendAck(c) /\ f = AckOf(c, Head(acks[c])))
<1> DEFINE Rest == got'[c] = got[c] /\ queue'[c] = queue[c]
           Put == \E f \in Frame :
              /\ got'[c] = got[c] /\ queue'[c] = Append(queue[c], f)
              /\ f.kind # "ack" \/ (SendAck(c) /\ f = AckOf(c, Head(acks[c])))
<1>1. TaskTypes /\ OutTypes /\ TypeOK /\ \A x \in Client : Stage(x)
  BY StageParts
<1>2. ASSUME NEW x \in Client, Send(x) PROVE Rest \/ Put
  <2>1. FrameOf(x) \in Frame /\ FrameOf(x).kind # "ack" /\ tgt[x] \in Client
    BY <1>2, SendFacts
  <2>2. queue' = [queue EXCEPT ![tgt[x]] = Append(queue[tgt[x]], FrameOf(x))] /\ UNCHANGED got
    BY <1>2 DEF Send
  <2>3. CASE tgt[x] = c
    BY <1>1, <2>1, <2>2, <2>3 DEF OutTypes
  <2>4. CASE tgt[x] # c
    BY <1>1, <2>1, <2>2, <2>4 DEF OutTypes
  <2> QED BY <2>3, <2>4
<1>3. ASSUME NEW x \in Client, SendAck(x) PROVE Rest \/ Put
  <2>1. acks[x] # <<>> /\ pc[x] \in {"ack", "deny"}
    BY <1>3 DEF SendAck, AckSent
  <2>2. AckOf(x, Head(acks[x])) \in Frame
    BY <1>1, <2>1, AckFrame
  <2> QED BY <1>1, <1>3, <2>2 DEF SendAck, OutTypes
<1>4. ASSUME NEW x \in Client, Ping(x) PROVE Rest \/ Put
  <2> DEFINE f == [kind |-> "nop", from |-> x, id |-> 0, code |-> "-"]
  <2>1. f \in Frame /\ f.kind = "nop"
    BY DEF Frame
  <2>2. queue' = [queue EXCEPT ![x] = Append(queue[x], f)] /\ UNCHANGED got
    BY <1>4 DEF Ping
  <2> HIDE DEF f
  <2>3. "nop" # "ack"
    OBVIOUS
  <2> QED BY <1>1, <2>1, <2>2, <2>3 DEF OutTypes
<1>5. ASSUME NEW x \in Client, Write(x) \/ Recv(x) \/ Return(x)
      PROVE  Rest \/ Write(c) \/ Recv(c) \/ Return(c)
  BY <1>1, <1>5 DEF Write, Recv, Return, OutTypes
<1>6. ASSUME NEW x \in Client, NEW r \in Client,
             \/ ReadOp(x) \/ Call(x) \/ TakeSubscribe(x) \/ Subscribe(x) \/ Unsubscribe(x)
             \/ Exclude(x) \/ Unexclude(x) \/ Refuse(x) \/ LookupMissing(x) \/ Collect(x) \/ Retain(x)
             \/ CheckRoom(x, r) \/ CheckFull(x, r) \/ Evict(x, r) \/ EvictEnd(x)
             \/ SendClosed(x) \/ NoReceiver(x) \/ End(x)
      PROVE  Rest
  BY <1>6 DEF ReadOp, Call, Issue, TakeSubscribe, Subscribe, Unsubscribe, Exclude, Unexclude, Refuse,
     LookupMissing, Collect, Retain, CheckRoom, CheckFull, Evict, EvictEnd, SendClosed, NoReceiver,
     End, outVars
<1>7. ASSUME UNCHANGED vars PROVE Rest
  BY <1>7 DEF vars, outVars
<1> HIDE DEF Rest, Put
<1>8. Rest \/ Put \/ Write(c) \/ Recv(c) \/ Return(c)
  BY <1>2, <1>3, <1>4, <1>5, <1>6, <1>7
     DEF Next, Task, EndAck, EndWriter, EndPinger, EndWait, EndStream
<1> QED BY <1>8 DEF Rest, Put

LEMMA NextLed ==
  ASSUME StageInv, [Next]_vars, NEW c \in Client, AckPast(c), Warned(c), Led(c)
  PROVE  Led(c)'
<1> SUFFICES ASSUME NEW n \in 1..Len(issued'[c]), Forbidden(c, n)'
             PROVE  Leads({}, got'[c], n) /\ Leads(ToSet(got'[c]), queue'[c], n)
  BY DEF Led, Leads, ToSet, IsAck
<1>1. TaskTypes /\ OutTypes /\ TypeOK /\ Stage(c)
  BY StageParts
<1>2. got[c] \in Seq(Frame) /\ queue[c] \in Seq(Frame)
  BY <1>1 DEF OutTypes
<1>3. c \in Conn
  <2>1. \E t : ~Allowed(c, "subscribe", t)
    BY DEF Forbidden, Allowed
  <2> QED BY <2>1, DeniedConn
<1>4. CASE n \notin 1..Len(issued[c])
  <2>1. \A f \in In(c) : ~IsAck(f, n)
    BY <1>4 DEF AckPast, IsAck
  <2>2. issued'[c] # issued[c]
    BY <1>4
  <2>3. got' = got /\ queue' = queue
    <3>1. Acts(c)
      BY <2>2, WhoActs DEF Same
    <3>2. \E o \in Script[c] : Issue(c, o)
      BY <2>2, <3>1 DEF Acts, TakeSubscribe, Subscribe, Unsubscribe, Exclude, Unexclude, Refuse,
         LookupMissing, NoReceiver, Collect, Retain, CheckRoom, CheckFull, Evict, EvictEnd, Send, SendClosed, SendAck,
         Return, End
    <3> QED BY <3>2 DEF Issue, outVars
  <2>4. \A i \in 1..Len(got[c]) : got[c][i] \in In(c)
    BY DEF In, ToSet
  <2>5. \A i \in 1..Len(queue[c]) : queue[c][i] \in In(c)
    BY DEF In, ToSet
  <2> QED BY <2>1, <2>3, <2>4, <2>5 DEF Leads
<1>5. CASE n \in 1..Len(issued[c])
  <2>1. issued'[c][n] = issued[c][n]
    BY <1>5, StepGrows DEF Grows
  <2>2. Forbidden(c, n)
    BY <2>1 DEF Forbidden, Allowed
  <2>3. Leads({}, got[c], n) /\ Leads(ToSet(got[c]), queue[c], n)
    BY <1>5, <2>2 DEF Led
  <2>4. CASE got'[c] = got[c] /\ queue'[c] = queue[c]
    BY <2>3, <2>4
  <2>5. ASSUME NEW f \in Frame, got'[c] = got[c], queue'[c] = Append(queue[c], f),
               f.kind # "ack" \/ (SendAck(c) /\ f = AckOf(c, Head(acks[c])))
        PROVE  Leads({}, got'[c], n) /\ Leads(ToSet(got'[c]), queue'[c], n)
    <3>1. ASSUME IsAck(f, n), f.code = "OK" PROVE \E g \in ToSet(got[c]) \cup ToSet(queue[c]) : IsAck(g, n)
      <4>1. SendAck(c) /\ f = AckOf(c, Head(acks[c]))
        BY <2>5, <3>1 DEF IsAck
      <4>2. acks[c] # <<>> /\ pc[c] \in {"ack", "deny"} /\ n = Id(c) /\ Head(acks[c]) = "OK"
        BY <3>1, <4>1 DEF SendAck, AckSent, AckOf, IsAck
      <4>3. pc[c] = "ack"
        <5>1. Head(acks[c]) = acks[c][1] /\ 1 \in 1..Len(acks[c])
          BY <1>1, <4>2, AckFrame
        <5> QED BY <1>1, <4>2, <5>1 DEF Stage
      <4>4. HasAck(c, n)
        BY <2>2, <4>2, <4>3 DEF Warned
      <4> QED BY <4>4 DEF HasAck, In
    <3>2. Leads(ToSet(got[c]), Append(queue[c], f), n)
      BY <1>2, <2>3, <3>1, LeadsAppend
    <3> QED BY <2>3, <2>5, <3>2
  <2>6. CASE Write(c) \/ Recv(c)
    <3>1. /\ queue[c] # <<>> /\ Head(queue[c]) \in Frame /\ queue'[c] = Tail(queue[c])
          /\ \/ got'[c] = got[c] /\ Head(queue[c]).kind = "nop"
             \/ got'[c] = Append(got[c], Head(queue[c]))
          /\ ToSet(Append(got[c], Head(queue[c]))) = ToSet(got[c]) \cup {Head(queue[c])}
      BY <1>1, <2>6, MoveFacts
    <3>2. IsAck(Head(queue[c]), n) /\ Head(queue[c]).code = "OK" => \E f \in ToSet(got[c]) : IsAck(f, n)
      <4>1. Head(queue[c]) \in ToSet(got[c]) \cup {Head(queue[c])} /\ ToSet(got[c]) \subseteq ToSet(got[c]) \cup {Head(queue[c])}
        OBVIOUS
      <4> QED BY <1>2, <2>3, <3>1, <4>1, LeadsTail
    <3>3. CASE got'[c] = got[c] /\ Head(queue[c]).kind = "nop"
      <4>1. ~IsAck(Head(queue[c]), n)
        BY <3>3 DEF IsAck
      <4>2. Leads(ToSet(got[c]), Tail(queue[c]), n)
        BY <1>2, <2>3, <3>1, <4>1, LeadsTail
      <4> QED BY <2>3, <3>1, <3>3, <4>2
    <3>4. CASE got'[c] = Append(got[c], Head(queue[c]))
      <4>1. Leads(ToSet(got[c]) \cup {Head(queue[c])}, Tail(queue[c]), n)
        BY <1>2, <2>3, <3>1, LeadsTail
      <4>2. Leads({}, Append(got[c], Head(queue[c])), n)
        BY <1>2, <2>3, <3>1, <3>2, LeadsAppend
      <4> QED BY <3>1, <3>4, <4>1, <4>2
    <3> QED BY <3>1, <3>3, <3>4
  <2>7. ~Return(c)
    BY <1>3, ClientAssumption DEF Return
  <2> QED BY <2>4, <2>5, <2>6, <2>7, QueueStep
<1> QED BY <1>4, <1>5

SubscribeInv == DeliveryInv /\ \A c \in Client : Effective(c) /\ Warned(c) /\ Led(c)

\* The first answer to a subscription, the one the client takes, is OK only
\* if every topic is allowed, and then the client is subscribed to all of
\* them until it withdraws or is unregistered: however the steps of others
\* interleave, no refusal is overtaken by the confirmation (SubscribeTopic in
\* handle_reader, send_ack!).
THEOREM SubscriptionAnswers == Spec => []SubscribedWhenConfirmed
<1>1. Init => SubscribeInv
  <2> SUFFICES ASSUME Init PROVE \A c \in Client : Effective(c) /\ Warned(c) /\ Led(c)
    BY InitDeliveryInv DEF SubscribeInv
  <2> TAKE c \in Client
  <2>1. issued[c] = <<>> /\ Len(issued[c]) = 0 /\ pc[c] = "idle"
    BY DEF Init
  <2> QED BY <2>1 DEF Effective, Warned, Led
<1>2. SubscribeInv /\ [Next]_vars => SubscribeInv'
  <2> SUFFICES ASSUME SubscribeInv, [Next]_vars PROVE SubscribeInv'
    OBVIOUS
  <2>1. DeliveryInv'
    BY NextDeliveryInv DEF SubscribeInv
  <2>2. ASSUME NEW c \in Client PROVE Effective(c)' /\ Warned(c)' /\ Led(c)'
    <3>1. StageInv /\ Recorded(c) /\ AckPast(c) /\ Effective(c) /\ Warned(c) /\ Led(c)
      BY <2>2 DEF SubscribeInv, DeliveryInv, OrderInv
    <3> QED BY <3>1, NextEffective, NextWarned, NextLed
  <2> QED BY <2>1, <2>2 DEF SubscribeInv
<1>3. SubscribeInv => SubscribedWhenConfirmed
  <2> SUFFICES ASSUME SubscribeInv, NEW c \in Client, NEW n \in 1..Len(issued[c]),
                      issued[c][n].op = "subscribe", Confirmed(c, n),
                      NEW t \in ToSet(issued[c][n].topics)
               PROVE  /\ Allowed(c, "subscribe", t)
                      /\ c \in subs[t] \/ c \notin listed \/ AskedSince(c, n, {"unsubscribe"}, t)
    BY DEF SubscribedWhenConfirmed
  <2>1. DeliveryInv /\ TypeOK /\ Effective(c) /\ Led(c)
    BY DEF SubscribeInv, DeliveryInv, OrderInv, StageInv
  <2>2. Processed(c, n)
    BY <2>1, ConfirmedFacts DEF Processed
  <2>3. Allowed(c, "subscribe", t)
    <3> SUFFICES ASSUME ~Allowed(c, "subscribe", t) PROVE FALSE
      OBVIOUS
    <3> DEFINE g == got[c]
               q == queue[c]
    <3>1. Leads({}, g, n) /\ Leads(ToSet(g), q, n) /\ g \in Seq(Frame) /\ q \in Seq(Frame)
      BY <2>1 DEF Led, Forbidden, TypeOK
    <3>2. PICK i \in 1..Len(g \o q) :
            /\ IsAck((g \o q)[i], n) /\ (g \o q)[i].code = "OK"
            /\ \A j \in 1..i-1 : ~IsAck((g \o q)[j], n)
      BY DEF Confirmed, Stream
    <3> HIDE DEF g, q
    <3>3. /\ Len(g) \in Nat /\ Len(q) \in Nat /\ Len(g \o q) = Len(g) + Len(q)
          /\ \A k \in 1..Len(g) + Len(q) : (g \o q)[k] = IF k <= Len(g) THEN g[k] ELSE q[k - Len(g)]
      BY <3>1
    <3>4. CASE i <= Len(g)
      <4>1. i \in 1..Len(g) /\ (g \o q)[i] = g[i]
        BY <3>2, <3>3, <3>4
      <4>2. PICK j \in 1..i-1 : IsAck(g[j], n)
        BY <3>1, <3>2, <4>1 DEF Leads
      <4>3. (g \o q)[j] = g[j]
        BY <3>3, <4>1, <4>2
      <4> QED BY <3>2, <4>2, <4>3
    <3>5. CASE i > Len(g)
      <4>1. PICK k \in 1..Len(q) : k = i - Len(g)
        BY <3>2, <3>3, <3>5
      <4>2. (g \o q)[i] = q[k]
        BY <3>3, <3>5, <4>1
      <4>3. (\E f \in ToSet(g) : IsAck(f, n)) \/ \E j \in 1..k-1 : IsAck(q[j], n)
        BY <3>1, <3>2, <4>2 DEF Leads
      <4>4. ASSUME NEW f \in ToSet(g), IsAck(f, n) PROVE FALSE
        <5>1. PICK j \in 1..Len(g) : f = g[j]
          BY <4>4 DEF ToSet
        <5>2. j \in 1..i-1 /\ (g \o q)[j] = f
          BY <3>2, <3>3, <3>5, <5>1
        <5> QED BY <3>2, <4>4, <5>2
      <4>5. ASSUME NEW j \in 1..k-1, IsAck(q[j], n) PROVE FALSE
        <5>1. PICK m \in 1..i-1 : m = j + Len(g)
          BY <3>2, <3>3, <4>1, <4>5
        <5>2. m \in 1..Len(g) + Len(q) /\ m > Len(g) /\ m - Len(g) = j
          BY <3>2, <3>3, <4>5, <5>1
        <5>3. (g \o q)[m] = q[j]
          BY <3>3, <5>2
        <5> QED BY <3>2, <4>5, <5>1, <5>3
      <4> QED BY <4>3, <4>4, <4>5
    <3> QED BY <3>2, <3>3, <3>4, <3>5
  <2> QED BY <2>1, <2>2, <2>3 DEF Effective
<1> QED BY <1>1, <1>2, <1>3, PTL DEF Spec
=============================================================================
