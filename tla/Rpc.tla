-------------------------------- MODULE Rpc --------------------------------
(***************************************************************************)
(* The RPC layer over the bus: RpcClient and its processor, asynchronous   *)
(* (src/rpc/async_client.rs) and synchronous (src/sync/rpc.rs).            *)
(*                                                                         *)
(* A peer is a bus client with an RPC client on top.  An element of Op is  *)
(* one use of its methods call, call0 or notify, and names the request it  *)
(* sends, the task that handles it at the other side and the reply.  The   *)
(* bus client below is reduced to what the RPC layer sees: frames are      *)
(* written in the order of the calls, the broker carries each to the queue *)
(* of its target or refuses it, and a connection may be lost.              *)
(***************************************************************************)
EXTENDS Naturals, FiniteSets, Sequences

CONSTANTS
  Peer,       \* RPC clients
  Sync,       \* those that are synchronous
  Op,         \* uses of call, call0 and notify
  kind,       \* which of the three
  caller,     \* who calls
  target,     \* whom
  ack,        \* the operations whose QoS asks for an acknowledgement
  within,     \* the request whose handler makes the call, or None
  MaxId,      \* stands for u32::MAX
  PoolSize,   \* size of the task pool of a peer (Options::with_task_pool)
  Inline,     \* peers that handle notifications in the processor itself
  MayCancel,  \* calls whose future may be dropped by the caller
  Breaks,     \* peers that may lose the connection
  Restarts,   \* peers that may connect again with a new RPC client
  LongTimeout,\* a timeout is much longer than what others have left to do
  None        \* no operation

ASSUME OpAssumption ==
  /\ None \notin Op
  /\ kind \in [Op -> {"call", "call0", "notify"}]
  /\ caller \in [Op -> Peer] /\ target \in [Op -> Peer]
  /\ within \in [Op -> Op \cup {None}]
  /\ \A o \in Op : within[o] # None => target[within[o]] = caller[o]
ASSUME PeerAssumption ==
  /\ Sync \subseteq Inline /\ Inline \subseteq Peer
  /\ \A o \in MayCancel : o \in Op /\ caller[o] \notin Sync
  /\ PoolSize \in [Peer -> Nat \ {0}]
  /\ LongTimeout \in BOOLEAN
ASSUME IdAssumption == MaxId \in Nat \ {0}

VARIABLES
  call_id,   \* RpcClient.call_id
  calls,     \* RpcClient.calls: for each id, the call that waits, or None
  lock,      \* holder of the mutex around the bus client
  wire,      \* frames written by a peer, not yet processed by the broker
  inbox,     \* the event channel of a peer
  up,        \* the peers that are connected
  busy,      \* the notification the processor itself is handling, or None
  pc,        \* where an operation is
  id,        \* its call_id
  confirm,   \* what its OpConfirm has received
  answer,    \* the operation whose reply it has received, or None
  result,    \* how it ended
  hst,       \* the task that handles its request
  order,     \* history: how many calls its caller had begun with it
  begun,     \* history: how many calls a peer has begun, see Restart
  restarted  \* peers that have connected again

callVars == <<pc, id, confirm, answer, result, order>>
peerVars == <<call_id, calls, begun, restarted>>
netVars  == <<wire, inbox, up>>
vars == <<call_id, calls, lock, wire, inbox, up, busy, pc, id, confirm, answer,
          result, hst, order, begun, restarted>>

-----------------------------------------------------------------------------

Ids == 1..MaxId
Frame == [kind: {"notify", "request", "reply"}, id: 0..MaxId, of: Op, to: Peer]
Holder == {None} \cup ({"call", "reply"} \X Op)

TypeOK ==
  /\ call_id \in [Peer -> 0..MaxId]
  /\ calls \in [Peer -> [Ids -> Op \cup {None}]]
  /\ lock \in [Peer -> Holder]
  /\ wire \in [Peer -> Seq(Frame)] /\ inbox \in [Peer -> Seq(Frame)]
  /\ up \subseteq Peer
  /\ busy \in [Peer -> Op \cup {None}]
  /\ pc \in [Op -> {"idle", "lock", "send", "confirm", "wait", "done"}]
  /\ id \in [Op -> 0..MaxId]
  /\ confirm \in [Op -> {"none", "OK", "ERR"}]
  /\ answer \in [Op -> Op \cup {None}]
  /\ result \in [Op -> {"none", "sent", "reply", "error", "timeout", "cancelled"}]
  /\ hst \in [Op -> {"none", "run", "lock", "send", "done"}]
  /\ order \in [Op -> Nat] /\ begun \in [Peer -> Nat]
  /\ restarted \subseteq Peer

Init ==
  /\ call_id = [p \in Peer |-> 0]
  /\ calls = [p \in Peer |-> [n \in Ids |-> None]]
  /\ lock = [p \in Peer |-> None]
  /\ wire = [p \in Peer |-> <<>>] /\ inbox = [p \in Peer |-> <<>>]
  /\ up = Peer
  /\ busy = [p \in Peer |-> None]
  /\ pc = [o \in Op |-> "idle"]
  /\ id = [o \in Op |-> 0]
  /\ confirm = [o \in Op |-> "none"]
  /\ answer = [o \in Op |-> None]
  /\ result = [o \in Op |-> "none"]
  /\ hst = [o \in Op |-> "none"]
  /\ order = [o \in Op |-> 0] /\ begun = [p \in Peer |-> 0]
  /\ restarted = {}

-----------------------------------------------------------------------------
(* RpcClient: call, call0 and notify *)

\* The call that waits for the reply with number n is taken off the map.
Forget(p, n) == [calls EXCEPT ![p] = [m \in Ids |-> IF m = n THEN None ELSE @[m]]]

Finish(o, how) ==
  /\ pc' = [pc EXCEPT ![o] = "done"]
  /\ result' = [result EXCEPT ![o] = how]
Unlock(p) == lock' = [lock EXCEPT ![p] = None]
Goto(o, l) == pc' = [pc EXCEPT ![o] = l]

\* mutant: the counter does not wrap around.
NextIdPlain(n) == n + 1
NextId(n) == IF n = MaxId THEN 1 ELSE n + 1

\* A nested call is made by the handler of a request while that runs.
MayBegin(o) ==
  pc[o] = "idle" /\ (within[o] # None => hst[within[o]] = "run")

\* call: a new id, and a oneshot channel under that id in the map.  Another
\* call that still waits under the same id loses its sender.
BeginCall(o) ==
  LET p == caller[o]  n == NextId(call_id[p]) IN
  /\ kind[o] = "call" /\ MayBegin(o)
  /\ call_id' = [call_id EXCEPT ![p] = n]
  /\ calls' = [calls EXCEPT ![p][n] = o]
  /\ id' = [id EXCEPT ![o] = n]
  /\ begun' = [begun EXCEPT ![p] = @ + 1]
  /\ order' = [order EXCEPT ![o] = begun[p] + 1]
  /\ Goto(o, "lock")
  /\ UNCHANGED <<lock, netVars, busy, confirm, answer, result, hst, restarted>>

\* call0 and notify have no id.
BeginOneWay(o) ==
  /\ kind[o] # "call" /\ MayBegin(o)
  /\ Goto(o, "lock")
  /\ UNCHANGED <<peerVars, lock, netVars, busy, id, confirm, answer, result, hst, order>>

\* self.client.lock()
Lock(o) ==
  /\ pc[o] = "lock" /\ lock[caller[o]] = None
  /\ lock' = [lock EXCEPT ![caller[o]] = <<"call", o>>]
  /\ Goto(o, "send")
  /\ UNCHANGED <<peerVars, netVars, busy, id, confirm, answer, result, hst, order>>

RequestOf(o) ==
  [kind |-> IF kind[o] = "notify" THEN "notify" ELSE "request",
   id |-> id[o], of |-> o, to |-> target[o]]

\* The frame is written, or buffered for a connection that is lost.
Written(p, f) ==
  wire' = IF p \in up THEN [wire EXCEPT ![p] = Append(@, f)] ELSE wire

\* client.zc_send(..) succeeds.  A synchronous call keeps the mutex and does
\* not look at the confirmation.
Send(o) ==
  LET p == caller[o] IN
  /\ pc[o] = "send"
  /\ Written(p, RequestOf(o))
  /\ \/ /\ kind[o] # "call"
        /\ Unlock(p) /\ Finish(o, "sent")
     \/ /\ kind[o] = "call" /\ p \in Sync
        /\ Goto(o, "wait")
        /\ UNCHANGED <<lock, result>>
     \/ /\ kind[o] = "call" /\ p \notin Sync
        /\ Unlock(p)
        /\ Goto(o, IF o \in ack THEN "confirm" ELSE "wait")
        /\ UNCHANGED result
  /\ UNCHANGED <<peerVars, inbox, up, busy, id, confirm, answer, hst, order>>

\* A write fails because the connection is lost, or takes too long: the bus
\* client is disconnected, or, inside the process, stays as it is.
MayFail(p) == p \notin up \/ p \in Breaks

\* mutant: a call that cannot be sent stays in the map.
SendFailKeep(o) ==
  LET p == caller[o] IN
  /\ pc[o] = "send" /\ MayFail(p)
  /\ up' \in {up, up \ {p}}
  /\ Unlock(p) /\ Finish(o, "error")
  /\ UNCHANGED <<peerVars, wire, inbox, busy, id, confirm, answer, hst, order>>

\* client.zc_send(..) fails: unwrap_or_cancel! takes an asynchronous call
\* off the map, the ? of a synchronous one does not.
SendFail(o) ==
  LET p == caller[o] IN
  /\ pc[o] = "send" /\ MayFail(p)
  /\ up' \in {up, up \ {p}}
  /\ Unlock(p) /\ Finish(o, "error")
  /\ calls' = IF kind[o] = "call" /\ p \notin Sync THEN Forget(p, id[o]) ELSE calls
  /\ UNCHANGED <<call_id, begun, restarted, wire, inbox, busy, id, confirm, answer, hst, order>>

\* c.await: the operation has been confirmed, or refused.
Confirmed(o) ==
  /\ pc[o] = "confirm" /\ confirm[o] = "OK"
  /\ Goto(o, "wait")
  /\ UNCHANGED <<peerVars, lock, netVars, busy, id, confirm, answer, result, hst, order>>
Refused(o) ==
  /\ pc[o] = "confirm" /\ confirm[o] = "ERR"
  /\ Finish(o, "error")
  /\ calls' = Forget(caller[o], id[o])
  /\ UNCHANGED <<call_id, begun, restarted, lock, netVars, busy, id, confirm, answer, hst, order>>

Release(o) == IF caller[o] \in Sync THEN Unlock(caller[o]) ELSE UNCHANGED lock

\* rx.await, rx.recv_timeout: the reply, or the error of a call that has
\* lost its sender.
GetReply(o) ==
  /\ pc[o] = "wait" /\ answer[o] # None
  /\ Finish(o, "reply") /\ Release(o)
  /\ UNCHANGED <<peerVars, netVars, busy, id, confirm, answer, hst, order>>
LoseReply(o) ==
  LET p == caller[o] IN
  /\ pc[o] = "wait" /\ answer[o] = None /\ calls[p][id[o]] # o
  /\ Finish(o, "error") /\ Release(o)
  /\ calls' = IF p \in Sync THEN Forget(p, id[o]) ELSE calls
  /\ UNCHANGED <<call_id, begun, restarted, netVars, busy, id, confirm, answer, hst, order>>

\* Nothing but a timeout can happen.
Quiet ==
  /\ \A p \in Peer : wire[p] = <<>> /\ inbox[p] = <<>>
  /\ \A o \in Op :
       /\ pc[o] # "send" /\ hst[o] \notin {"run", "send"}
       /\ pc[o] = "lock" => lock[caller[o]] # None
       /\ hst[o] = "lock" => lock[target[o]] # None
       /\ pc[o] = "wait" => answer[o] = None

\* rx.recv_timeout of a synchronous call expires.
Timeout(o) ==
  LET p == caller[o] IN
  /\ pc[o] = "wait" /\ p \in Sync /\ answer[o] = None
  /\ LongTimeout => Quiet
  /\ Finish(o, "timeout") /\ Unlock(p)
  /\ calls' = Forget(p, id[o])
  /\ UNCHANGED <<call_id, begun, restarted, netVars, busy, id, confirm, answer, hst, order>>

\* The future of an asynchronous call is dropped (the caller has its own
\* timeout).  The map keeps the entry; dropped in the middle of a write, the
\* bus client is disconnected by FrameWriteGuard.
Cancel(o) ==
  LET p == caller[o] IN
  /\ o \in MayCancel /\ kind[o] = "call"
  /\ pc[o] \in {"lock", "send", "confirm", "wait"}
  /\ Finish(o, "cancelled")
  /\ lock' = IF pc[o] = "send" THEN [lock EXCEPT ![p] = None] ELSE lock
  /\ \/ UNCHANGED up
     \/ pc[o] = "send" /\ up' = up \ {p}
  /\ UNCHANGED <<peerVars, wire, inbox, busy, id, confirm, answer, hst, order>>

-----------------------------------------------------------------------------
(* The processor and the tasks it spawns *)

Take(p, k) == inbox[p] # <<>> /\ Head(inbox[p]).kind = k /\ busy[p] = None
Taken(p) == inbox' = [inbox EXCEPT ![p] = Tail(@)]

\* The tasks that a peer has spawned and that have not ended.  A synchronous
\* peer has no pool, it starts a thread for each request.
Tasks(p) == {o \in Op : target[o] = p /\ hst[o] \in {"run", "lock", "send"} /\ busy[p] # o}
HasRoom(p) == p \in Sync \/ Cardinality(Tasks(p)) < PoolSize[p]

\* A notification is handled by the processor itself, or by a task.
TakeNotify(p) ==
  LET o == Head(inbox[p]).of IN
  /\ Take(p, "notify") /\ Taken(p)
  /\ hst' = [hst EXCEPT ![o] = "run"]
  /\ \/ p \in Inline /\ busy' = [busy EXCEPT ![p] = o]
     \/ p \notin Inline /\ HasRoom(p) /\ UNCHANGED busy
  /\ UNCHANGED <<callVars, peerVars, lock, wire, up>>

\* A request is handled by a task; a pool that is full blocks the processor.
TakeRequest(p) ==
  /\ Take(p, "request") /\ Taken(p)
  /\ HasRoom(p)
  /\ hst' = [hst EXCEPT ![Head(inbox[p]).of] = "run"]
  /\ UNCHANGED <<callVars, peerVars, lock, wire, up, busy>>

\* mutant: the reply goes to any call that waits.
TakeReplyAny(p) ==
  LET f == Head(inbox[p]) IN
  /\ Take(p, "reply") /\ Taken(p)
  /\ \E n \in Ids :
       /\ calls[p][n] # None
       /\ answer' = [answer EXCEPT ![calls[p][n]] = f.of]
       /\ calls' = Forget(p, n)
  /\ UNCHANGED <<call_id, begun, restarted, lock, wire, up, busy,
                 pc, id, confirm, result, hst, order>>

\* A reply wakes the call that waits under its id, whoever sent it; without
\* such a call it is orphaned.
TakeReply(p) ==
  LET f == Head(inbox[p])  o == calls[p][f.id] IN
  /\ Take(p, "reply") /\ Taken(p)
  /\ answer' = IF o # None /\ pc[o] # "done"
               THEN [answer EXCEPT ![o] = f.of] ELSE answer
  /\ calls' = Forget(p, f.id)
  /\ UNCHANGED <<call_id, begun, restarted, lock, wire, up, busy,
                 pc, id, confirm, result, hst, order>>

\* The handler of the program returns, after the calls it made itself.
HandlerEnd(o) ==
  LET p == target[o] IN
  /\ hst[o] = "run"
  /\ \A c \in Op : within[c] = o => pc[c] \in {"idle", "done"}
  /\ hst' = [hst EXCEPT ![o] = IF kind[o] = "call" THEN "lock" ELSE "done"]
  /\ busy' = [busy EXCEPT ![p] = IF @ = o THEN None ELSE @]
  /\ UNCHANGED <<callVars, peerVars, lock, netVars>>

\* send_reply!: the mutex, then the frame, whose result is ignored.
ReplyLock(o) ==
  /\ hst[o] = "lock" /\ lock[target[o]] = None
  /\ lock' = [lock EXCEPT ![target[o]] = <<"reply", o>>]
  /\ hst' = [hst EXCEPT ![o] = "send"]
  /\ UNCHANGED <<callVars, peerVars, netVars, busy>>

ReplySend(o) ==
  /\ hst[o] = "send"
  /\ Written(target[o], [kind |-> "reply", id |-> id[o], of |-> o, to |-> caller[o]])
  /\ Unlock(target[o])
  /\ hst' = [hst EXCEPT ![o] = "done"]
  /\ UNCHANGED <<callVars, peerVars, inbox, up, busy>>

-----------------------------------------------------------------------------
(* The bus, as the RPC layer sees it *)

\* The broker puts a frame into the queue of its target, or refuses it, and
\* acknowledges a request if it was asked to.
Route(p) ==
  LET f == Head(wire[p])  ok == f.to \in up IN
  /\ wire[p] # <<>>
  /\ wire' = [wire EXCEPT ![p] = Tail(@)]
  /\ inbox' = IF ok THEN [inbox EXCEPT ![f.to] = Append(@, f)] ELSE inbox
  /\ confirm' = IF f.kind = "request" /\ f.of \in ack /\ p \in up
                   /\ pc[f.of] # "done"
                THEN [confirm EXCEPT ![f.of] = IF ok THEN "OK" ELSE "ERR"]
                ELSE confirm
  /\ UNCHANGED <<peerVars, lock, up, busy, pc, id, answer, result, hst, order>>

\* The connection is lost; what was written may be lost too, and so may what
\* was received: the pinger aborts the processor.
Break(p) ==
  /\ p \in Breaks /\ p \in up
  /\ up' = up \ {p}
  /\ \/ UNCHANGED wire
     \/ wire' = [wire EXCEPT ![p] = <<>>]
  /\ \/ UNCHANGED inbox
     \/ inbox' = [inbox EXCEPT ![p] = <<>>]
  /\ UNCHANGED <<callVars, peerVars, lock, busy, hst>>

\* A peer connects again under its name with a new RpcClient, which counts
\* its calls from the start.  Calls of the old one are dropped first, which
\* a thread that is inside a synchronous call does not allow.  The history
\* counts a whole round of numbers: those of the new client may equal any.
Restart(p) ==
  LET gone == {o \in Op : caller[o] = p /\ pc[o] \notin {"idle", "done"}} IN
  /\ p \in Restarts \ restarted
  /\ Tasks(p) = {} /\ busy[p] = None
  /\ p \in Sync => gone = {}
  /\ restarted' = restarted \cup {p}
  /\ up' = up \cup {p}
  /\ call_id' = [call_id EXCEPT ![p] = 0]
  /\ calls' = [calls EXCEPT ![p] = [n \in Ids |-> None]]
  /\ lock' = [lock EXCEPT ![p] = None]
  /\ inbox' = [inbox EXCEPT ![p] = <<>>]
  /\ pc' = [o \in Op |-> IF o \in gone THEN "done" ELSE pc[o]]
  /\ result' = [o \in Op |-> IF o \in gone THEN "cancelled" ELSE result[o]]
  /\ begun' = [begun EXCEPT ![p] = @ + MaxId]
  /\ UNCHANGED <<wire, busy, id, confirm, answer, hst, order>>

-----------------------------------------------------------------------------

\* What an operation does without waiting for a mutex.
Step(o) ==
  \/ Send(o) \/ SendFail(o) \/ Confirmed(o) \/ Refused(o)
  \/ GetReply(o) \/ LoseReply(o) \/ Timeout(o)
  \/ HandlerEnd(o) \/ ReplySend(o)

Next ==
  \/ \E o \in Op : \/ BeginCall(o) \/ BeginOneWay(o) \/ Lock(o) \/ Step(o)
                   \/ Cancel(o) \/ ReplyLock(o)
  \/ \E p \in Peer : \/ TakeNotify(p) \/ TakeRequest(p) \/ TakeReply(p)
                     \/ Route(p) \/ Break(p) \/ Restart(p)

Spec == Init /\ [][Next]_vars

\* The mutex is fair (tokio's is a queue, parking_lot's is eventually fair),
\* handlers return, tasks and the broker go on, timeouts expire.
Fairness ==
  /\ \A o \in Op : WF_vars(Step(o)) /\ SF_vars(Lock(o)) /\ SF_vars(ReplyLock(o))
  /\ \A p \in Peer :
       /\ WF_vars(TakeNotify(p)) /\ WF_vars(TakeRequest(p)) /\ WF_vars(TakeReply(p))
       /\ WF_vars(Route(p))
FairSpec == Spec /\ Fairness

-----------------------------------------------------------------------------
(* Properties *)

\* Two calls of one client, o the later one, have the same number because
\* all numbers have been used in between, or the client connected again.
Apart(q, o) == caller[q] = caller[o] /\ id[q] = id[o] /\ order[o] >= order[q] + MaxId

\* A call returns the reply to its own request, not the late reply to one
\* that was given up, unless the ids have wrapped around in the meantime or
\* the client has connected again and counts from the start: then it is a
\* reply to an earlier call of the same name with the same number (call_id,
\* calls and the processor).
ReplyAnswersCall ==
  \A o \in Op : answer[o] # None => answer[o] = o \/ Apart(answer[o], o)

\* The map holds exactly the calls that wait: an entry belongs to a call in
\* progress that has no reply yet, and such a call has its entry, so that its
\* reply finds it.  Exceptions: the caller dropped the future; a synchronous
\* call that could not be sent; ids that have wrapped around (calls).
EntriesMatchCalls ==
  /\ \A p \in Peer, n \in Ids : LET o == calls[p][n] IN
       o # None =>
         /\ caller[o] = p /\ id[o] = n /\ answer[o] = None
         /\ pc[o] = "done" =>
              result[o] = "cancelled" \/ (p \in Sync /\ result[o] = "error")
  /\ \A o \in Op :
       /\ kind[o] = "call" /\ pc[o] \notin {"idle", "done"}
       /\ answer[o] = None
       => \/ calls[caller[o]][id[o]] = o
          \/ \E q \in Op : Apart(o, q) \/ Apart(q, o)

\* A call to a peer that is connected and handles it gets the response.
GetsResponse ==
  \A o \in Op : kind[o] = "call" /\ pc[o] = "lock" ~> result[o] = "reply"
=============================================================================
