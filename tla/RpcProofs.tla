----------------------------- MODULE RpcProofs -----------------------------
(***************************************************************************)
(* Theorems about Rpc, for any number of peers and operations, any nesting *)
(* of calls and any MaxId.                                                 *)
(***************************************************************************)
EXTENDS Rpc, TLAPS

-----------------------------------------------------------------------------
(* The invariant of what is under way *)

\* A call has been given its number.
Begun(o) == order[o] # 0

Numbered ==
  /\ \A o \in Op :
       /\ order[o] <= begun[caller[o]]
       /\ Begun(o) => id[o] \in Ids /\ kind[o] = "call"
       /\ ~Begun(o) => id[o] = 0
       /\ kind[o] = "call" => (pc[o] = "idle" <=> ~Begun(o))
  /\ \A q, o \in Op : Begun(o) /\ caller[q] = caller[o] /\ order[q] = order[o] => q = o

\* Only calls wait, and only what was sent is handled.
Handled ==
  \A o \in Op :
    /\ pc[o] \in {"confirm", "wait"} => kind[o] = "call"
    /\ hst[o] # "none" => pc[o] # "idle"
    /\ hst[o] \in {"lock", "send"} => kind[o] = "call"

\* The frames of a queue.
Elems(s) == {s[i] : i \in 1..Len(s)}

\* A frame belongs to an operation that was begun, and a reply carries the
\* number of its request back to the caller.
Genuine(f) ==
  /\ pc[f.of] # "idle"
  /\ f.kind = "reply" => Begun(f.of) /\ f.id = id[f.of] /\ f.to = caller[f.of]

Traced ==
  \A p \in Peer : /\ \A f \in Elems(wire[p]) : Genuine(f)
                  /\ \A f \in Elems(inbox[p]) : Genuine(f) /\ f.to = p

RpcInv == TypeOK /\ Numbered /\ Handled /\ Traced

-----------------------------------------------------------------------------

LEMMA NextIdType ==
  ASSUME NEW n \in 0..MaxId
  PROVE  NextId(n) \in Ids /\ NextId(n) \in 0..MaxId
  BY IdAssumption DEF NextId, Ids

LEMMA ElemsFacts ==
  ASSUME NEW S, NEW s \in Seq(S)
  PROVE  /\ Elems(s) \subseteq S
         /\ \A e \in S : Append(s, e) \in Seq(S) /\ Elems(Append(s, e)) = Elems(s) \cup {e}
         /\ s # <<>> => /\ Tail(s) \in Seq(S) /\ Elems(Tail(s)) \subseteq Elems(s)
                        /\ Head(s) \in Elems(s) /\ Head(s) \in S
         /\ <<>> \in Seq(S) /\ Elems(<<>>) = {}
<1>1. Elems(s) \subseteq S
  BY DEF Elems
<1>2. ASSUME NEW e \in S
      PROVE  Append(s, e) \in Seq(S) /\ Elems(Append(s, e)) = Elems(s) \cup {e}
  <2>1. /\ Append(s, e) \in Seq(S) /\ Len(Append(s, e)) = Len(s) + 1 /\ Len(s) \in Nat
        /\ \A i \in 1..Len(s) : Append(s, e)[i] = s[i]
        /\ Append(s, e)[Len(s) + 1] = e
    OBVIOUS
  <2>2. 1..(Len(s) + 1) = 1..Len(s) \cup {Len(s) + 1}
    BY <2>1
  <2> QED BY <2>1, <2>2 DEF Elems
<1>3. ASSUME s # <<>>
      PROVE  /\ Tail(s) \in Seq(S) /\ Elems(Tail(s)) \subseteq Elems(s)
             /\ Head(s) \in Elems(s) /\ Head(s) \in S
  <2>1. /\ Tail(s) \in Seq(S) /\ Head(s) = s[1] /\ Head(s) \in S /\ 1 \in 1..Len(s)
        /\ \A i \in 1..Len(Tail(s)) : Tail(s)[i] = s[i + 1] /\ i + 1 \in 1..Len(s)
    BY <1>3
  <2> QED BY <2>1 DEF Elems
<1>4. <<>> \in Seq(S) /\ Elems(<<>>) = {}
  BY DEF Elems
<1> QED BY <1>1, <1>2, <1>3, <1>4

LEMMA ForgetFacts ==
  ASSUME TypeOK, NEW p \in Peer, NEW n
  PROVE  /\ Forget(p, n) \in [Peer -> [Ids -> Op \cup {None}]]
         /\ \A q \in Peer, m \in Ids :
              Forget(p, n)[q][m] = IF q = p /\ m = n THEN None ELSE calls[q][m]
  BY DEF TypeOK, Forget

\* Nothing that was begun is undone.
Grown ==
  \A o \in Op : /\ pc[o] # "idle" => pc'[o] # "idle"
                /\ Begun(o) => order'[o] = order[o] /\ id'[o] = id[o]

LEMMA KeepTraced ==
  ASSUME RpcInv, Grown,
         \A p \in Peer : \A f \in Elems(wire'[p]) : f \in Elems(wire[p]) \/ Genuine(f)',
         \A p \in Peer : \A f \in Elems(inbox'[p]) :
           \/ f \in Elems(inbox[p])
           \/ f.to = p /\ \E q \in Peer : f \in Elems(wire[q])
  PROVE  Traced'
<1>1. \A p \in Peer : /\ \A f \in Elems(wire[p]) : f.of \in Op
                      /\ \A f \in Elems(inbox[p]) : f.of \in Op
  <2>1. \A f \in Frame : f.of \in Op
    BY DEF Frame
  <2>2. \A p \in Peer : wire[p] \in Seq(Frame) /\ inbox[p] \in Seq(Frame)
    BY DEF RpcInv, TypeOK
  <2>3. \A p \in Peer : Elems(wire[p]) \subseteq Frame /\ Elems(inbox[p]) \subseteq Frame
    BY <2>2, ElemsFacts
  <2> QED BY <2>1, <2>3
<1>2. ASSUME NEW f, f.of \in Op, Genuine(f) PROVE Genuine(f)'
  BY <1>2 DEF Grown, Genuine, Begun
<1>3. ASSUME NEW p \in Peer, NEW f \in Elems(wire'[p]) PROVE Genuine(f)'
  BY <1>1, <1>2 DEF RpcInv, Traced
<1>4. ASSUME NEW p \in Peer, NEW f \in Elems(inbox'[p]) PROVE Genuine(f)' /\ f.to = p
  BY <1>1, <1>2 DEF RpcInv, Traced
<1> QED BY <1>3, <1>4 DEF Traced

LEMMA KeepNumbered ==
  ASSUME RpcInv, UNCHANGED <<id, order>>,
         \A p \in Peer : begun'[p] \in Nat /\ begun'[p] >= begun[p],
         \A o \in Op : kind[o] = "call" => (pc'[o] = "idle" <=> pc[o] = "idle")
  PROVE  Numbered'
<1>1. \A o \in Op : caller[o] \in Peer /\ order[o] \in Nat /\ begun[caller[o]] \in Nat
  BY OpAssumption DEF RpcInv, TypeOK
<1>2. \A o \in Op : order'[o] <= begun'[caller[o]]
  BY <1>1 DEF RpcInv, Numbered
<1> QED BY <1>2 DEF RpcInv, Numbered, Begun

LEMMA InitRpcInv == Init => RpcInv
<1> SUFFICES ASSUME Init PROVE RpcInv
  OBVIOUS
<1>1. wire \in [Peer -> Seq(Frame)] /\ inbox \in [Peer -> Seq(Frame)]
  BY DEF Init
<1>2. TypeOK
  BY <1>1, IdAssumption DEF Init, TypeOK, Holder
<1>3. Numbered /\ Handled
  BY OpAssumption DEF Init, Numbered, Handled, Begun
<1>4. Traced
  BY DEF Init, Traced, Elems
<1> QED BY <1>2, <1>3, <1>4 DEF RpcInv

LEMMA BeginCallInv ==
  ASSUME RpcInv, NEW o \in Op, BeginCall(o)
  PROVE  RpcInv'
<1> DEFINE p == caller[o]  n == NextId(call_id[p])
<1>1. p \in Peer /\ call_id[p] \in 0..MaxId /\ begun[p] \in Nat
  BY OpAssumption DEF RpcInv, TypeOK
<1>2. n \in Ids /\ n \in 0..MaxId
  BY <1>1, NextIdType
<1>3. TypeOK'
  <2>1. /\ call_id' \in [Peer -> 0..MaxId] /\ calls' \in [Peer -> [Ids -> Op \cup {None}]]
        /\ id' \in [Op -> 0..MaxId] /\ begun' \in [Peer -> Nat] /\ order' \in [Op -> Nat]
    BY <1>1, <1>2 DEF RpcInv, TypeOK, BeginCall
  <2>2. pc' \in [Op -> {"idle", "lock", "send", "confirm", "wait", "done"}]
    BY DEF RpcInv, TypeOK, BeginCall, Goto
  <2> QED BY <2>1, <2>2 DEF RpcInv, TypeOK, BeginCall, netVars
<1>4. /\ ~Begun(o) /\ kind[o] = "call" /\ pc'[o] = "lock" /\ id'[o] = n
      /\ order'[o] = begun[p] + 1 /\ begun'[p] = begun[p] + 1
      /\ \A q \in Op : q # o => pc'[q] = pc[q] /\ id'[q] = id[q] /\ order'[q] = order[q]
      /\ \A q \in Peer : q # p => begun'[q] = begun[q]
      /\ UNCHANGED <<hst, wire, inbox>>
  BY <1>1 DEF RpcInv, TypeOK, BeginCall, MayBegin, Goto, Numbered, netVars
<1>5. Numbered'
  <2>1. \A q \in Op : caller[q] \in Peer /\ order[q] \in Nat /\ order[q] <= begun[caller[q]]
                      /\ begun[caller[q]] \in Nat
    BY OpAssumption DEF RpcInv, TypeOK, Numbered
  <2>2. \A q \in Op : order'[q] <= begun'[caller[q]]
    BY <1>1, <1>4, <2>1
  <2>3. \A q, r \in Op : order'[r] # 0 /\ caller[q] = caller[r] /\ order'[q] = order'[r] => q = r
    BY <1>1, <1>4, <2>1 DEF RpcInv, Numbered, Begun
  <2>4. \A q \in Op : /\ order'[q] # 0 => id'[q] \in Ids /\ kind[q] = "call"
                      /\ order'[q] = 0 => id'[q] = 0
                      /\ kind[q] = "call" => (pc'[q] = "idle" <=> order'[q] = 0)
    BY <1>1, <1>2, <1>4, <2>1 DEF RpcInv, Numbered, Begun
  <2> QED BY <2>2, <2>3, <2>4 DEF Numbered, Begun
<1>6. Handled'
  BY <1>4 DEF RpcInv, Handled
<1>7. Traced'
  <2>1. Grown
    BY <1>4 DEF Grown
  <2> QED BY <1>4, <2>1, KeepTraced
<1> QED BY <1>3, <1>5, <1>6, <1>7 DEF RpcInv

\* Steps of an operation that neither write nor take a frame.
LEMMA OwnStepInv ==
  ASSUME RpcInv, NEW o \in Op,
         \/ BeginOneWay(o) \/ Lock(o) \/ SendFail(o) \/ Confirmed(o) \/ Refused(o)
         \/ GetReply(o) \/ LoseReply(o) \/ Timeout(o) \/ Cancel(o)
  PROVE  RpcInv'
<1> DEFINE p == caller[o]
<1> USE DEF BeginOneWay, Lock, SendFail, Confirmed, Refused, GetReply, LoseReply, Timeout, Cancel
<1>1. p \in Peer
  BY OpAssumption
<1>2. UNCHANGED <<call_id, wire, inbox, busy, id, confirm, answer, hst, order, begun, restarted>>
  BY DEF peerVars, netVars
<1>3. calls' \in [Peer -> [Ids -> Op \cup {None}]]
  <2>1. UNCHANGED calls \/ calls' = Forget(p, id[o])
    BY DEF peerVars
  <2> QED BY <1>1, <2>1, ForgetFacts DEF RpcInv, TypeOK
<1>4. lock' \in [Peer -> Holder]
  <2>1. None \in Holder /\ <<"call", o>> \in Holder
    BY DEF Holder
  <2>2. lock' = lock \/ \E h \in Holder : lock' = [lock EXCEPT ![p] = h]
    BY <2>1 DEF Release, Unlock
  <2> HIDE DEF BeginOneWay, Lock, SendFail, Confirmed, Refused, GetReply, LoseReply, Timeout, Cancel
  <2> QED BY <2>2 DEF RpcInv, TypeOK
<1>5. up' \subseteq Peer
  BY DEF netVars, RpcInv, TypeOK
<1>6. \E l \in {"lock", "send", "wait", "done"} :
        /\ pc' = [pc EXCEPT ![o] = l]
        /\ l = "lock" => kind[o] # "call"
        /\ l # "lock" => pc[o] # "idle"
        /\ l = "wait" => pc[o] = "confirm"
  BY DEF Goto, Finish
<1>7. result' \in [Op -> {"none", "sent", "reply", "error", "timeout", "cancelled"}]
  BY DEF Finish, RpcInv, TypeOK
<1>8. pc' \in [Op -> {"idle", "lock", "send", "confirm", "wait", "done"}]
  BY <1>6 DEF RpcInv, TypeOK
<1>9. TypeOK'
  BY <1>2, <1>3, <1>4, <1>5, <1>7, <1>8 DEF RpcInv, TypeOK
<1> HIDE DEF BeginOneWay, Lock, SendFail, Confirmed, Refused, GetReply, LoseReply, Timeout, Cancel
<1>10. \A q \in Op : /\ pc[q] # "idle" => pc'[q] # "idle"
                     /\ kind[q] = "call" => (pc'[q] = "idle" <=> pc[q] = "idle")
                     /\ pc'[q] \in {"confirm", "wait"} => pc[q] \in {"confirm", "wait"}
  BY <1>6 DEF RpcInv, TypeOK
<1>11. Numbered'
  <2>1. \A q \in Peer : begun'[q] \in Nat /\ begun'[q] >= begun[q]
    BY <1>2 DEF RpcInv, TypeOK
  <2> QED BY <1>2, <1>10, <2>1, KeepNumbered
<1>12. Handled'
  BY <1>2, <1>10 DEF RpcInv, Handled
<1>13. Traced'
  <2>1. Grown
    BY <1>2, <1>10 DEF Grown
  <2> QED BY <1>2, <2>1, KeepTraced
<1> QED BY <1>9, <1>11, <1>12, <1>13 DEF RpcInv

\* A frame that is written is behind those that were written before.
LEMMA WrittenFacts ==
  ASSUME TypeOK, NEW p \in Peer, NEW f \in Frame, Written(p, f)
  PROVE  /\ wire' \in [Peer -> Seq(Frame)]
         /\ \A q \in Peer : \A g \in Elems(wire'[q]) : g \in Elems(wire[q]) \/ g = f
<1>1. CASE wire' = wire
  BY <1>1 DEF TypeOK
<1>2. CASE wire' = [wire EXCEPT ![p] = Append(wire[p], f)]
  <2>1. wire \in [Peer -> Seq(Frame)]
    BY DEF TypeOK
  <2>2. Append(wire[p], f) \in Seq(Frame) /\ Elems(Append(wire[p], f)) = Elems(wire[p]) \cup {f}
    BY <2>1, ElemsFacts
  <2> QED BY <1>2, <2>1, <2>2
<1> QED BY <1>1, <1>2 DEF Written

\* A frame that is taken was there.
LEMMA TakenFacts ==
  ASSUME TypeOK, NEW p \in Peer, NEW k, Take(p, k), Taken(p)
  PROVE  /\ inbox' \in [Peer -> Seq(Frame)]
         /\ \A q \in Peer : Elems(inbox'[q]) \subseteq Elems(inbox[q])
         /\ Head(inbox[p]) \in Frame /\ Head(inbox[p]) \in Elems(inbox[p])
         /\ Head(inbox[p]).kind = k
<1>1. inbox \in [Peer -> Seq(Frame)] /\ inbox[p] # <<>> /\ inbox' = [inbox EXCEPT ![p] = Tail(inbox[p])]
  BY DEF TypeOK, Take, Taken
<1>2. /\ Tail(inbox[p]) \in Seq(Frame) /\ Elems(Tail(inbox[p])) \subseteq Elems(inbox[p])
      /\ Head(inbox[p]) \in Elems(inbox[p]) /\ Head(inbox[p]) \in Frame
  BY <1>1, ElemsFacts
<1> QED BY <1>1, <1>2 DEF Take

LEMMA SendInv ==
  ASSUME RpcInv, NEW o \in Op, Send(o)
  PROVE  RpcInv'
<1> DEFINE p == caller[o]
<1>1. p \in Peer /\ target[o] \in Peer /\ kind[o] \in {"call", "call0", "notify"}
  BY OpAssumption
<1>2. RequestOf(o) \in Frame /\ RequestOf(o).of = o /\ RequestOf(o).kind # "reply"
  BY <1>1 DEF RequestOf, Frame, RpcInv, TypeOK
<1>3. /\ wire' \in [Peer -> Seq(Frame)]
      /\ \A q \in Peer : \A g \in Elems(wire'[q]) : g \in Elems(wire[q]) \/ g = RequestOf(o)
  BY <1>1, <1>2, WrittenFacts DEF Send, RpcInv
<1>4. UNCHANGED <<peerVars, inbox, up, busy, id, confirm, answer, hst, order>> /\ pc[o] = "send"
  BY DEF Send
<1>5. \E l \in {"confirm", "wait", "done"} :
        pc' = [pc EXCEPT ![o] = l] /\ (l # "done" => kind[o] = "call")
  BY DEF Send, Goto, Finish
<1>6. /\ lock' = lock \/ lock' = [lock EXCEPT ![p] = None]
      /\ result' = result \/ result' = [result EXCEPT ![o] = "sent"]
  BY DEF Send, Unlock, Finish
<1>7. TypeOK'
  <2>1. pc' \in [Op -> {"idle", "lock", "send", "confirm", "wait", "done"}]
    BY <1>5 DEF RpcInv, TypeOK
  <2>2. lock' \in [Peer -> Holder]
    BY <1>6 DEF RpcInv, TypeOK, Holder
  <2>3. result' \in [Op -> {"none", "sent", "reply", "error", "timeout", "cancelled"}]
    BY <1>6 DEF RpcInv, TypeOK
  <2> QED BY <1>3, <1>4, <2>1, <2>2, <2>3 DEF RpcInv, TypeOK, peerVars
<1>8. \A q \in Op : /\ pc[q] = "idle" <=> pc'[q] = "idle"
                    /\ pc'[q] \in {"confirm", "wait"} => pc[q] \in {"confirm", "wait"} \/ kind[q] = "call"
  BY <1>4, <1>5 DEF RpcInv, TypeOK
<1>9. Numbered'
  <2>1. \A q \in Peer : begun'[q] \in Nat /\ begun'[q] >= begun[q]
    BY <1>4 DEF RpcInv, TypeOK, peerVars
  <2> QED BY <1>4, <1>8, <2>1, KeepNumbered
<1>10. Handled'
  BY <1>4, <1>8 DEF RpcInv, Handled
<1>11. Traced'
  <2>1. Grown
    BY <1>4, <1>8 DEF Grown
  <2>2. Genuine(RequestOf(o))'
    <3>1. pc'[o] # "idle"
      BY <1>4, <1>8
    <3>2. RequestOf(o)' = RequestOf(o)
      BY <1>4 DEF RequestOf
    <3> QED BY <1>2, <3>1, <3>2 DEF Genuine
  <2>3. RequestOf(o)' = RequestOf(o)
    BY <1>4 DEF RequestOf
  <2>4. \A q \in Peer : \A f \in Elems(wire'[q]) : f \in Elems(wire[q]) \/ Genuine(f)'
    BY <1>3, <2>2, <2>3 DEF Genuine, Begun
  <2> QED BY <1>4, <2>1, <2>4, KeepTraced
<1> QED BY <1>7, <1>9, <1>10, <1>11 DEF RpcInv

\* Steps of the processor and of the tasks that do not touch the calls.
LEMMA TaskInv ==
  ASSUME RpcInv,
         \/ \E p \in Peer : TakeNotify(p) \/ TakeRequest(p)
         \/ \E o \in Op : HandlerEnd(o) \/ ReplyLock(o) \/ ReplySend(o)
  PROVE  RpcInv'
<1>1. UNCHANGED <<callVars, peerVars, up>>
  BY DEF TakeNotify, TakeRequest, HandlerEnd, ReplyLock, ReplySend, netVars
<1>2. Numbered' /\ Grown
  <2>1. \A q \in Peer : begun'[q] \in Nat /\ begun'[q] >= begun[q]
    BY <1>1 DEF RpcInv, TypeOK, peerVars
  <2> QED BY <1>1, <2>1, KeepNumbered DEF callVars, Grown
<1>3. ASSUME /\ wire' \in [Peer -> Seq(Frame)] /\ inbox' \in [Peer -> Seq(Frame)]
             /\ busy' \in [Peer -> Op \cup {None}] /\ lock' \in [Peer -> Holder],
             NEW o \in Op, pc[o] # "idle", NEW l \in {"run", "lock", "send", "done"},
             hst' = [hst EXCEPT ![o] = l], l \in {"lock", "send"} => kind[o] = "call",
             Traced'
      PROVE  RpcInv'
  <2>1. hst' \in [Op -> {"none", "run", "lock", "send", "done"}]
    BY <1>3 DEF RpcInv, TypeOK
  <2>2. TypeOK'
    BY <1>1, <1>3, <2>1 DEF RpcInv, TypeOK, callVars, peerVars
  <2>3. Handled'
    BY <1>1, <1>3 DEF RpcInv, TypeOK, Handled, callVars
  <2> QED BY <1>2, <1>3, <2>2, <2>3 DEF RpcInv
<1>4. ASSUME NEW p \in Peer, TakeNotify(p) \/ TakeRequest(p) PROVE RpcInv'
  <2> DEFINE f == Head(inbox[p])
  <2>1. (Take(p, "notify") \/ Take(p, "request")) /\ Taken(p)
    BY <1>4 DEF TakeNotify, TakeRequest
  <2>2. /\ inbox' \in [Peer -> Seq(Frame)]
        /\ \A q \in Peer : Elems(inbox'[q]) \subseteq Elems(inbox[q])
        /\ f \in Frame /\ f \in Elems(inbox[p])
    BY <2>1, TakenFacts DEF RpcInv
  <2>3. f.of \in Op /\ pc[f.of] # "idle"
    BY <2>2 DEF Frame, RpcInv, Traced, Genuine
  <2>4. UNCHANGED <<wire, lock>> /\ hst' = [hst EXCEPT ![f.of] = "run"]
    BY <1>4 DEF TakeNotify, TakeRequest
  <2>5. wire' \in [Peer -> Seq(Frame)] /\ lock' \in [Peer -> Holder]
    BY <2>4 DEF RpcInv, TypeOK
  <2>6. busy' \in [Peer -> Op \cup {None}]
    BY <1>4, <2>3 DEF TakeNotify, TakeRequest, RpcInv, TypeOK
  <2>7. Traced'
    BY <1>2, <2>2, <2>4, KeepTraced
  <2> QED BY <1>3, <2>2, <2>3, <2>4, <2>5, <2>6, <2>7
<1>5. ASSUME NEW o \in Op, HandlerEnd(o) \/ ReplyLock(o) PROVE RpcInv'
  <2>1. hst[o] # "none" /\ (hst[o] = "lock" => kind[o] = "call") /\ pc[o] # "idle"
    BY <1>5 DEF HandlerEnd, ReplyLock, RpcInv, Handled
  <2>2. UNCHANGED <<wire, inbox>> /\ wire \in [Peer -> Seq(Frame)] /\ inbox \in [Peer -> Seq(Frame)]
    BY <1>5 DEF HandlerEnd, ReplyLock, netVars, RpcInv, TypeOK
  <2>3. \E l \in {"lock", "send", "done"} :
          hst' = [hst EXCEPT ![o] = l] /\ (l \in {"lock", "send"} => kind[o] = "call")
    BY <1>5, <2>1 DEF HandlerEnd, ReplyLock
  <2>4. busy' \in [Peer -> Op \cup {None}]
    <3>1. busy \in [Peer -> Op \cup {None}]
      BY DEF RpcInv, TypeOK
    <3>2. CASE HandlerEnd(o)
      BY <3>1, <3>2 DEF HandlerEnd
    <3>3. CASE ReplyLock(o)
      BY <3>1, <3>3 DEF ReplyLock
    <3> QED BY <1>5, <3>2, <3>3
  <2>5. lock' \in [Peer -> Holder]
    <3>1. <<"reply", o>> \in Holder
      BY DEF Holder
    <3>2. lock' = lock \/ lock' = [lock EXCEPT ![target[o]] = <<"reply", o>>]
      BY <1>5 DEF HandlerEnd, ReplyLock
    <3> QED BY <3>1, <3>2 DEF RpcInv, TypeOK
  <2>6. Traced'
    BY <1>2, <2>2, KeepTraced
  <2>7. PICK l \in {"lock", "send", "done"} :
          hst' = [hst EXCEPT ![o] = l] /\ (l \in {"lock", "send"} => kind[o] = "call")
    BY <2>3
  <2> QED BY <1>3, <2>1, <2>2, <2>4, <2>5, <2>6, <2>7
<1>6. ASSUME NEW o \in Op, ReplySend(o) PROVE RpcInv'
  <2> DEFINE f == [kind |-> "reply", id |-> id[o], of |-> o, to |-> caller[o]]
  <2>1. target[o] \in Peer /\ caller[o] \in Peer /\ id[o] \in 0..MaxId
    BY OpAssumption DEF RpcInv, TypeOK
  <2>2. f \in Frame
    BY <2>1 DEF Frame
  <2>3. /\ wire' \in [Peer -> Seq(Frame)]
        /\ \A q \in Peer : \A g \in Elems(wire'[q]) : g \in Elems(wire[q]) \/ g = f
    BY <1>6, <2>1, <2>2, WrittenFacts DEF ReplySend, RpcInv
  <2>4. kind[o] = "call" /\ pc[o] # "idle" /\ Begun(o)
    BY <1>6 DEF ReplySend, RpcInv, Handled, Numbered
  <2>5. UNCHANGED <<inbox, busy>> /\ hst' = [hst EXCEPT ![o] = "done"]
        /\ lock' = [lock EXCEPT ![target[o]] = None]
    BY <1>6 DEF ReplySend, Unlock
  <2>6. /\ inbox' \in [Peer -> Seq(Frame)] /\ busy' \in [Peer -> Op \cup {None}]
        /\ lock' \in [Peer -> Holder]
    BY <2>5 DEF RpcInv, TypeOK, Holder
  <2>7. \A g : g = f => Genuine(g)'
    BY <1>1, <2>4 DEF Genuine, Begun, callVars
  <2>8. Traced'
    BY <1>2, <2>3, <2>5, <2>7, KeepTraced
  <2> QED BY <1>3, <2>3, <2>4, <2>5, <2>6, <2>8
<1> QED BY <1>4, <1>5, <1>6

LEMMA TakeReplyInv ==
  ASSUME RpcInv, NEW p \in Peer, TakeReply(p)
  PROVE  RpcInv'
<1> DEFINE f == Head(inbox[p])
<1>1. /\ inbox' \in [Peer -> Seq(Frame)]
      /\ \A q \in Peer : Elems(inbox'[q]) \subseteq Elems(inbox[q])
      /\ f \in Frame
  BY TakenFacts DEF TakeReply, RpcInv
<1>2. UNCHANGED <<call_id, begun, restarted, lock, wire, up, busy, pc, id, confirm, result, hst, order>>
  BY DEF TakeReply
<1>3. f.of \in Op
  BY <1>1 DEF Frame
<1>4. calls' \in [Peer -> [Ids -> Op \cup {None}]] /\ answer' \in [Op -> Op \cup {None}]
  <2>1. calls' = Forget(p, f.id)
    BY DEF TakeReply
  <2>2. answer' = answer \/ \E o : answer' = [answer EXCEPT ![o] = f.of]
    BY DEF TakeReply
  <2> QED BY <1>3, <2>1, <2>2, ForgetFacts DEF RpcInv, TypeOK
<1>5. TypeOK'
  BY <1>1, <1>2, <1>4 DEF RpcInv, TypeOK
<1>6. Numbered'
  <2>1. \A q \in Peer : begun'[q] \in Nat /\ begun'[q] >= begun[q]
    BY <1>2 DEF RpcInv, TypeOK
  <2> QED BY <1>2, <2>1, KeepNumbered
<1>7. Handled' /\ Traced'
  <2>1. Grown
    BY <1>2 DEF Grown
  <2> QED BY <1>1, <1>2, <2>1, KeepTraced DEF RpcInv, Handled
<1> QED BY <1>5, <1>6, <1>7 DEF RpcInv

LEMMA RouteInv ==
  ASSUME RpcInv, NEW p \in Peer, Route(p)
  PROVE  RpcInv'
<1> DEFINE f == Head(wire[p])
<1>1. /\ wire \in [Peer -> Seq(Frame)] /\ inbox \in [Peer -> Seq(Frame)] /\ wire[p] # <<>>
      /\ wire' = [wire EXCEPT ![p] = Tail(wire[p])]
  BY DEF RpcInv, TypeOK, Route
<1>2. /\ Tail(wire[p]) \in Seq(Frame) /\ Elems(Tail(wire[p])) \subseteq Elems(wire[p])
      /\ f \in Elems(wire[p]) /\ f \in Frame
  BY <1>1, ElemsFacts
<1>3. /\ wire' \in [Peer -> Seq(Frame)]
      /\ \A q \in Peer : Elems(wire'[q]) \subseteq Elems(wire[q])
  BY <1>1, <1>2
<1>4. /\ inbox' \in [Peer -> Seq(Frame)]
      /\ \A q \in Peer : \A g \in Elems(inbox'[q]) : g \in Elems(inbox[q]) \/ (g = f /\ g.to = q)
  <2>1. CASE inbox' = inbox
    BY <1>1, <2>1
  <2>2. CASE inbox' = [inbox EXCEPT ![f.to] = Append(inbox[f.to], f)]
    <3>1. f.to \in Peer
      BY <1>2 DEF Frame
    <3>2. /\ Append(inbox[f.to], f) \in Seq(Frame)
          /\ Elems(Append(inbox[f.to], f)) = Elems(inbox[f.to]) \cup {f}
      BY <1>1, <1>2, <3>1, ElemsFacts
    <3> QED BY <1>1, <2>2, <3>1, <3>2
  <2> QED BY <2>1, <2>2 DEF Route
<1>5. UNCHANGED <<peerVars, lock, up, busy, pc, id, answer, result, hst, order>>
  BY DEF Route
<1>6. confirm' \in [Op -> {"none", "OK", "ERR"}]
  <2>1. confirm' = confirm \/ \E o, c : confirm' = [confirm EXCEPT ![o] = c] /\ c \in {"OK", "ERR"}
    BY DEF Route
  <2> QED BY <2>1 DEF RpcInv, TypeOK
<1>7. TypeOK'
  BY <1>3, <1>4, <1>5, <1>6 DEF RpcInv, TypeOK, peerVars
<1>8. Numbered'
  <2>1. \A q \in Peer : begun'[q] \in Nat /\ begun'[q] >= begun[q]
    BY <1>5 DEF RpcInv, TypeOK, peerVars
  <2> QED BY <1>5, <2>1, KeepNumbered
<1>9. Handled' /\ Traced'
  <2>1. Grown
    BY <1>5 DEF Grown
  <2> QED BY <1>2, <1>3, <1>4, <1>5, <2>1, KeepTraced DEF RpcInv, Handled
<1> QED BY <1>7, <1>8, <1>9 DEF RpcInv

LEMMA BreakInv ==
  ASSUME RpcInv, NEW p \in Peer, Break(p)
  PROVE  RpcInv'
<1>1. UNCHANGED <<callVars, peerVars, lock, busy, hst>> /\ up' \subseteq Peer
  BY DEF Break, RpcInv, TypeOK
<1>2. /\ wire \in [Peer -> Seq(Frame)] /\ inbox \in [Peer -> Seq(Frame)]
      /\ <<>> \in Seq(Frame) /\ Elems(<<>>) = {}
  BY ElemsFacts DEF RpcInv, TypeOK
<1>3. /\ wire' \in [Peer -> Seq(Frame)]
      /\ \A q \in Peer : Elems(wire'[q]) \subseteq Elems(wire[q])
  BY <1>2 DEF Break
<1>4. /\ inbox' \in [Peer -> Seq(Frame)]
      /\ \A q \in Peer : Elems(inbox'[q]) \subseteq Elems(inbox[q])
  BY <1>2 DEF Break
<1>5. TypeOK'
  BY <1>1, <1>3, <1>4 DEF RpcInv, TypeOK, callVars, peerVars
<1>6. Numbered'
  <2>1. \A q \in Peer : begun'[q] \in Nat /\ begun'[q] >= begun[q]
    BY <1>1 DEF RpcInv, TypeOK, peerVars
  <2> QED BY <1>1, <2>1, KeepNumbered DEF callVars
<1>7. Handled' /\ Traced'
  <2>1. Grown
    BY <1>1 DEF Grown, callVars
  <2> QED BY <1>1, <1>3, <1>4, <2>1, KeepTraced DEF RpcInv, Handled, callVars
<1> QED BY <1>5, <1>6, <1>7 DEF RpcInv

LEMMA RestartInv ==
  ASSUME RpcInv, NEW p \in Peer, Restart(p)
  PROVE  RpcInv'
<1> DEFINE gone == {o \in Op : caller[o] = p /\ pc[o] \notin {"idle", "done"}}
<1>1. UNCHANGED <<wire, busy, id, confirm, answer, hst, order>>
  BY DEF Restart
<1>2. /\ \A o \in Op : pc'[o] = IF o \in gone THEN "done" ELSE pc[o]
      /\ pc' \in [Op -> {"idle", "lock", "send", "confirm", "wait", "done"}]
  BY DEF Restart, RpcInv, TypeOK
<1>3. /\ inbox' \in [Peer -> Seq(Frame)]
      /\ \A q \in Peer : Elems(inbox'[q]) \subseteq Elems(inbox[q])
  <2>1. inbox \in [Peer -> Seq(Frame)] /\ <<>> \in Seq(Frame) /\ Elems(<<>>) = {}
    BY ElemsFacts DEF RpcInv, TypeOK
  <2>2. inbox' = [inbox EXCEPT ![p] = <<>>]
    BY DEF Restart
  <2> QED BY <2>1, <2>2
<1>4. begun' \in [Peer -> Nat] /\ \A q \in Peer : begun'[q] \in Nat /\ begun'[q] >= begun[q]
  BY IdAssumption DEF Restart, RpcInv, TypeOK
<1>5. /\ call_id' \in [Peer -> 0..MaxId] /\ calls' \in [Peer -> [Ids -> Op \cup {None}]]
      /\ lock' \in [Peer -> Holder] /\ up' \subseteq Peer /\ restarted' \subseteq Peer
  BY IdAssumption DEF Restart, RpcInv, TypeOK, Holder
<1>6. result' \in [Op -> {"none", "sent", "reply", "error", "timeout", "cancelled"}]
  BY DEF Restart, RpcInv, TypeOK
<1>7. TypeOK'
  BY <1>1, <1>2, <1>3, <1>4, <1>5, <1>6 DEF RpcInv, TypeOK
<1>8. \A o \in Op : /\ pc'[o] = "idle" <=> pc[o] = "idle"
                    /\ pc'[o] \in {"confirm", "wait"} => pc[o] \in {"confirm", "wait"}
  BY <1>2
<1>9. Numbered'
  BY <1>1, <1>4, <1>8, KeepNumbered
<1>10. Handled' /\ Traced'
  <2>1. Grown
    BY <1>1, <1>8 DEF Grown
  <2> QED BY <1>1, <1>3, <1>8, <2>1, KeepTraced DEF RpcInv, Handled
<1> QED BY <1>7, <1>9, <1>10 DEF RpcInv

LEMMA NextRpcInv == RpcInv /\ [Next]_vars => RpcInv'
<1> SUFFICES ASSUME RpcInv, [Next]_vars PROVE RpcInv'
  OBVIOUS
<1>1. CASE UNCHANGED vars
  BY <1>1 DEF vars, RpcInv, TypeOK, Numbered, Handled, Traced, Genuine, Begun
<1>2. CASE Next
  BY <1>2, BeginCallInv, OwnStepInv, SendInv, TaskInv, TakeReplyInv, RouteInv, BreakInv, RestartInv
     DEF Next, Step
<1> QED BY <1>1, <1>2

\* The types are kept.
THEOREM RpcTypes == Spec => []TypeOK
<1>1. RpcInv => TypeOK
  BY DEF RpcInv
<1> QED BY InitRpcInv, NextRpcInv, <1>1, PTL DEF Spec

-----------------------------------------------------------------------------
(* Replies *)

\* The last MaxId calls of a client are numbered backwards from call_id,
\* around the circle of the ids.  A restart ends the round.
Rounds ==
  \A o \in Op : Begun(o) /\ order[o] + MaxId > begun[caller[o]] =>
    \/ id[o] + begun[caller[o]] = call_id[caller[o]] + order[o]
    \/ id[o] + begun[caller[o]] = call_id[caller[o]] + order[o] + MaxId

\* So two calls of a client with the same number are MaxId calls apart.
SameIdApart ==
  \A q, o \in Op :
    /\ Begun(q) /\ Begun(o) /\ caller[q] = caller[o] /\ id[q] = id[o]
    /\ order[q] < order[o]
    => order[o] >= order[q] + MaxId

\* Under a number the map has the last call that was given it.
LatestEntry ==
  \A p \in Peer, n \in Ids : calls[p][n] # None =>
    /\ Begun(calls[p][n]) /\ caller[calls[p][n]] = p /\ id[calls[p][n]] = n
    /\ \A q \in Op : Begun(q) /\ caller[q] = p /\ id[q] = n => order[q] <= order[calls[p][n]]

Answered == \A o \in Op : answer[o] # None => Begun(o) /\ Begun(answer[o])

ReplyInv == RpcInv /\ Rounds /\ SameIdApart /\ LatestEntry /\ Answered /\ ReplyAnswersCall

LEMMA BeginCallReply ==
  ASSUME ReplyInv, NEW o \in Op, BeginCall(o)
  PROVE  (Rounds /\ SameIdApart /\ LatestEntry /\ Answered /\ ReplyAnswersCall)'
<1> DEFINE p == caller[o]  n == NextId(call_id[p])
<1>1. /\ p \in Peer /\ call_id[p] \in 0..MaxId /\ call_id[p] \in Nat /\ begun[p] \in Nat
      /\ MaxId \in Nat /\ MaxId > 0
  BY OpAssumption, IdAssumption DEF ReplyInv, RpcInv, TypeOK
<1>2. n \in Ids /\ n \in Nat
  BY <1>1, NextIdType DEF Ids
<1>3. /\ ~Begun(o) /\ id'[o] = n
      /\ order'[o] = begun[p] + 1 /\ begun'[p] = begun[p] + 1 /\ call_id'[p] = n
      /\ \A q \in Op : q # o => id'[q] = id[q] /\ order'[q] = order[q]
      /\ \A q \in Peer : q # p => begun'[q] = begun[q] /\ call_id'[q] = call_id[q]
      /\ UNCHANGED answer
  BY <1>1, <1>2 DEF ReplyInv, RpcInv, TypeOK, BeginCall, MayBegin, Numbered
<1>4. \A q \in Op : /\ order[q] \in Nat /\ order[q] <= begun[caller[q]] /\ id[q] \in 0..MaxId
                    /\ caller[q] \in Peer /\ begun[caller[q]] \in Nat /\ call_id[caller[q]] \in 0..MaxId
                    /\ Begun(q) => id[q] \in 1..MaxId /\ q # o
  BY <1>3, OpAssumption DEF ReplyInv, RpcInv, TypeOK, Numbered, Ids
<1>5. (call_id[p] = MaxId /\ n = 1) \/ (call_id[p] < MaxId /\ n = call_id[p] + 1)
  BY <1>1 DEF NextId
<1>6. ASSUME NEW q \in Op, Begun(q), caller[q] = p, order[q] + MaxId > begun[p]
      PROVE  \/ id[q] + begun[p] = call_id[p] + order[q]
             \/ id[q] + begun[p] = call_id[p] + order[q] + MaxId
  BY <1>6 DEF ReplyInv, Rounds
<1>7. Rounds'
  <2> SUFFICES ASSUME NEW q \in Op, order'[q] # 0, order'[q] + MaxId > begun'[caller[q]]
               PROVE  \/ id'[q] + begun'[caller[q]] = call_id'[caller[q]] + order'[q]
                      \/ id'[q] + begun'[caller[q]] = call_id'[caller[q]] + order'[q] + MaxId
    BY DEF Rounds, Begun
  <2>1. CASE q = o
    BY <1>1, <1>2, <1>3, <2>1
  <2>2. CASE q # o /\ caller[q] # p
    BY <1>3, <1>4, <2>2 DEF ReplyInv, Rounds, Begun
  <2>3. CASE q # o /\ caller[q] = p
    <3>1. Begun(q) /\ order[q] + MaxId > begun[p]
      BY <1>1, <1>3, <1>4, <2>3 DEF Begun
    <3>2. CASE call_id[p] = MaxId
      BY <1>1, <1>2, <1>3, <1>4, <1>5, <1>6, <2>3, <3>1, <3>2
    <3>3. CASE call_id[p] < MaxId
      BY <1>1, <1>2, <1>3, <1>4, <1>5, <1>6, <2>3, <3>1, <3>3
    <3> QED BY <1>5, <3>2, <3>3
  <2> QED BY <2>1, <2>2, <2>3
<1>8. SameIdApart'
  <2>1. ASSUME NEW q \in Op, Begun(q), caller[q] = p, id[q] = n
        PROVE  begun[p] + 1 >= order[q] + MaxId
    <3>1. CASE order[q] + MaxId > begun[p]
      BY <1>1, <1>4, <1>5, <1>6, <2>1, <3>1
    <3>2. CASE ~(order[q] + MaxId > begun[p])
      BY <1>1, <1>4, <3>2
    <3> QED BY <3>1, <3>2
  <2> SUFFICES ASSUME NEW q \in Op, NEW r \in Op, order'[q] # 0, order'[r] # 0,
                      caller[q] = caller[r], id'[q] = id'[r], order'[q] < order'[r]
               PROVE  order'[r] >= order'[q] + MaxId
    BY DEF SameIdApart, Begun
  <2>2. CASE r = o
    <3>1. q # o
      BY <1>1, <1>3, <2>2
    <3> QED BY <1>3, <2>1, <2>2, <3>1 DEF Begun
  <2>3. CASE r # o
    <3>1. q # o
      BY <1>1, <1>3, <1>4, <2>3
    <3> QED BY <1>3, <2>3, <3>1 DEF ReplyInv, SameIdApart, Begun
  <2> QED BY <2>2, <2>3
<1>9. LatestEntry'
  <2> SUFFICES ASSUME NEW r \in Peer, NEW m \in Ids, calls'[r][m] # None
               PROVE  /\ order'[calls'[r][m]] # 0 /\ caller[calls'[r][m]] = r
                      /\ id'[calls'[r][m]] = m
                      /\ \A q \in Op : order'[q] # 0 /\ caller[q] = r /\ id'[q] = m =>
                            order'[q] <= order'[calls'[r][m]]
    BY DEF LatestEntry, Begun
  <2>1. calls \in [Peer -> [Ids -> Op \cup {None}]] /\ calls' = [calls EXCEPT ![p][n] = o]
    BY DEF ReplyInv, RpcInv, TypeOK, BeginCall
  <2>2. CASE r = p /\ m = n
    <3>1. calls'[r][m] = o
      BY <1>1, <1>2, <2>1, <2>2
    <3> QED BY <1>1, <1>3, <1>4, <2>2, <3>1
  <2>3. CASE ~(r = p /\ m = n)
    <3>1. calls'[r][m] = calls[r][m] /\ calls[r][m] \in Op
      BY <1>1, <1>2, <2>1, <2>3
    <3>2. Begun(calls[r][m]) /\ id[calls[r][m]] = m /\ caller[calls[r][m]] = r /\ calls[r][m] # o
      BY <1>3, <3>1 DEF ReplyInv, LatestEntry
    <3>3. ASSUME NEW q \in Op, order'[q] # 0, caller[q] = r, id'[q] = m
          PROVE  order'[q] <= order'[calls[r][m]]
      <4>1. q # o
        BY <1>3, <2>3, <3>3
      <4> QED BY <1>3, <3>1, <3>2, <3>3, <4>1 DEF ReplyInv, LatestEntry, Begun
    <3> QED BY <1>3, <3>1, <3>2, <3>3 DEF Begun
  <2> QED BY <2>2, <2>3
<1>10. Answered' /\ ReplyAnswersCall'
  <2>1. answer \in [Op -> Op \cup {None}]
    BY DEF ReplyInv, RpcInv, TypeOK
  <2> SUFFICES ASSUME NEW q \in Op, answer[q] # None
               PROVE  /\ order'[q] # 0 /\ order'[answer[q]] # 0
                      /\ answer[q] = q \/ Apart(answer[q], q)'
    BY <1>3 DEF Answered, ReplyAnswersCall, Begun, Apart
  <2>2. Begun(q) /\ Begun(answer[q]) /\ answer[q] \in Op /\ q # o /\ answer[q] # o
    BY <1>3, <2>1 DEF ReplyInv, Answered
  <2> QED BY <1>3, <2>2 DEF ReplyInv, ReplyAnswersCall, Apart, Begun
<1> QED BY <1>7, <1>8, <1>9, <1>10

LEMMA TakeReplyReply ==
  ASSUME ReplyInv, NEW p \in Peer, TakeReply(p)
  PROVE  (Rounds /\ SameIdApart /\ LatestEntry /\ Answered /\ ReplyAnswersCall)'
<1> DEFINE f == Head(inbox[p])  o == calls[p][f.id]
<1>1. UNCHANGED <<call_id, begun, id, order>>
  BY DEF TakeReply
<1>2. Rounds' /\ SameIdApart'
  BY <1>1 DEF ReplyInv, Rounds, SameIdApart, Begun
<1>3. f \in Frame /\ f \in Elems(inbox[p]) /\ f.kind = "reply"
  BY TakenFacts DEF TakeReply, ReplyInv, RpcInv
<1>4. f.of \in Op /\ Begun(f.of) /\ f.id = id[f.of] /\ caller[f.of] = p
  BY <1>3 DEF Frame, ReplyInv, RpcInv, Traced, Genuine
<1>5. f.id \in Ids
  BY <1>4 DEF ReplyInv, RpcInv, Numbered
<1>6. /\ calls \in [Peer -> [Ids -> Op \cup {None}]] /\ answer \in [Op -> Op \cup {None}]
      /\ order \in [Op -> Nat]
  BY DEF ReplyInv, RpcInv, TypeOK
<1>7. LatestEntry'
  <2>1. \A q \in Peer, n \in Ids : calls'[q][n] # None => calls'[q][n] = calls[q][n]
    BY ForgetFacts DEF TakeReply, ReplyInv, RpcInv
  <2> QED BY <1>1, <2>1 DEF ReplyInv, LatestEntry, Begun
<1>8. CASE UNCHANGED answer
  BY <1>1, <1>2, <1>7, <1>8 DEF ReplyInv, Answered, ReplyAnswersCall, Begun, Apart
<1>9. CASE o # None /\ answer' = [answer EXCEPT ![o] = f.of]
  <2>1. o \in Op /\ Begun(o) /\ caller[o] = p /\ id[o] = id[f.of] /\ order[f.of] <= order[o]
    BY <1>4, <1>5, <1>6, <1>9 DEF ReplyInv, LatestEntry
  <2>2. f.of = o \/ Apart(f.of, o)
    <3>1. CASE order[f.of] = order[o]
      BY <1>4, <2>1, <3>1 DEF ReplyInv, RpcInv, Numbered
    <3>2. CASE order[f.of] # order[o]
      <4>1. order[f.of] < order[o]
        BY <1>4, <1>6, <2>1, <3>2
      <4> QED BY <1>4, <2>1, <4>1 DEF ReplyInv, SameIdApart, Apart
    <3> QED BY <3>1, <3>2
  <2>3. \A q \in Op : answer'[q] = IF q = o THEN f.of ELSE answer[q]
    BY <1>6, <1>9
  <2>4. Answered'
    BY <1>1, <1>4, <2>1, <2>3 DEF ReplyInv, Answered, Begun
  <2>5. ReplyAnswersCall'
    BY <1>1, <2>1, <2>2, <2>3 DEF ReplyInv, ReplyAnswersCall, Apart
  <2> QED BY <1>2, <1>7, <2>4, <2>5
<1> QED BY <1>8, <1>9 DEF TakeReply

\* A step that takes entries off the map, or none, and gives no number.
LEMMA KeepReply ==
  ASSUME ReplyInv, UNCHANGED <<id, order, answer>>,
         \A p \in Peer, n \in Ids : calls'[p][n] # None => calls'[p][n] = calls[p][n],
         \A o \in Op : \/ begun'[caller[o]] = begun[caller[o]] /\ call_id'[caller[o]] = call_id[caller[o]]
                       \/ begun'[caller[o]] = begun[caller[o]] + MaxId
  PROVE  (Rounds /\ SameIdApart /\ LatestEntry /\ Answered /\ ReplyAnswersCall)'
<1>1. SameIdApart' /\ Answered' /\ ReplyAnswersCall'
  BY DEF ReplyInv, SameIdApart, Answered, ReplyAnswersCall, Begun, Apart
<1>2. LatestEntry'
  BY DEF ReplyInv, LatestEntry, Begun
<1>3. Rounds'
  <2>1. \A o \in Op : order[o] \in Nat /\ order[o] <= begun[caller[o]] /\ begun[caller[o]] \in Nat
    BY OpAssumption DEF ReplyInv, RpcInv, TypeOK, Numbered
  <2> QED BY <2>1, IdAssumption DEF ReplyInv, Rounds, Begun
<1> QED BY <1>1, <1>2, <1>3

LEMMA NextReplyInv == ReplyInv /\ [Next]_vars => ReplyInv'
<1> SUFFICES ASSUME ReplyInv, [Next]_vars PROVE ReplyInv'
  OBVIOUS
<1>1. RpcInv' /\ TypeOK
  BY NextRpcInv DEF ReplyInv, RpcInv
<1>2. CASE \E o \in Op : BeginCall(o)
  BY <1>1, <1>2, BeginCallReply DEF ReplyInv
<1>3. CASE \E p \in Peer : TakeReply(p)
  BY <1>1, <1>3, TakeReplyReply DEF ReplyInv
<1>4. CASE UNCHANGED <<call_id, calls, begun, id, order, answer>>
  BY <1>1, <1>4, KeepReply DEF ReplyInv
<1>5. ASSUME NEW o \in Op, SendFail(o) \/ Refused(o) \/ LoseReply(o) \/ Timeout(o) PROVE ReplyInv'
  <2>1. UNCHANGED <<call_id, begun, id, order, answer>> /\ caller[o] \in Peer
    BY <1>5, OpAssumption DEF SendFail, Refused, LoseReply, Timeout
  <2>2. UNCHANGED calls \/ calls' = Forget(caller[o], id[o])
    BY <1>5 DEF SendFail, Refused, LoseReply, Timeout
  <2>3. \A p \in Peer, n \in Ids : calls'[p][n] # None => calls'[p][n] = calls[p][n]
    BY <1>1, <2>1, <2>2, ForgetFacts
  <2> QED BY <1>1, <2>1, <2>3, KeepReply DEF ReplyInv
<1>6. ASSUME NEW p \in Peer, Restart(p) PROVE ReplyInv'
  <2>1. UNCHANGED <<id, order, answer>>
    BY <1>6 DEF Restart
  <2>2. \A q \in Peer, n \in Ids : calls'[q][n] # None => calls'[q][n] = calls[q][n]
    BY <1>1, <1>6 DEF Restart, TypeOK
  <2>3. \A q \in Peer : \/ begun'[q] = begun[q] /\ call_id'[q] = call_id[q]
                        \/ begun'[q] = begun[q] + MaxId
    BY <1>1, <1>6 DEF Restart, TypeOK
  <2>4. \A o \in Op : caller[o] \in Peer
    BY OpAssumption
  <2> QED BY <1>1, <2>1, <2>2, <2>3, <2>4, KeepReply DEF ReplyInv
<1>7. CASE \E o \in Op : \/ BeginOneWay(o) \/ Lock(o) \/ Send(o) \/ Confirmed(o) \/ GetReply(o)
                         \/ HandlerEnd(o) \/ ReplySend(o) \/ Cancel(o) \/ ReplyLock(o)
  BY <1>4, <1>7 DEF BeginOneWay, Lock, Send, Confirmed, GetReply, HandlerEnd, ReplySend, Cancel,
                    ReplyLock, peerVars, callVars
<1>8. CASE \E p \in Peer : TakeNotify(p) \/ TakeRequest(p) \/ Route(p) \/ Break(p)
  BY <1>4, <1>8 DEF TakeNotify, TakeRequest, Route, Break, peerVars, callVars
<1>9. CASE UNCHANGED vars
  BY <1>4, <1>9 DEF vars
<1> QED BY <1>2, <1>3, <1>5, <1>6, <1>7, <1>8, <1>9 DEF Next, Step

LEMMA InitReplyInv == Init => ReplyInv
<1> SUFFICES ASSUME Init PROVE ReplyInv
  OBVIOUS
<1>1. RpcInv
  BY InitRpcInv
<1>2. Rounds /\ SameIdApart /\ LatestEntry /\ Answered /\ ReplyAnswersCall
  BY OpAssumption DEF Init, Rounds, SameIdApart, LatestEntry, Answered, ReplyAnswersCall, Begun
<1> QED BY <1>1, <1>2 DEF ReplyInv

\* A call that gets a reply gets the one to its own request, whatever was
\* dropped, refused, lost or timed out before; only when all numbers of u32
\* have been used in between, or the client counts from the start, may it be
\* the reply to an earlier call with the same number (call_id, calls).
THEOREM RepliesAnswerCalls == Spec => []ReplyAnswersCall
<1>1. ReplyInv => ReplyAnswersCall
  BY DEF ReplyInv
<1> QED BY InitReplyInv, NextReplyInv, <1>1, PTL DEF Spec

-----------------------------------------------------------------------------
(* The map of the calls that wait *)

EntryInv == ReplyInv /\ EntriesMatchCalls

\* A call in progress without a reply.
Waits(o) == kind[o] = "call" /\ pc[o] \notin {"idle", "done"} /\ answer[o] = None
HasRival(o) == \E q \in Op : Apart(o, q) \/ Apart(q, o)

\* Two calls of a client that share a number are rivals.
LEMMA Rivals ==
  ASSUME ReplyInv, NEW o \in Op, NEW q \in Op, o # q, Begun(o), Begun(q),
         caller[o] = caller[q], id[o] = id[q]
  PROVE  HasRival(o)
<1>1. order[o] \in Nat /\ order[q] \in Nat /\ order[o] # order[q]
  BY DEF ReplyInv, RpcInv, TypeOK, Numbered
<1>2. CASE order[o] < order[q]
  BY <1>2 DEF ReplyInv, SameIdApart, HasRival, Apart
<1>3. CASE order[q] < order[o]
  BY <1>3 DEF ReplyInv, SameIdApart, HasRival, Apart
<1> QED BY <1>1, <1>2, <1>3

\* A step that gives no number keeps the map in order if it only takes
\* entries off, lets no call with an entry end silently, and takes off the
\* entry of a call that waits only for a rival of it.
LEMMA KeepEntries ==
  ASSUME EntryInv, UNCHANGED <<id, order>>,
         \A p \in Peer, n \in Ids : calls'[p][n] # None =>
           LET o == calls[p][n] IN
           /\ calls'[p][n] = o /\ answer'[o] = None
           /\ pc'[o] = "done" => \/ pc[o] = "done" /\ result'[o] = result[o]
                                 \/ result'[o] = "cancelled"
                                 \/ p \in Sync /\ result'[o] = "error",
         \A o \in Op : Waits(o)' => /\ Waits(o)
                                    /\ \/ calls'[caller[o]][id[o]] = calls[caller[o]][id[o]]
                                       \/ calls[caller[o]][id[o]] # o
                                       \/ HasRival(o)
  PROVE  EntriesMatchCalls'
<1>1. ASSUME NEW p \in Peer, NEW n \in Ids, calls'[p][n] # None
      PROVE  LET o == calls'[p][n] IN
             /\ caller[o] = p /\ id'[o] = n /\ answer'[o] = None
             /\ pc'[o] = "done" => result'[o] = "cancelled" \/ (p \in Sync /\ result'[o] = "error")
  BY <1>1 DEF EntryInv, EntriesMatchCalls
<1>2. ASSUME NEW o \in Op, Waits(o)'
      PROVE  calls'[caller[o]][id'[o]] = o \/ HasRival(o)'
  <2>1. HasRival(o) => HasRival(o)'
    BY DEF HasRival, Apart
  <2>2. Waits(o)
    BY <1>2
  <2>3. calls[caller[o]][id[o]] = o \/ HasRival(o)
    BY <2>2 DEF EntryInv, EntriesMatchCalls, Waits, HasRival
  <2> QED BY <1>2, <2>1, <2>3
<1>3. ASSUME NEW o \in Op, kind[o] = "call" /\ pc'[o] \notin {"idle", "done"}, answer'[o] = None
      PROVE  calls'[caller[o]][id'[o]] = o \/ \E q \in Op : Apart(o, q)' \/ Apart(q, o)'
  BY <1>2, <1>3 DEF Waits, HasRival
<1> QED BY <1>1, <1>3 DEF EntriesMatchCalls, Apart

LEMMA BeginCallEntries ==
  ASSUME EntryInv, NEW o \in Op, BeginCall(o)
  PROVE  EntriesMatchCalls'
<1> DEFINE p == caller[o]  n == NextId(call_id[p])
<1>0. ReplyInv'
  BY NextReplyInv DEF EntryInv, Next
<1>1. /\ p \in Peer /\ n \in Ids /\ calls \in [Peer -> [Ids -> Op \cup {None}]]
      /\ \A q \in Op : caller[q] \in Peer
  <2>1. p \in Peer /\ call_id[p] \in 0..MaxId /\ calls \in [Peer -> [Ids -> Op \cup {None}]]
    BY OpAssumption DEF EntryInv, ReplyInv, RpcInv, TypeOK
  <2> QED BY <2>1, NextIdType, OpAssumption
<1>2. /\ ~Begun(o) /\ kind[o] = "call" /\ pc'[o] = "lock" /\ id'[o] = n /\ order'[o] # 0
      /\ \A q \in Op : q # o => pc'[q] = pc[q] /\ id'[q] = id[q] /\ order'[q] = order[q]
      /\ UNCHANGED <<answer, result>>
  <2>1. begun[p] \in Nat
    BY <1>1 DEF EntryInv, ReplyInv, RpcInv, TypeOK
  <2> QED BY <1>1, <2>1 DEF EntryInv, ReplyInv, RpcInv, TypeOK, BeginCall, MayBegin, Goto, Numbered
<1>3. \A r \in Peer, m \in Ids : calls'[r][m] = IF r = p /\ m = n THEN o ELSE calls[r][m]
  BY <1>1 DEF BeginCall
<1>4. answer[o] = None
  BY <1>2 DEF EntryInv, ReplyInv, Answered
<1>late. \A q \in Op : caller[q] = p => order[q] < order'[o]
  <2>1. \A q \in Op : order[q] \in Nat /\ order[q] <= begun[caller[q]]
    BY DEF EntryInv, ReplyInv, RpcInv, TypeOK, Numbered
  <2>2. begun[p] \in Nat /\ order'[o] = begun[p] + 1
    BY <1>1 DEF EntryInv, ReplyInv, RpcInv, TypeOK, BeginCall
  <2> QED BY <2>1, <2>2
<1>5. ASSUME NEW r \in Peer, NEW m \in Ids, calls'[r][m] # None
      PROVE  LET q == calls'[r][m] IN
             /\ caller[q] = r /\ id'[q] = m /\ answer'[q] = None
             /\ pc'[q] = "done" => result'[q] = "cancelled" \/ (r \in Sync /\ result'[q] = "error")
  <2>1. CASE r = p /\ m = n
    BY <1>2, <1>3, <1>4, <2>1
  <2>2. CASE ~(r = p /\ m = n)
    <3>1. calls'[r][m] = calls[r][m] /\ calls[r][m] \in Op
      BY <1>1, <1>3, <1>5, <2>2
    <3>2. calls[r][m] # o
      BY <1>2, <1>5, <3>1 DEF EntryInv, ReplyInv, LatestEntry
    <3> QED BY <1>2, <1>5, <3>1, <3>2 DEF EntryInv, EntriesMatchCalls
  <2> QED BY <2>1, <2>2
<1>6. ASSUME NEW q \in Op, kind[q] = "call" /\ pc'[q] \notin {"idle", "done"}, answer'[q] = None
      PROVE  calls'[caller[q]][id'[q]] = q \/ \E r \in Op : Apart(q, r)' \/ Apart(r, q)'
  <2>1. CASE q = o
    BY <1>1, <1>2, <1>3, <2>1
  <2>2. CASE q # o
    <3>1. Begun(q) /\ id[q] \in Ids /\ pc[q] \notin {"idle", "done"} /\ answer[q] = None
      BY <1>2, <1>6, <2>2 DEF EntryInv, ReplyInv, RpcInv, Numbered
    <3>2. CASE caller[q] = p /\ id[q] = n
      <4>1. Apart(q, o)'
        <5>1. order'[q] < order'[o]
          BY <1>2, <1>late, <2>2, <3>2
        <5>2. /\ order'[q] # 0 /\ order'[o] # 0 /\ id'[q] = id'[o]
          BY <1>2, <2>2, <3>1, <3>2 DEF Begun
        <5> QED BY <1>0, <3>2, <5>1, <5>2 DEF ReplyInv, SameIdApart, Begun, Apart
      <4> QED BY <4>1
    <3>3. CASE ~(caller[q] = p /\ id[q] = n)
      <4>1. CASE calls[caller[q]][id[q]] = q
        BY <1>1, <1>2, <1>3, <2>2, <3>1, <3>3, <4>1
      <4>2. CASE calls[caller[q]][id[q]] # q
        <5>1. PICK r \in Op : Apart(q, r) \/ Apart(r, q)
          BY <1>6, <3>1, <4>2 DEF EntryInv, EntriesMatchCalls
        <5>2. r # o
          BY <1>2, <3>1, <5>1, IdAssumption DEF Apart, Begun, EntryInv, ReplyInv, RpcInv, Numbered, Ids
        <5> QED BY <1>2, <2>2, <5>1, <5>2 DEF Apart
      <4> QED BY <4>1, <4>2
    <3> QED BY <3>2, <3>3
  <2> QED BY <2>1, <2>2
<1> QED BY <1>5, <1>6 DEF EntriesMatchCalls, Apart

\* Steps that end or give up an operation, with its entry.
LEMMA GiveUpEntries ==
  ASSUME EntryInv, NEW o \in Op, SendFail(o) \/ Refused(o) \/ LoseReply(o) \/ Timeout(o)
  PROVE  EntriesMatchCalls'
<1> DEFINE p == caller[o]
<1>1. /\ UNCHANGED <<id, order, answer>> /\ p \in Peer /\ \A q \in Op : caller[q] \in Peer
      /\ TypeOK
  BY OpAssumption DEF SendFail, Refused, LoseReply, Timeout, EntryInv, ReplyInv, RpcInv
<1>2. /\ pc[o] \notin {"idle", "done"} /\ pc'[o] = "done" /\ \A q \in Op : q # o => pc'[q] = pc[q]
      /\ \A q \in Op : q # o => result'[q] = result[q]
  BY <1>1 DEF SendFail, Refused, LoseReply, Timeout, Finish, TypeOK
<1>3. UNCHANGED calls \/ (calls' = Forget(p, id[o]) /\ kind[o] = "call")
  BY DEF SendFail, Refused, LoseReply, Timeout, EntryInv, ReplyInv, RpcInv, Handled
<1>4. \/ /\ kind[o] = "call" /\ calls' = Forget(p, id[o])
      \/ kind[o] # "call"
      \/ p \in Sync /\ result'[o] = "error"
      \/ calls[p][id[o]] # o
  BY <1>1 DEF SendFail, Refused, LoseReply, Timeout, Finish, TypeOK
<1>5. \A q \in Peer, m \in Ids :
        calls'[q][m] # None => calls'[q][m] = calls[q][m] /\ calls[q][m] \in Op
  <2>1. CASE UNCHANGED calls
    BY <1>1, <2>1 DEF TypeOK
  <2>2. CASE calls' = Forget(p, id[o])
    <3>1. \A q \in Peer, m \in Ids : calls[q][m] \in Op \cup {None}
      BY <1>1 DEF TypeOK
    <3> QED BY <1>1, <2>2, <3>1, ForgetFacts
  <2> QED BY <1>3, <2>1, <2>2
<1>6. ASSUME NEW q \in Peer, NEW m \in Ids, calls'[q][m] # None
      PROVE  LET e == calls[q][m] IN
             /\ calls'[q][m] = e /\ answer'[e] = None
             /\ pc'[e] = "done" => \/ pc[e] = "done" /\ result'[e] = result[e]
                                   \/ result'[e] = "cancelled"
                                   \/ q \in Sync /\ result'[e] = "error"
  <2> DEFINE e == calls[q][m]
  <2>1. /\ calls'[q][m] = e /\ e \in Op /\ e # None /\ answer[e] = None /\ caller[e] = q /\ id[e] = m
        /\ kind[e] = "call"
    BY <1>5, <1>6 DEF EntryInv, EntriesMatchCalls, ReplyInv, RpcInv, LatestEntry, Numbered
  <2>2. CASE e # o
    BY <1>1, <1>2, <2>1, <2>2
  <2>3. CASE e = o
    <3>1. calls' # Forget(p, id[o])
      BY <1>1, <1>6, <2>1, <2>3, ForgetFacts
    <3>2. p \in Sync /\ result'[o] = "error"
      BY <1>4, <2>1, <2>3, <3>1
    <3> QED BY <1>1, <2>1, <2>3, <3>2
  <2> QED BY <2>2, <2>3
<1>7. ASSUME NEW q \in Op, Waits(q)'
      PROVE  /\ Waits(q)
             /\ \/ calls'[caller[q]][id[q]] = calls[caller[q]][id[q]]
                \/ calls[caller[q]][id[q]] # q
                \/ HasRival(q)
  <2>1. q # o /\ Waits(q)
    BY <1>1, <1>2, <1>7 DEF Waits
  <2>2. Begun(q) /\ id[q] \in Ids
    BY <2>1 DEF EntryInv, ReplyInv, RpcInv, Numbered, Waits
  <2>3. CASE UNCHANGED calls
    BY <2>1, <2>3
  <2>4. CASE calls' = Forget(p, id[o]) /\ kind[o] = "call"
    <3>1. Begun(o)
      BY <1>2, <2>4 DEF EntryInv, ReplyInv, RpcInv, Numbered
    <3>2. CASE caller[q] = p /\ id[q] = id[o]
      BY <2>1, <2>2, <3>1, <3>2, Rivals DEF EntryInv
    <3>3. CASE ~(caller[q] = p /\ id[q] = id[o])
      BY <1>1, <2>1, <2>2, <2>4, <3>3, ForgetFacts
    <3> QED BY <3>2, <3>3
  <2> QED BY <1>3, <2>3, <2>4
<1> QED BY <1>1, <1>6, <1>7, KeepEntries

\* Steps of an operation that leave the map alone.
LEMMA GoOnEntries ==
  ASSUME EntryInv, NEW o \in Op,
         BeginOneWay(o) \/ Lock(o) \/ Send(o) \/ Confirmed(o) \/ GetReply(o) \/ Cancel(o)
  PROVE  EntriesMatchCalls'
<1>1. UNCHANGED <<id, order, answer, calls>> /\ TypeOK
  BY DEF BeginOneWay, Lock, Send, Confirmed, GetReply, Cancel, peerVars, EntryInv, ReplyInv, RpcInv
<1>2. /\ pc[o] # "done" /\ \A q \in Op : q # o => pc'[q] = pc[q] /\ result'[q] = result[q]
      /\ kind[o] = "call" => pc[o] # "idle"
  <2>1. \E l : pc' = [pc EXCEPT ![o] = l]
    BY DEF BeginOneWay, Lock, Send, Confirmed, GetReply, Cancel, Finish, Goto
  <2>2. result' = result \/ \E h : result' = [result EXCEPT ![o] = h]
    BY DEF BeginOneWay, Lock, Send, Confirmed, GetReply, Cancel, Finish, Goto
  <2>3. pc[o] # "done" /\ (kind[o] = "call" => pc[o] # "idle")
    BY DEF BeginOneWay, MayBegin, Lock, Send, Confirmed, GetReply, Cancel
  <2> QED BY <1>1, <2>1, <2>2, <2>3 DEF TypeOK
<1>3. pc'[o] = "done" => kind[o] # "call" \/ answer[o] # None \/ result'[o] = "cancelled"
  BY <1>1 DEF BeginOneWay, Lock, Send, Confirmed, GetReply, Cancel, Finish, Goto, TypeOK
<1>4. ASSUME NEW q \in Peer, NEW m \in Ids, calls'[q][m] # None
      PROVE  LET e == calls[q][m] IN
             /\ calls'[q][m] = e /\ answer'[e] = None
             /\ pc'[e] = "done" => \/ pc[e] = "done" /\ result'[e] = result[e]
                                   \/ result'[e] = "cancelled"
                                   \/ q \in Sync /\ result'[e] = "error"
  <2> DEFINE e == calls[q][m]
  <2>1. calls'[q][m] = e /\ e \in Op /\ answer[e] = None /\ kind[e] = "call"
    BY <1>1, <1>4 DEF TypeOK, EntryInv, EntriesMatchCalls, ReplyInv, RpcInv, LatestEntry, Numbered
  <2>2. CASE e # o
    BY <1>1, <1>2, <2>1, <2>2
  <2>3. CASE e = o
    BY <1>1, <1>3, <2>1, <2>3
  <2> QED BY <2>2, <2>3
<1>5. ASSUME NEW q \in Op, Waits(q)'
      PROVE  Waits(q) /\ calls'[caller[q]][id[q]] = calls[caller[q]][id[q]]
  BY <1>1, <1>2, <1>5 DEF Waits
<1> QED BY <1>1, <1>4, <1>5, KeepEntries

LEMMA TakeReplyEntries ==
  ASSUME EntryInv, NEW p \in Peer, TakeReply(p)
  PROVE  EntriesMatchCalls'
<1> DEFINE f == Head(inbox[p])  o == calls[p][f.id]
<1>1. UNCHANGED <<id, order, pc, result>> /\ TypeOK
  BY DEF TakeReply, EntryInv, ReplyInv, RpcInv
<1>2. f \in Frame /\ f \in Elems(inbox[p]) /\ f.kind = "reply"
  BY <1>1, TakenFacts DEF TakeReply
<1>3. f.of \in Op /\ Begun(f.of) /\ f.id = id[f.of]
  BY <1>2 DEF Frame, EntryInv, ReplyInv, RpcInv, Traced, Genuine
<1>4. f.id \in Ids /\ o \in Op \cup {None} /\ f.of # None
  <2>1. f.id \in Ids
    BY <1>3 DEF EntryInv, ReplyInv, RpcInv, Numbered
  <2>2. o \in Op \cup {None}
    BY <1>1, <2>1 DEF TypeOK
  <2> QED BY <1>3, <2>1, <2>2, OpAssumption
<1>5. \A q \in Peer, m \in Ids :
        calls'[q][m] = IF q = p /\ m = f.id THEN None ELSE calls[q][m]
  BY <1>1, ForgetFacts DEF TakeReply
<1>6. /\ \A q \in Op : q # o => answer'[q] = answer[q]
      /\ o # None /\ pc[o] # "done" => answer'[o] = f.of
  BY <1>1, <1>4 DEF TakeReply, TypeOK
<1>7. ASSUME NEW q \in Peer, NEW m \in Ids, calls'[q][m] # None
      PROVE  LET e == calls[q][m] IN
             /\ calls'[q][m] = e /\ answer'[e] = None
             /\ pc'[e] = "done" => \/ pc[e] = "done" /\ result'[e] = result[e]
                                   \/ result'[e] = "cancelled"
                                   \/ q \in Sync /\ result'[e] = "error"
  <2> DEFINE e == calls[q][m]
  <2>1. calls'[q][m] = e /\ e # None /\ e \in Op /\ ~(q = p /\ m = f.id)
    BY <1>1, <1>5, <1>7 DEF TypeOK
  <2>2. answer[e] = None /\ caller[e] = q /\ id[e] = m
    BY <2>1 DEF EntryInv, EntriesMatchCalls
  <2>3. e # o
    BY <1>4, <2>1, <2>2 DEF EntryInv, EntriesMatchCalls
  <2> QED BY <1>1, <1>6, <2>1, <2>2, <2>3
<1>8. ASSUME NEW q \in Op, Waits(q)'
      PROVE  /\ Waits(q)
             /\ \/ calls'[caller[q]][id[q]] = calls[caller[q]][id[q]]
                \/ calls[caller[q]][id[q]] # q
  <2>1. caller[q] \in Peer /\ kind[q] = "call" /\ pc[q] \notin {"idle", "done"} /\ answer'[q] = None
    BY <1>1, <1>8, OpAssumption DEF Waits
  <2>2. q # o
    BY <1>3, <1>4, <1>6, <2>1, OpAssumption
  <2>3. Waits(q)
    BY <1>6, <2>1, <2>2 DEF Waits
  <2>4. id[q] \in Ids
    BY <2>1 DEF EntryInv, ReplyInv, RpcInv, Numbered
  <2> QED BY <1>5, <2>1, <2>2, <2>3, <2>4
<1> QED BY <1>1, <1>7, <1>8, KeepEntries

LEMMA RestartEntries ==
  ASSUME EntryInv, NEW p \in Peer, Restart(p)
  PROVE  EntriesMatchCalls'
<1> DEFINE gone == {o \in Op : caller[o] = p /\ pc[o] \notin {"idle", "done"}}
<1>1. UNCHANGED <<id, order, answer>> /\ TypeOK
  BY DEF Restart, EntryInv, ReplyInv, RpcInv
<1>2. /\ \A o \in Op : pc'[o] = IF o \in gone THEN "done" ELSE pc[o]
      /\ \A o \in Op : result'[o] = IF o \in gone THEN "cancelled" ELSE result[o]
  BY DEF Restart
<1>3. \A q \in Peer, m \in Ids : calls'[q][m] = IF q = p THEN None ELSE calls[q][m]
  BY <1>1 DEF Restart, TypeOK
<1>4. ASSUME NEW q \in Peer, NEW m \in Ids, calls'[q][m] # None
      PROVE  LET e == calls[q][m] IN
             /\ calls'[q][m] = e /\ answer'[e] = None
             /\ pc'[e] = "done" => \/ pc[e] = "done" /\ result'[e] = result[e]
                                   \/ result'[e] = "cancelled"
                                   \/ q \in Sync /\ result'[e] = "error"
  <2> DEFINE e == calls[q][m]
  <2>1. calls'[q][m] = e /\ e \in Op /\ e # None
    BY <1>1, <1>3, <1>4 DEF TypeOK
  <2>2. answer[e] = None
    BY <2>1 DEF EntryInv, EntriesMatchCalls
  <2> QED BY <1>1, <1>2, <2>1, <2>2
<1>5. ASSUME NEW q \in Op, Waits(q)'
      PROVE  Waits(q) /\ calls'[caller[q]][id[q]] = calls[caller[q]][id[q]]
  <2>1. caller[q] \in Peer /\ kind[q] = "call" /\ pc'[q] \notin {"idle", "done"} /\ answer[q] = None
    BY <1>1, <1>5, OpAssumption DEF Waits
  <2>2. pc'[q] = pc[q] /\ caller[q] # p
    BY <1>2, <2>1
  <2>3. Waits(q) /\ id[q] \in Ids
    BY <2>1, <2>2 DEF Waits, EntryInv, ReplyInv, RpcInv, Numbered
  <2> QED BY <1>3, <2>1, <2>2, <2>3
<1> QED BY <1>1, <1>4, <1>5, KeepEntries

LEMMA NextEntryInv == EntryInv /\ [Next]_vars => EntryInv'
<1> SUFFICES ASSUME EntryInv, [Next]_vars PROVE EntryInv'
  OBVIOUS
<1>1. ReplyInv'
  BY NextReplyInv DEF EntryInv
<1>2. CASE UNCHANGED <<calls, id, order, answer, pc, result>>
  BY <1>1, <1>2 DEF EntryInv, EntriesMatchCalls, Apart
<1>3. CASE UNCHANGED vars
  BY <1>2, <1>3 DEF vars
<1>4. CASE \E o \in Op : HandlerEnd(o) \/ ReplyLock(o) \/ ReplySend(o)
  BY <1>2, <1>4 DEF HandlerEnd, ReplyLock, ReplySend, callVars, peerVars
<1>5. CASE \E p \in Peer : TakeNotify(p) \/ TakeRequest(p) \/ Route(p) \/ Break(p)
  BY <1>2, <1>5 DEF TakeNotify, TakeRequest, Route, Break, callVars, peerVars
<1>6. CASE \E o \in Op :
        \/ BeginCall(o) \/ SendFail(o) \/ Refused(o) \/ LoseReply(o) \/ Timeout(o)
        \/ BeginOneWay(o) \/ Lock(o) \/ Send(o) \/ Confirmed(o) \/ GetReply(o) \/ Cancel(o)
  BY <1>1, <1>6, BeginCallEntries, GiveUpEntries, GoOnEntries DEF EntryInv
<1>7. CASE \E p \in Peer : TakeReply(p) \/ Restart(p)
  BY <1>1, <1>7, TakeReplyEntries, RestartEntries DEF EntryInv
<1> QED BY <1>3, <1>4, <1>5, <1>6, <1>7 DEF Next, Step

\* The map of an RPC client holds exactly the calls that wait, in every
\* interleaving of calls, replies, refusals, timeouts, dropped futures, lost
\* connections and restarts, with the three exceptions the code makes (calls,
\* unwrap_or_cancel!, the ? of the synchronous client).
THEOREM MapHoldsWaitingCalls == Spec => []EntriesMatchCalls
<1>1. Init => EntryInv
  <2> SUFFICES ASSUME Init PROVE EntryInv
    OBVIOUS
  <2>1. EntriesMatchCalls
    BY DEF Init, EntriesMatchCalls
  <2> QED BY <2>1, InitReplyInv DEF EntryInv
<1>2. EntryInv => EntriesMatchCalls
  BY DEF EntryInv
<1> QED BY <1>1, <1>2, NextEntryInv, PTL DEF Spec
=============================================================================
