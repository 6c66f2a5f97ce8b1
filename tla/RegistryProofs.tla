--------------------------- MODULE RegistryProofs ---------------------------
(***************************************************************************)
(* Theorems about Registry and RegistryView, for any number of clients and *)
(* names; those that need one worker, or no Client::unregister, say so.    *)
(***************************************************************************)
EXTENDS RegistryView, FiniteSetTheorems, TLAPS

USE InstAssumption, NameAssumption, KindAssumption

-----------------------------------------------------------------------------
(* Type correctness.                                                       *)

\* A subscription changes one topic of one name, and to a client.
LEMMA SubscribeInType ==
  ASSUME NEW f \in [Topics -> Inst \cup {None}], NEW x, NEW i \in Inst
  PROVE  SubscribeIn(f, x, i) \in [Topics -> Inst \cup {None}]
BY DEF SubscribeIn

\* The outermost call of drop_client returns out of drop_client.
LEMMA AfterDropOut ==
  ASSUME NEW t \in Inst
  PROVE  AfterDrop(t) \in {"f_trig", "done", "ann_unreg", "u_end"}
<1>1. CASE cont[t] = "force" BY <1>1 DEF AfterDrop
<1>2. CASE cont[t] = "drop" BY <1>2 DEF AfterDrop
<1>3. CASE cont[t] # "force" /\ cont[t] # "drop" BY <1>3 DEF AfterDrop
<1> QED BY <1>1, <1>2, <1>3

\* The return of drop_client keeps the types of what it sets.
LEMMA DropReturnType ==
  ASSUME TypeOK, NEW t \in Inst, DropReturn(t)
  PROVE  /\ pc' \in [Inst -> PcValues]
         /\ cur' \in [Inst -> Inst]
         /\ parent' \in [Inst -> Inst \cup {None}]
<1>1. "d_loop" \in PcValues BY DEF PcValues, Section, DropPc
<1>2. CASE parent[t] = None
  <2>1. pc' = [pc EXCEPT ![t] = AfterDrop(t)] /\ cur' = cur /\ parent' = parent
    BY <1>2 DEF DropReturn, Goto
  <2>2. AfterDrop(t) \in PcValues BY AfterDropOut DEF PcValues, Section, Waiting, Ended
  <2> QED BY <2>1, <2>2 DEF TypeOK
<1>3. CASE parent[t] # None
  <2>1. /\ pc' = [pc EXCEPT ![t] = "d_loop"]
        /\ cur' = [cur EXCEPT ![t] = parent[t]]
        /\ parent' = [parent EXCEPT ![t] = None]
    BY <1>3 DEF DropReturn, Goto
  <2> QED BY <1>1, <1>3, <2>1 DEF TypeOK
<1> QED BY <1>2, <1>3

\* Every step of register_client keeps the types.
LEMMA InsertType == ASSUME TypeOK, NEW t \in Inst, Insert(t) PROVE TypeOK'
<1> USE DEF TypeOK, Goto, dbVars, lockVars, instVars, otherVars, PcValues,
            Section, Waiting, Ended, InsertLocked, DropPc
<1>1. CASE InsertNoPrimary(t) BY <1>1 DEF InsertNoPrimary
<1>2. CASE InsertBusy(t) BY <1>2 DEF InsertBusy
<1>3. CASE InsertLock(t) BY <1>3 DEF InsertLock
<1>4. CASE InsertSecondary(t)
  <2> DEFINE p == clients[primary_name[t]]
  <2>1. secondaries' = [secondaries EXCEPT ![p] = @ \cup {name[t]}]
    BY <1>4 DEF InsertSecondary
  <2>2. p \in Inst => secondaries[p] \cup {name[t]} \in SUBSET Name
    OBVIOUS
  <2>3. secondaries' \in [Inst -> SUBSET Name]
    <3>0. secondaries \in [Inst -> SUBSET Name] OBVIOUS
    <3> HIDE DEF p, TypeOK
    <3>1. CASE p \in Inst BY <2>1, <2>2, <3>0, <3>1
    <3>2. CASE p \notin Inst
      <4>1. secondaries' = secondaries BY <2>1, <3>0, <3>2
      <4> QED BY <3>0, <4>1
    <3> QED BY <3>1, <3>2
  <2> QED BY <1>4, <2>3 DEF InsertSecondary
<1>5. CASE InsertBroadcast(t) BY <1>5 DEF InsertBroadcast, BroadcastRegister
<1>6. CASE InsertSubscriptions(t)
  <2>1. subs' \in [Name -> [Topics -> Inst \cup {None}]]
    BY <1>6, SubscribeInType DEF InsertSubscriptions
  <2> QED BY <1>6, <2>1 DEF InsertSubscriptions
<1>7. CASE InsertEnd(t) BY <1>7 DEF InsertEnd, AfterRegister
<1>8. CASE AnnounceReg(t) BY <1>8 DEF AnnounceReg, AnnounceUnlock, AfterRegister
<1>9. CASE ForceRemove(t) BY <1>9 DEF ForceRemove
<1>11. CASE ForceVacant(t) BY <1>11 DEF ForceVacant
<1>10. CASE ForceTrigger(t) BY <1>10 DEF ForceTrigger, Forget
<1> QED BY <1>1, <1>2, <1>3, <1>4, <1>5, <1>6, <1>7, <1>8, <1>9, <1>10, <1>11 DEF Insert

\* Every step of drop_client and unregister_client keeps the types.
LEMMA DropType == ASSUME TypeOK, NEW t \in Inst, Drop(t) PROVE TypeOK'
<1> USE DEF TypeOK, Goto, dbVars, lockVars, instVars, otherVars, PcValues,
            Section, Waiting, Ended, InsertLocked, DropPc
<1>1. CASE DropLoad(t) BY <1>1 DEF DropLoad
<1>13. CASE DropNotRegistered(t) BY <1>13, DropReturnType DEF DropNotRegistered
<1>2. CASE DropStore(t) BY <1>2 DEF DropStore
<1>3. CASE DropSubscriptions(t) BY <1>3 DEF DropSubscriptions, SubUnregister
<1>4. CASE DropBroadcast(t) BY <1>4 DEF DropBroadcast, BroadcastUnregister
<1>5. CASE DropClients(t) BY <1>5 DEF DropClients
<1>6. CASE DropLockSecondaries(t) BY <1>6 DEF DropLockSecondaries
<1>7. CASE DropNextSecondary(t)
  <2>1. PICK n \in todo[t] : DropNextSecondary(t)!(n)
    BY <1>7 DEF DropNextSecondary
  <2>2. clients[n] \in Inst BY <2>1
  <2>3. triggered' \in [Inst -> BOOLEAN] BY <2>1, <2>2
  <2> QED BY <2>1, <2>2, <2>3
<1>14. CASE DropMissingSecondary(t) BY <1>14 DEF DropMissingSecondary
<1>8. CASE DropSecondariesEnd(t)
  BY <1>8, DropReturnType DEF DropSecondariesEnd
<1>9. CASE DropUnlinkLock(t) BY <1>9 DEF DropUnlinkLock
<1>15. CASE DropNoPrimary(t) BY <1>15, DropReturnType DEF DropNoPrimary
<1>10. CASE DropUnlink(t)
  BY <1>10, DropReturnType DEF DropUnlink
<1>11. CASE AnnounceUnreg(t) BY <1>11 DEF AnnounceUnreg, AnnounceUnlock
<1>12. CASE UnregisterEnd(t) BY <1>12 DEF UnregisterEnd, Forget
<1> QED BY <1>1, <1>2, <1>3, <1>4, <1>5, <1>6, <1>7, <1>8, <1>9, <1>10, <1>11, <1>12,
       <1>13, <1>14, <1>15 DEF Drop

\* What a publication, a message or a broadcast finds is a client.
LEMMA ReachType ==
  ASSUME TypeOK, NEW t, NEW n \in Name
  PROVE  Reach(t, n) \subseteq Inst \cup {None}
<1>1. \A x \in Topics : subs[n][x] \in Inst \cup {None} BY DEF TypeOK
<1>2. Topic \cap {InfoTopic} \subseteq Topics BY DEF Topics
<1>3. clients[n] \in Inst \cup {None} /\ broadcasts[n] \in Inst \cup {None} BY DEF TypeOK
<1>4. {subs[n][x] : x \in Topic \cap {InfoTopic}} \subseteq Inst \cup {None} BY <1>1, <1>2
<1>5. Targets(n) \subseteq Inst \cup {None} BY <1>1, <1>3 DEF Targets
<1> QED BY <1>4, <1>5 DEF Reach

\* Every step of an owner, of force_disconnect and of client_list does.
LEMMA OwnerType == ASSUME TypeOK, NEW t \in Inst, Owner(t) PROVE TypeOK'
<1> USE DEF TypeOK, Goto, dbVars, lockVars, instVars, otherVars, taskVars, PcValues,
            Section, Waiting, Ended, InsertLocked, DropPc
<1>1. CASE RespondOk(t) BY <1>1 DEF RespondOk
<1>2. CASE RespondFail(t) BY <1>2 DEF RespondFail
<1>3. CASE Disconnect(t) BY <1>3 DEF Disconnect, CallUnregister
<1>4. CASE BrokerUnregister(t) BY <1>4 DEF BrokerUnregister, CallUnregister
<1>5. CASE ClientUnregister(t) BY <1>5 DEF ClientUnregister
<1>6. CASE ClientDrop(t) BY <1>6 DEF ClientDrop
<1>7. ASSUME NEW x \in Topic, Subscribe(t, x) PROVE TypeOK'
  <2>1. subs' \in [Name -> [Topics -> Inst \cup {None}]]
    BY <1>7, SubscribeInType DEF Subscribe
  <2> QED BY <1>7, <2>1 DEF Subscribe
<1>8. ASSUME NEW x \in Topic, Unsubscribe(t, x) PROVE TypeOK'
  BY <1>8 DEF Unsubscribe, Topics
<1>9. CASE Lookup(t)
  BY <1>9, ReachType DEF Lookup
<1>10. CASE SendEnd(t) /\ pc[t] = "sending" BY <1>10 DEF SendEnd, Forget
<1>11. CASE Evict(t) BY <1>11 DEF Evict, CallUnregister
<1>12. CASE SendEnd(t) /\ PublishDropped(t) BY <1>12 DEF SendEnd, PublishDropped, Forget
<1> QED BY <1>1, <1>2, <1>3, <1>4, <1>5, <1>6, <1>7, <1>8, <1>9, <1>10, <1>11, <1>12 DEF Owner, SendEnd

LEMMA NextType == TypeOK /\ [Next]_vars => TypeOK'
<1> SUFFICES ASSUME TypeOK, [Next]_vars PROVE TypeOK'
  OBVIOUS
<1> USE DEF TypeOK, dbVars, lockVars, instVars, otherVars, taskVars
<1>1. ASSUME NEW t \in Inst, Insert(t) PROVE TypeOK' BY <1>1, InsertType
<1>2. ASSUME NEW t \in Inst, Drop(t) PROVE TypeOK' BY <1>2, DropType
<1>3. ASSUME NEW t \in Inst, Owner(t) PROVE TypeOK' BY <1>3, OwnerType
<1>4. ASSUME NEW n \in Kicked, ForceDisconnect(n) PROVE TypeOK'
  BY <1>4 DEF ForceDisconnect
<1>5. CASE List BY <1>5 DEF List, ListLock, ListCount, ListEnd
<1>6. CASE UNCHANGED vars BY <1>6 DEF vars
<1>7. ASSUME NEW t \in Inst, AnnounceLock(t) PROVE TypeOK' BY <1>7 DEF AnnounceLock
<1> QED BY <1>1, <1>2, <1>3, <1>4, <1>5, <1>6, <1>7 DEF Next, Terminated

LEMMA InitType == Init => TypeOK
BY DEF Init, TypeOK, PcValues, Waiting

\* The registry, the locks and the locals of every task always have their type.
THEOREM TypeCorrect == Spec => []TypeOK
BY InitType, NextType, PTL DEF Spec

-----------------------------------------------------------------------------
(* The order of the locks.  drop_client holds the secondaries of a primary *)
(* p while it takes the mutex of clients; the others take them the other   *)
(* way round, for a listed primary.  There is no deadlock because p is not *)
(* listed any more: DropClients comes first, and p is listed once only, by *)
(* InsertEnd, before which nobody drops it.  The invariant says which      *)
(* clients may be listed or dropped (Born), and who holds which lock.      *)

\* The owner has passed InsertEnd, or has given up.
Born(i) ==
  /\ pc[i] \notin InsertLocked \cup {"new", "ins_retry", "f_remove", "f_trig"}
  /\ pc[i] \in DropPc => cont[i] # "force"

SecondaryName == {name[s] : s \in {s \in Inst : ~Primary(s)}}
PastLoad == DropPc \ {"d_load"}
Unlisted == {"d_sec", "d_loop", "d_unlink_lock", "d_unlink"}
Locked == InsertLocked \cup {"d_unlink"}

\* Only clients that were inserted are listed, flagged, and really dropped.
BornInv ==
  /\ \A n \in Name : clients[n] # None => Born(clients[n]) /\ name[clients[n]] = n
  /\ \A i \in Inst : registered[i] => Born(i)
  /\ \A t \in Inst : pc[t] \in PastLoad => Born(cur[t])
  /\ \A t \in Inst : parent[t] # None => Born(parent[t])

\* A client that is being dropped is not listed once it was removed.
UnlistedInv ==
  /\ \A t \in Inst : pc[t] \in Unlisted => clients[name[cur[t]]] # cur[t]
  /\ \A t \in Inst : parent[t] # None => clients[name[parent[t]]] # parent[t]

\* The recursion of drop_client goes from a primary to its secondaries.
NestInv ==
  /\ \A i \in Inst : secondaries[i] \subseteq SecondaryName
  /\ \A t \in Inst : todo[t] \subseteq SecondaryName
  /\ \A t \in Inst : pc[t] = "ins_sec" => ~Primary(t)
  /\ \A t \in Inst : pc[t] \in {"d_sec", "d_loop"} => Primary(cur[t])
  /\ \A t \in Inst : parent[t] # None =>
       pc[t] \in DropPc /\ Primary(parent[t]) /\ ~Primary(cur[t])

\* Whoever holds the secondaries of a primary drops that primary.
HeldInv ==
  \A p \in Inst : \A t \in Inst : secLock[p] = t =>
    (pc[t] = "d_loop" /\ cur[t] = p) \/ parent[t] = p

\* Whoever holds the mutex of clients, and what it found there.
ClientsInv ==
  /\ \A t \in Inst : pc[t] \in Locked <=> clientsLock = t
  /\ listing # {} => clientsLock = Lister
  /\ \A t \in Inst : pc[t] = "ins_sec" => clients[primary_name[t]] # None
  /\ \A t \in Inst : pc[t] = "d_unlink" => clients[primary_name[cur[t]]] # None
  /\ \A i \in listing : clients[name[i]] = i

LockInv == BornInv /\ UnlistedInv /\ NestInv /\ HeldInv /\ ClientsInv

LEMMA InsertBorn ==
  ASSUME TypeOK, NEW t \in Inst, Insert(t), NEW i \in Inst, Born(i)
  PROVE  Born(i)'
<1> USE DEF TypeOK, Born, Goto, InsertLocked, DropPc
<1>1. CASE InsertNoPrimary(t) BY <1>1 DEF InsertNoPrimary, AtInsert
<1>2. CASE InsertBusy(t) BY <1>2 DEF InsertBusy, AtInsert
<1>3. CASE InsertLock(t) BY <1>3 DEF InsertLock, AtInsert
<1>4. CASE InsertSecondary(t) BY <1>4 DEF InsertSecondary
<1>5. CASE InsertBroadcast(t) BY <1>5 DEF InsertBroadcast, BroadcastRegister
<1>6. CASE InsertSubscriptions(t) BY <1>6 DEF InsertSubscriptions
<1>7. CASE InsertEnd(t) BY <1>7 DEF InsertEnd, AfterRegister
<1>8. CASE AnnounceReg(t) BY <1>8 DEF AnnounceReg, AnnounceUnlock, AfterRegister
<1>9. CASE ForceRemove(t) BY <1>9 DEF ForceRemove
<1>10. CASE ForceVacant(t) BY <1>10 DEF ForceVacant
<1>11. CASE ForceTrigger(t) BY <1>11 DEF ForceTrigger, Forget
<1> QED BY <1>1, <1>2, <1>3, <1>4, <1>5, <1>6, <1>7, <1>8, <1>9, <1>10, <1>11 DEF Insert

LEMMA DropBorn ==
  ASSUME TypeOK, NEW t \in Inst, Drop(t), NEW i \in Inst, Born(i)
  PROVE  Born(i)'
<1> USE DEF TypeOK, Born, Goto, InsertLocked, DropPc
<1>1. CASE DropLoad(t) BY <1>1 DEF DropLoad
<1>2. CASE DropNotRegistered(t) BY <1>2 DEF DropNotRegistered, DropReturn, AfterDrop
<1>3. CASE DropStore(t) BY <1>3 DEF DropStore
<1>4. CASE DropSubscriptions(t) BY <1>4 DEF DropSubscriptions, SubUnregister
<1>5. CASE DropBroadcast(t) BY <1>5 DEF DropBroadcast, BroadcastUnregister
<1>6. CASE DropClients(t) BY <1>6 DEF DropClients
<1>7. CASE DropLockSecondaries(t) BY <1>7 DEF DropLockSecondaries
<1>8. CASE DropNextSecondary(t) BY <1>8 DEF DropNextSecondary
<1>9. CASE DropMissingSecondary(t) BY <1>9 DEF DropMissingSecondary
<1>10. CASE DropSecondariesEnd(t) BY <1>10 DEF DropSecondariesEnd, DropReturn, AfterDrop
<1>11. CASE DropUnlinkLock(t) BY <1>11 DEF DropUnlinkLock
<1>12. CASE DropNoPrimary(t) BY <1>12 DEF DropNoPrimary, DropReturn, AfterDrop
<1>13. CASE DropUnlink(t) BY <1>13 DEF DropUnlink, DropReturn, AfterDrop
<1>14. CASE AnnounceUnreg(t) BY <1>14 DEF AnnounceUnreg
<1>15. CASE UnregisterEnd(t) BY <1>15 DEF UnregisterEnd, Forget
<1> QED BY <1>1, <1>2, <1>3, <1>4, <1>5, <1>6, <1>7, <1>8, <1>9, <1>10, <1>11, <1>12, <1>13, <1>14, <1>15 DEF Drop


LEMMA OwnerBorn ==
  ASSUME TypeOK, NEW t \in Inst, Owner(t), NEW i \in Inst, Born(i)
  PROVE  Born(i)'
<1> USE DEF TypeOK, Born, Goto, InsertLocked, DropPc, taskVars
<1>1. CASE RespondOk(t) BY <1>1 DEF RespondOk
<1>2. CASE RespondFail(t) BY <1>2 DEF RespondFail
<1>3. CASE Disconnect(t) BY <1>3 DEF Disconnect, CallUnregister, Evicting
<1>4. CASE BrokerUnregister(t) BY <1>4 DEF BrokerUnregister, CallUnregister
<1>5. CASE ClientUnregister(t) BY <1>5 DEF ClientUnregister
<1>6. CASE ClientDrop(t) BY <1>6 DEF ClientDrop
<1>7. CASE Lookup(t) BY <1>7 DEF Lookup, Targets
<1>8. CASE SendEnd(t) /\ pc[t] = "sending" BY <1>8 DEF SendEnd, Forget
<1>9. CASE Evict(t) BY <1>9 DEF Evict, CallUnregister
<1>10. ASSUME NEW x \in Topic, Subscribe(t, x) \/ Unsubscribe(t, x) PROVE Born(i)'
  BY <1>10 DEF Subscribe, Unsubscribe
<1>11. CASE SendEnd(t) /\ PublishDropped(t) BY <1>11 DEF SendEnd, PublishDropped, Evicting, Forget
<1> QED BY <1>1, <1>2, <1>3, <1>4, <1>5, <1>6, <1>7, <1>8, <1>9, <1>10, <1>11 DEF Owner, SendEnd


LEMMA InsertLockInv ==
  ASSUME TypeOK, LockInv, NEW t \in Inst, Insert(t)
  PROVE  LockInv'
<1>0. \A i \in Inst : Born(i) => Born(i)' BY InsertBorn
<1> USE DEF TypeOK, LockInv, Goto, InsertLocked, DropPc, dbVars, lockVars, instVars, otherVars
<1>1. CASE InsertNoPrimary(t)
  <2>1. BornInv' BY <1>0, <1>1 DEF InsertNoPrimary, AtInsert, BornInv, PastLoad
  <2>2. UnlistedInv' BY <1>0, <1>1 DEF InsertNoPrimary, AtInsert, UnlistedInv, Unlisted, BornInv, PastLoad
  <2>3. NestInv' BY <1>0, <1>1 DEF InsertNoPrimary, AtInsert, NestInv
  <2>4. HeldInv' BY <1>0, <1>1 DEF InsertNoPrimary, AtInsert, HeldInv, NestInv
  <2>5. ClientsInv' BY <1>0, <1>1 DEF InsertNoPrimary, AtInsert, ClientsInv, Locked
  <2> QED BY <2>1, <2>2, <2>3, <2>4, <2>5
<1>2. CASE InsertBusy(t)
  <2>1. BornInv' BY <1>0, <1>2 DEF InsertBusy, AtInsert, BornInv, PastLoad
  <2>2. UnlistedInv' BY <1>0, <1>2 DEF InsertBusy, AtInsert, UnlistedInv, Unlisted, BornInv, PastLoad
  <2>3. NestInv' BY <1>0, <1>2 DEF InsertBusy, AtInsert, NestInv
  <2>4. HeldInv' BY <1>0, <1>2 DEF InsertBusy, AtInsert, HeldInv, NestInv
  <2>5. ClientsInv' BY <1>0, <1>2 DEF InsertBusy, AtInsert, ClientsInv, Locked
  <2> QED BY <2>1, <2>2, <2>3, <2>4, <2>5
<1>3. CASE InsertLock(t)
  <2>1. BornInv' BY <1>0, <1>3 DEF InsertLock, AtInsert, PrimaryMissing, BornInv, PastLoad
  <2>2. UnlistedInv' BY <1>0, <1>3 DEF InsertLock, AtInsert, PrimaryMissing, UnlistedInv, Unlisted, BornInv, PastLoad
  <2>3. NestInv' BY <1>0, <1>3 DEF InsertLock, AtInsert, PrimaryMissing, NestInv
  <2>4. HeldInv' BY <1>0, <1>3 DEF InsertLock, AtInsert, PrimaryMissing, HeldInv, NestInv
  <2>5. ClientsInv' BY <1>0, <1>3 DEF InsertLock, AtInsert, PrimaryMissing, ClientsInv, Locked
  <2> QED BY <2>1, <2>2, <2>3, <2>4, <2>5
<1>4. CASE InsertSecondary(t)
  <2>1. BornInv' BY <1>0, <1>4 DEF InsertSecondary, BornInv, PastLoad
  <2>2. UnlistedInv' BY <1>0, <1>4 DEF InsertSecondary, UnlistedInv, Unlisted, BornInv, PastLoad
  <2>3. NestInv'
    <3>1. name[t] \in SecondaryName BY <1>4 DEF InsertSecondary, NestInv, SecondaryName
    <3>2. \A i \in Inst : secondaries'[i] \subseteq SecondaryName
      BY <1>4, <3>1 DEF InsertSecondary, NestInv
    <3> QED BY <1>4, <3>2 DEF InsertSecondary, NestInv
  <2>4. HeldInv' BY <1>0, <1>4 DEF InsertSecondary, HeldInv, NestInv
  <2>5. ClientsInv' BY <1>0, <1>4 DEF InsertSecondary, ClientsInv, Locked
  <2> QED BY <2>1, <2>2, <2>3, <2>4, <2>5
<1>5. CASE InsertBroadcast(t)
  <2>1. BornInv' BY <1>0, <1>5 DEF InsertBroadcast, BroadcastRegister, BornInv, PastLoad
  <2>2. UnlistedInv' BY <1>0, <1>5 DEF InsertBroadcast, BroadcastRegister, UnlistedInv, Unlisted, BornInv, PastLoad
  <2>3. NestInv' BY <1>0, <1>5 DEF InsertBroadcast, BroadcastRegister, NestInv
  <2>4. HeldInv' BY <1>0, <1>5 DEF InsertBroadcast, BroadcastRegister, HeldInv, NestInv
  <2>5. ClientsInv' BY <1>0, <1>5 DEF InsertBroadcast, BroadcastRegister, ClientsInv, Locked
  <2> QED BY <2>1, <2>2, <2>3, <2>4, <2>5
<1>6. CASE InsertSubscriptions(t)
  <2>1. BornInv' BY <1>0, <1>6 DEF InsertSubscriptions, BornInv, PastLoad
  <2>2. UnlistedInv' BY <1>0, <1>6 DEF InsertSubscriptions, UnlistedInv, Unlisted, BornInv, PastLoad
  <2>3. NestInv' BY <1>0, <1>6 DEF InsertSubscriptions, NestInv
  <2>4. HeldInv' BY <1>0, <1>6 DEF InsertSubscriptions, HeldInv, NestInv
  <2>5. ClientsInv' BY <1>0, <1>6 DEF InsertSubscriptions, ClientsInv, Locked
  <2> QED BY <2>1, <2>2, <2>3, <2>4, <2>5
<1>7. CASE InsertEnd(t)
  <2>a. ~Born(t) /\ Born(t)' BY <1>7 DEF InsertEnd, AfterRegister, Born
  <2>b. /\ clients' = [clients EXCEPT ![name[t]] = t]
        /\ registered' = [registered EXCEPT ![t] = TRUE]
        /\ pc' = [pc EXCEPT ![t] = pc'[t]] /\ pc'[t] \notin DropPc
        /\ cur' = cur /\ parent' = parent
    BY <1>7 DEF InsertEnd, AfterRegister
  <2>c. \A n \in Name : clients'[n] = IF n = name[t] THEN t ELSE clients[n]
    BY <2>b
  <2>d. \A u \in Inst : pc'[u] \in DropPc => u # t /\ pc'[u] = pc[u]
    BY <2>b
  <2>e. /\ \A u \in Inst : pc[u] \in PastLoad => cur[u] # t
        /\ \A u \in Inst : parent[u] # None => parent[u] # t
    BY <2>a DEF BornInv
  <2>1. BornInv'
    <3>1. (\A n \in Name : clients[n] # None => Born(clients[n]) /\ name[clients[n]] = n)'
      <4> SUFFICES ASSUME NEW n \in Name, clients'[n] # None
                   PROVE  Born(clients[n])' /\ name[clients'[n]] = n
        OBVIOUS
      <4>1. CASE n = name[t]
        <5>1. clients'[n] = t BY <2>c, <4>1
        <5> QED BY <2>a, <4>1, <5>1 DEF Born
      <4>2. CASE n # name[t]
        <5>1. clients'[n] = clients[n] /\ clients[n] \in Inst BY <2>c, <4>2
        <5>2. Born(clients[n]) /\ name[clients[n]] = n BY <5>1 DEF BornInv
        <5> QED BY <1>0, <5>1, <5>2 DEF Born
      <4> QED BY <4>1, <4>2
    <3>2. (\A i \in Inst : registered[i] => Born(i))' BY <1>0, <2>a, <2>b DEF BornInv
    <3>3. (\A u \in Inst : pc[u] \in PastLoad => Born(cur[u]))'
      BY <1>0, <2>b, <2>d DEF BornInv, PastLoad, Born
    <3>4. (\A u \in Inst : parent[u] # None => Born(parent[u]))'
      BY <1>0, <2>b DEF BornInv, Born
    <3> QED BY <3>1, <3>2, <3>3, <3>4 DEF BornInv
  <2>2. UnlistedInv'
    <3>1. (\A u \in Inst : pc[u] \in Unlisted => clients[name[cur[u]]] # cur[u])'
      <4>1. Unlisted \subseteq PastLoad BY DEF Unlisted, PastLoad
      <4>2. Unlisted \subseteq DropPc BY DEF Unlisted
      <4> HIDE DEF DropPc
      <4> QED BY <2>b, <2>c, <2>d, <2>e, <4>1, <4>2 DEF UnlistedInv
    <3>2. (\A u \in Inst : parent[u] # None => clients[name[parent[u]]] # parent[u])'
      BY <2>b, <2>c, <2>e DEF UnlistedInv
    <3> QED BY <3>1, <3>2 DEF UnlistedInv
  <2>3. NestInv' BY <1>0, <1>7 DEF InsertEnd, AfterRegister, NestInv
  <2>4. HeldInv' BY <1>0, <1>7 DEF InsertEnd, AfterRegister, HeldInv, NestInv
  <2>5. ClientsInv' BY <1>0, <1>7 DEF InsertEnd, AfterRegister, ClientsInv, Locked
  <2> QED BY <2>1, <2>2, <2>3, <2>4, <2>5
<1>8. CASE AnnounceReg(t)
  <2>1. BornInv' BY <1>0, <1>8 DEF AnnounceReg, AfterRegister, BornInv, PastLoad
  <2>2. UnlistedInv' BY <1>0, <1>8 DEF AnnounceReg, AfterRegister, UnlistedInv, Unlisted, BornInv, PastLoad
  <2>3. NestInv' BY <1>0, <1>8 DEF AnnounceReg, AfterRegister, NestInv
  <2>4. HeldInv' BY <1>0, <1>8 DEF AnnounceReg, AfterRegister, HeldInv, NestInv
  <2>5. ClientsInv'
    <3>1. /\ pc' = [pc EXCEPT ![t] = pc'[t]] /\ pc[t] \notin Locked /\ pc'[t] \notin Locked
          /\ UNCHANGED <<clients, clientsLock, cur, listing>>
      BY <1>8 DEF AnnounceReg, AfterRegister, Locked
    <3> QED BY <3>1 DEF ClientsInv, Locked
  <2> QED BY <2>1, <2>2, <2>3, <2>4, <2>5
<1>9. CASE ForceRemove(t)
  <2>1. BornInv' BY <1>0, <1>9 DEF ForceRemove, BornInv, PastLoad
  <2>2. UnlistedInv' BY <1>0, <1>9 DEF ForceRemove, UnlistedInv, Unlisted, BornInv, PastLoad
  <2>3. NestInv' BY <1>0, <1>9 DEF ForceRemove, NestInv
  <2>4. HeldInv' BY <1>0, <1>9 DEF ForceRemove, HeldInv, NestInv
  <2>5. ClientsInv' BY <1>0, <1>9 DEF ForceRemove, ClientsInv, Locked
  <2> QED BY <2>1, <2>2, <2>3, <2>4, <2>5
<1>10. CASE ForceVacant(t)
  <2>1. BornInv' BY <1>0, <1>10 DEF ForceVacant, BornInv, PastLoad
  <2>2. UnlistedInv' BY <1>0, <1>10 DEF ForceVacant, UnlistedInv, Unlisted, BornInv, PastLoad
  <2>3. NestInv' BY <1>0, <1>10 DEF ForceVacant, NestInv
  <2>4. HeldInv' BY <1>0, <1>10 DEF ForceVacant, HeldInv, NestInv
  <2>5. ClientsInv' BY <1>0, <1>10 DEF ForceVacant, ClientsInv, Locked
  <2> QED BY <2>1, <2>2, <2>3, <2>4, <2>5
<1>11. CASE ForceTrigger(t)
  <2>1. BornInv' BY <1>0, <1>11 DEF ForceTrigger, Forget, BornInv, PastLoad
  <2>2. UnlistedInv' BY <1>0, <1>11 DEF ForceTrigger, Forget, UnlistedInv, Unlisted, BornInv, PastLoad
  <2>3. NestInv' BY <1>0, <1>11 DEF ForceTrigger, Forget, NestInv
  <2>4. HeldInv' BY <1>0, <1>11 DEF ForceTrigger, Forget, HeldInv, NestInv
  <2>5. ClientsInv' BY <1>0, <1>11 DEF ForceTrigger, Forget, ClientsInv, Locked
  <2> QED BY <2>1, <2>2, <2>3, <2>4, <2>5
<1> QED BY <1>1, <1>2, <1>3, <1>4, <1>5, <1>6, <1>7, <1>8, <1>9, <1>10, <1>11 DEF Insert


\* Where drop_client returns to its caller, it holds no mutex of its own.
LEMMA ReturnLockInv ==
  ASSUME TypeOK, LockInv, NEW t \in Inst, pc[t] \in DropPc, DropReturn(t),
         \A i \in Inst : Born(i) => Born(i)',
         clients' = clients, registered' = registered, todo' = todo, listing' = listing,
         clientsLock' = (IF pc[t] = "d_unlink" THEN None ELSE clientsLock),
         secondaries' \in [Inst -> SUBSET Name],
         \A i \in Inst : secondaries'[i] \subseteq secondaries[i],
         \A p \in Inst : secLock'[p] # None =>
           secLock'[p] = secLock[p] /\ (pc[t] = "d_loop" => p # cur[t])
  PROVE  LockInv'
<1> USE DEF TypeOK, LockInv
<1>1. CASE parent[t] = None
  <2>1. PICK l \in {"f_trig", "done", "ann_unreg", "u_end"} :
          pc' = [pc EXCEPT ![t] = l] /\ cur' = cur /\ parent' = parent
    BY <1>1, AfterDropOut DEF DropReturn, Goto
  <2>2. BornInv' BY <2>1 DEF BornInv, PastLoad, DropPc
  <2>3. UnlistedInv' BY <2>1 DEF UnlistedInv, Unlisted
  <2>4. NestInv' BY <1>1, <2>1 DEF NestInv, DropPc
  <2>5. HeldInv' BY <1>1, <2>1 DEF HeldInv
  <2>6. ClientsInv' BY <2>1 DEF ClientsInv, Locked, InsertLocked, DropPc
  <2> QED BY <2>2, <2>3, <2>4, <2>5, <2>6
<1>2. CASE parent[t] # None
  <2>1. /\ pc' = [pc EXCEPT ![t] = "d_loop"]
        /\ cur' = [cur EXCEPT ![t] = parent[t]]
        /\ parent' = [parent EXCEPT ![t] = None]
    BY <1>2 DEF DropReturn, Goto
  <2>2. BornInv' BY <1>2, <2>1 DEF BornInv, PastLoad, DropPc
  <2>3. UnlistedInv' BY <1>2, <2>1 DEF UnlistedInv, Unlisted
  <2>4. NestInv' BY <1>2, <2>1 DEF NestInv, DropPc
  <2>5. HeldInv'
    <3> SUFFICES ASSUME NEW p \in Inst, NEW u \in Inst, secLock'[p] = u
                 PROVE  (pc'[u] = "d_loop" /\ cur'[u] = p) \/ parent'[u] = p
      BY DEF HeldInv
    <3>1. secLock[p] = u /\ (pc[t] = "d_loop" => p # cur[t]) OBVIOUS
    <3>2. (pc[u] = "d_loop" /\ cur[u] = p) \/ parent[u] = p BY <3>1 DEF HeldInv
    <3> QED BY <1>2, <2>1, <3>1, <3>2
  <2>6. ClientsInv' BY <2>1 DEF ClientsInv, Locked, InsertLocked, DropPc
  <2> QED BY <2>2, <2>3, <2>4, <2>5, <2>6
<1> QED BY <1>1, <1>2

LEMMA DropLockInv ==
  ASSUME TypeOK, LockInv, NEW t \in Inst, Drop(t)
  PROVE  LockInv'
<1>0. \A i \in Inst : Born(i) => Born(i)' BY DropBorn
<1> USE DEF TypeOK, LockInv, Goto, InsertLocked, DropPc, dbVars, lockVars, instVars, otherVars
<1>1. CASE DropLoad(t)
  <2>1. BornInv' BY <1>0, <1>1 DEF DropLoad, BornInv, PastLoad
  <2>2. UnlistedInv' BY <1>0, <1>1 DEF DropLoad, UnlistedInv, Unlisted, BornInv, PastLoad
  <2>3. NestInv' BY <1>0, <1>1 DEF DropLoad, NestInv
  <2>4. HeldInv' BY <1>0, <1>1 DEF DropLoad, HeldInv, NestInv
  <2>5. ClientsInv' BY <1>0, <1>1 DEF DropLoad, ClientsInv, Locked
  <2> QED BY <2>1, <2>2, <2>3, <2>4, <2>5
<1>2. CASE DropNotRegistered(t) BY <1>0, <1>2, ReturnLockInv DEF DropNotRegistered, ClientsInv, Locked
<1>3. CASE DropStore(t)
  <2>1. BornInv' BY <1>0, <1>3 DEF DropStore, BornInv, PastLoad
  <2>2. UnlistedInv' BY <1>0, <1>3 DEF DropStore, UnlistedInv, Unlisted, BornInv, PastLoad
  <2>3. NestInv' BY <1>0, <1>3 DEF DropStore, NestInv
  <2>4. HeldInv' BY <1>0, <1>3 DEF DropStore, HeldInv, NestInv
  <2>5. ClientsInv' BY <1>0, <1>3 DEF DropStore, ClientsInv, Locked
  <2> QED BY <2>1, <2>2, <2>3, <2>4, <2>5
<1>4. CASE DropSubscriptions(t)
  <2>1. BornInv' BY <1>0, <1>4 DEF DropSubscriptions, SubUnregister, BornInv, PastLoad
  <2>2. UnlistedInv' BY <1>0, <1>4 DEF DropSubscriptions, SubUnregister, UnlistedInv, Unlisted, BornInv, PastLoad
  <2>3. NestInv' BY <1>0, <1>4 DEF DropSubscriptions, SubUnregister, NestInv
  <2>4. HeldInv' BY <1>0, <1>4 DEF DropSubscriptions, SubUnregister, HeldInv, NestInv
  <2>5. ClientsInv' BY <1>0, <1>4 DEF DropSubscriptions, SubUnregister, ClientsInv, Locked
  <2> QED BY <2>1, <2>2, <2>3, <2>4, <2>5
<1>5. CASE DropBroadcast(t)
  <2>1. BornInv' BY <1>0, <1>5 DEF DropBroadcast, BroadcastUnregister, BornInv, PastLoad
  <2>2. UnlistedInv' BY <1>0, <1>5 DEF DropBroadcast, BroadcastUnregister, UnlistedInv, Unlisted, BornInv, PastLoad
  <2>3. NestInv' BY <1>0, <1>5 DEF DropBroadcast, BroadcastUnregister, NestInv
  <2>4. HeldInv' BY <1>0, <1>5 DEF DropBroadcast, BroadcastUnregister, HeldInv, NestInv
  <2>5. ClientsInv' BY <1>0, <1>5 DEF DropBroadcast, BroadcastUnregister, ClientsInv, Locked
  <2> QED BY <2>1, <2>2, <2>3, <2>4, <2>5
<1>6. CASE DropClients(t)
  <2>1. BornInv' BY <1>0, <1>6 DEF DropClients, BornInv, PastLoad
  <2>2. UnlistedInv' BY <1>0, <1>6 DEF DropClients, UnlistedInv, Unlisted, BornInv, PastLoad
  <2>3. NestInv' BY <1>0, <1>6 DEF DropClients, NestInv
  <2>4. HeldInv' BY <1>0, <1>6 DEF DropClients, HeldInv, NestInv
  <2>5. ClientsInv' BY <1>0, <1>6 DEF DropClients, ClientsInv, Locked
  <2> QED BY <2>1, <2>2, <2>3, <2>4, <2>5
<1>7. CASE DropLockSecondaries(t)
  <2>1. BornInv' BY <1>0, <1>7 DEF DropLockSecondaries, BornInv, PastLoad
  <2>2. UnlistedInv' BY <1>0, <1>7 DEF DropLockSecondaries, UnlistedInv, Unlisted, BornInv, PastLoad
  <2>3. NestInv' BY <1>0, <1>7 DEF DropLockSecondaries, NestInv
  <2>4. HeldInv' BY <1>0, <1>7 DEF DropLockSecondaries, HeldInv, NestInv
  <2>5. ClientsInv' BY <1>0, <1>7 DEF DropLockSecondaries, ClientsInv, Locked
  <2> QED BY <2>1, <2>2, <2>3, <2>4, <2>5
<1>8. CASE DropNextSecondary(t)
  <2>1. BornInv' BY <1>0, <1>8 DEF DropNextSecondary, BornInv, PastLoad
  <2>2. UnlistedInv' BY <1>0, <1>8 DEF DropNextSecondary, UnlistedInv, Unlisted, BornInv, PastLoad
  <2>3. NestInv'
    <3>1. PICK n \in todo[t] : DropNextSecondary(t)!(n)
      BY <1>8 DEF DropNextSecondary
    <3>2. clients[n] \in Inst /\ name[clients[n]] = n BY <3>1 DEF BornInv
    <3>3. PICK s \in Inst : ~Primary(s) /\ name[s] = n
      BY DEF NestInv, SecondaryName
    <3>4. ~Primary(clients[n]) BY <3>2, <3>3 DEF Primary
    <3> QED BY <3>1, <3>2, <3>4 DEF NestInv
  <2>4. HeldInv' BY <1>0, <1>8 DEF DropNextSecondary, HeldInv, NestInv
  <2>5. ClientsInv' BY <1>0, <1>8 DEF DropNextSecondary, ClientsInv, Locked
  <2> QED BY <2>1, <2>2, <2>3, <2>4, <2>5
<1>9. CASE DropMissingSecondary(t)
  <2>1. BornInv' BY <1>0, <1>9 DEF DropMissingSecondary, BornInv, PastLoad
  <2>2. UnlistedInv' BY <1>0, <1>9 DEF DropMissingSecondary, UnlistedInv, Unlisted, BornInv, PastLoad
  <2>3. NestInv' BY <1>0, <1>9 DEF DropMissingSecondary, NestInv
  <2>4. HeldInv' BY <1>0, <1>9 DEF DropMissingSecondary, HeldInv, NestInv
  <2>5. ClientsInv' BY <1>0, <1>9 DEF DropMissingSecondary, ClientsInv, Locked
  <2> QED BY <2>1, <2>2, <2>3, <2>4, <2>5
<1>10. CASE DropSecondariesEnd(t)
  <2>1. \A i \in Inst : secondaries'[i] \subseteq secondaries[i]
    BY <1>10 DEF DropSecondariesEnd
  <2>2. \A p \in Inst : secLock'[p] # None => secLock'[p] = secLock[p] /\ p # cur[t]
    BY <1>10 DEF DropSecondariesEnd
  <2> QED BY <1>0, <1>10, <2>1, <2>2, ReturnLockInv DEF DropSecondariesEnd
<1>11. CASE DropUnlinkLock(t)
  <2>1. BornInv' BY <1>0, <1>11 DEF DropUnlinkLock, BornInv, PastLoad
  <2>2. UnlistedInv' BY <1>0, <1>11 DEF DropUnlinkLock, UnlistedInv, Unlisted, BornInv, PastLoad
  <2>3. NestInv' BY <1>0, <1>11 DEF DropUnlinkLock, NestInv
  <2>4. HeldInv' BY <1>0, <1>11 DEF DropUnlinkLock, HeldInv, NestInv
  <2>5. ClientsInv' BY <1>0, <1>11 DEF DropUnlinkLock, ClientsInv, Locked
  <2> QED BY <2>1, <2>2, <2>3, <2>4, <2>5
<1>12. CASE DropNoPrimary(t) BY <1>0, <1>12, ReturnLockInv DEF DropNoPrimary, ClientsInv, Locked
<1>13. CASE DropUnlink(t)
  <2>1. clients[primary_name[cur[t]]] \in Inst BY <1>13 DEF DropUnlink, ClientsInv
  <2>2. \A i \in Inst : secondaries'[i] \subseteq secondaries[i]
    BY <1>13, <2>1 DEF DropUnlink
  <2> QED BY <1>0, <1>13, <2>2, ReturnLockInv DEF DropUnlink
<1>14. CASE AnnounceUnreg(t)
  <2>1. BornInv' BY <1>0, <1>14 DEF AnnounceUnreg, BornInv, PastLoad
  <2>2. UnlistedInv' BY <1>0, <1>14 DEF AnnounceUnreg, UnlistedInv, Unlisted, BornInv, PastLoad
  <2>3. NestInv' BY <1>0, <1>14 DEF AnnounceUnreg, NestInv
  <2>4. HeldInv' BY <1>0, <1>14 DEF AnnounceUnreg, HeldInv, NestInv
  <2>5. ClientsInv' BY <1>0, <1>14 DEF AnnounceUnreg, ClientsInv, Locked
  <2> QED BY <2>1, <2>2, <2>3, <2>4, <2>5
<1>15. CASE UnregisterEnd(t)
  <2>1. BornInv' BY <1>0, <1>15 DEF UnregisterEnd, Forget, BornInv, PastLoad
  <2>2. UnlistedInv' BY <1>0, <1>15 DEF UnregisterEnd, Forget, UnlistedInv, Unlisted, BornInv, PastLoad
  <2>3. NestInv' BY <1>0, <1>15 DEF UnregisterEnd, Forget, NestInv
  <2>4. HeldInv' BY <1>0, <1>15 DEF UnregisterEnd, Forget, HeldInv, NestInv
  <2>5. ClientsInv' BY <1>0, <1>15 DEF UnregisterEnd, Forget, ClientsInv, Locked
  <2> QED BY <2>1, <2>2, <2>3, <2>4, <2>5
<1> QED BY <1>1, <1>2, <1>3, <1>4, <1>5, <1>6, <1>7, <1>8, <1>9, <1>10, <1>11, <1>12, <1>13, <1>14, <1>15 DEF Drop


LEMMA OwnerLockInv ==
  ASSUME TypeOK, LockInv, NEW t \in Inst, Owner(t)
  PROVE  LockInv'
<1>0. \A i \in Inst : Born(i) => Born(i)' BY OwnerBorn
<1> USE DEF TypeOK, LockInv, Goto, InsertLocked, DropPc, dbVars, lockVars, instVars, otherVars, taskVars
<1>1. CASE RespondOk(t)
  <2>1. BornInv' BY <1>0, <1>1 DEF RespondOk, BornInv, PastLoad
  <2>2. UnlistedInv' BY <1>0, <1>1 DEF RespondOk, UnlistedInv, Unlisted, BornInv, PastLoad
  <2>3. NestInv' BY <1>0, <1>1 DEF RespondOk, NestInv
  <2>4. HeldInv' BY <1>0, <1>1 DEF RespondOk, HeldInv, NestInv
  <2>5. ClientsInv' BY <1>0, <1>1 DEF RespondOk, ClientsInv, Locked
  <2> QED BY <2>1, <2>2, <2>3, <2>4, <2>5
<1>2. CASE RespondFail(t)
  <2>1. BornInv' BY <1>0, <1>2 DEF RespondFail, BornInv, PastLoad
  <2>2. UnlistedInv' BY <1>0, <1>2 DEF RespondFail, UnlistedInv, Unlisted, BornInv, PastLoad
  <2>3. NestInv' BY <1>0, <1>2 DEF RespondFail, NestInv
  <2>4. HeldInv' BY <1>0, <1>2 DEF RespondFail, HeldInv, NestInv
  <2>5. ClientsInv' BY <1>0, <1>2 DEF RespondFail, ClientsInv, Locked
  <2> QED BY <2>1, <2>2, <2>3, <2>4, <2>5
<1>3. CASE Disconnect(t)
  <2>1. BornInv' BY <1>0, <1>3 DEF Disconnect, CallUnregister, Evicting, BornInv, PastLoad
  <2>2. UnlistedInv' BY <1>0, <1>3 DEF Disconnect, CallUnregister, Evicting, UnlistedInv, Unlisted, BornInv, PastLoad
  <2>3. NestInv' BY <1>0, <1>3 DEF Disconnect, CallUnregister, Evicting, NestInv
  <2>4. HeldInv' BY <1>0, <1>3 DEF Disconnect, CallUnregister, Evicting, HeldInv, NestInv
  <2>5. ClientsInv' BY <1>0, <1>3 DEF Disconnect, CallUnregister, Evicting, ClientsInv, Locked
  <2> QED BY <2>1, <2>2, <2>3, <2>4, <2>5
<1>4. CASE BrokerUnregister(t)
  <2>1. BornInv' BY <1>0, <1>4 DEF BrokerUnregister, CallUnregister, BornInv, PastLoad
  <2>2. UnlistedInv' BY <1>0, <1>4 DEF BrokerUnregister, CallUnregister, UnlistedInv, Unlisted, BornInv, PastLoad
  <2>3. NestInv' BY <1>0, <1>4 DEF BrokerUnregister, CallUnregister, NestInv
  <2>4. HeldInv' BY <1>0, <1>4 DEF BrokerUnregister, CallUnregister, HeldInv, NestInv
  <2>5. ClientsInv' BY <1>0, <1>4 DEF BrokerUnregister, CallUnregister, ClientsInv, Locked
  <2> QED BY <2>1, <2>2, <2>3, <2>4, <2>5
<1>5. CASE ClientUnregister(t)
  <2>1. BornInv' BY <1>0, <1>5 DEF ClientUnregister, BornInv, PastLoad
  <2>2. UnlistedInv' BY <1>0, <1>5 DEF ClientUnregister, UnlistedInv, Unlisted, BornInv, PastLoad
  <2>3. NestInv' BY <1>0, <1>5 DEF ClientUnregister, NestInv
  <2>4. HeldInv' BY <1>0, <1>5 DEF ClientUnregister, HeldInv, NestInv
  <2>5. ClientsInv' BY <1>0, <1>5 DEF ClientUnregister, ClientsInv, Locked
  <2> QED BY <2>1, <2>2, <2>3, <2>4, <2>5
<1>6. CASE ClientDrop(t)
  <2>1. BornInv' BY <1>0, <1>6 DEF ClientDrop, BornInv, PastLoad
  <2>2. UnlistedInv' BY <1>0, <1>6 DEF ClientDrop, UnlistedInv, Unlisted, BornInv, PastLoad
  <2>3. NestInv' BY <1>0, <1>6 DEF ClientDrop, NestInv
  <2>4. HeldInv' BY <1>0, <1>6 DEF ClientDrop, HeldInv, NestInv
  <2>5. ClientsInv' BY <1>0, <1>6 DEF ClientDrop, ClientsInv, Locked
  <2> QED BY <2>1, <2>2, <2>3, <2>4, <2>5
<1>7. CASE Lookup(t)
  <2>1. BornInv' BY <1>0, <1>7 DEF Lookup, Targets, BornInv, PastLoad
  <2>2. UnlistedInv' BY <1>0, <1>7 DEF Lookup, Targets, UnlistedInv, Unlisted, BornInv, PastLoad
  <2>3. NestInv' BY <1>0, <1>7 DEF Lookup, Targets, NestInv
  <2>4. HeldInv' BY <1>0, <1>7 DEF Lookup, Targets, HeldInv, NestInv
  <2>5. ClientsInv' BY <1>0, <1>7 DEF Lookup, Targets, ClientsInv, Locked
  <2> QED BY <2>1, <2>2, <2>3, <2>4, <2>5
<1>8. CASE SendEnd(t) /\ pc[t] = "sending"
  <2>1. BornInv' BY <1>0, <1>8 DEF SendEnd, Forget, BornInv, PastLoad
  <2>2. UnlistedInv' BY <1>0, <1>8 DEF SendEnd, Forget, UnlistedInv, Unlisted, BornInv, PastLoad
  <2>3. NestInv' BY <1>0, <1>8 DEF SendEnd, Forget, NestInv
  <2>4. HeldInv' BY <1>0, <1>8 DEF SendEnd, Forget, HeldInv, NestInv
  <2>5. ClientsInv' BY <1>0, <1>8 DEF SendEnd, Forget, ClientsInv, Locked
  <2> QED BY <2>1, <2>2, <2>3, <2>4, <2>5
<1>9. CASE Evict(t)
  <2>1. BornInv' BY <1>0, <1>9 DEF Evict, CallUnregister, BornInv, PastLoad
  <2>2. UnlistedInv' BY <1>0, <1>9 DEF Evict, CallUnregister, UnlistedInv, Unlisted, BornInv, PastLoad
  <2>3. NestInv' BY <1>0, <1>9 DEF Evict, CallUnregister, NestInv
  <2>4. HeldInv' BY <1>0, <1>9 DEF Evict, CallUnregister, HeldInv, NestInv
  <2>5. ClientsInv' BY <1>0, <1>9 DEF Evict, CallUnregister, ClientsInv, Locked
  <2> QED BY <2>1, <2>2, <2>3, <2>4, <2>5
<1>10. ASSUME NEW x \in Topic, Subscribe(t, x) \/ Unsubscribe(t, x) PROVE LockInv'
  BY <1>0, <1>10 DEF Subscribe, Unsubscribe, Born, BornInv, UnlistedInv, NestInv, HeldInv, ClientsInv, PastLoad, Unlisted, Locked
<1>11. CASE SendEnd(t) /\ PublishDropped(t)
  <2>1. BornInv' BY <1>0, <1>11 DEF SendEnd, PublishDropped, Evicting, Forget, BornInv, PastLoad
  <2>2. UnlistedInv' BY <1>0, <1>11 DEF SendEnd, PublishDropped, Evicting, Forget, UnlistedInv, Unlisted, BornInv, PastLoad
  <2>3. NestInv' BY <1>0, <1>11 DEF SendEnd, PublishDropped, Evicting, Forget, NestInv
  <2>4. HeldInv' BY <1>0, <1>11 DEF SendEnd, PublishDropped, Evicting, Forget, HeldInv, NestInv
  <2>5. ClientsInv' BY <1>0, <1>11 DEF SendEnd, PublishDropped, Evicting, Forget, ClientsInv, Locked
  <2> QED BY <2>1, <2>2, <2>3, <2>4, <2>5
<1> QED BY <1>1, <1>2, <1>3, <1>4, <1>5, <1>6, <1>7, <1>8, <1>9, <1>10, <1>11 DEF Owner, SendEnd


LEMMA NextLockInv == TypeOK /\ LockInv /\ [Next]_vars => LockInv'
<1> SUFFICES ASSUME TypeOK, LockInv, [Next]_vars PROVE LockInv'
  OBVIOUS
<1> USE DEF dbVars, lockVars, instVars, otherVars, taskVars
<1>1. ASSUME NEW t \in Inst, Insert(t) PROVE LockInv' BY <1>1, InsertLockInv
<1>2. ASSUME NEW t \in Inst, Drop(t) PROVE LockInv' BY <1>2, DropLockInv
<1>3. ASSUME NEW t \in Inst, Owner(t) PROVE LockInv' BY <1>3, OwnerLockInv
<1> USE DEF LockInv, BornInv, Born, UnlistedInv, NestInv, HeldInv, ClientsInv
<1>4. ASSUME NEW n \in Kicked, ForceDisconnect(n) PROVE LockInv'
  BY <1>4 DEF ForceDisconnect
<1>5. CASE ListLock
  <2>1. clientsLock' = Lister /\ \A t \in Inst : pc[t] \notin Locked
    BY <1>5 DEF ListLock
  <2> QED BY <1>5, <2>1 DEF ListLock
<1>6. ASSUME NEW i \in Inst, ListCount(i) PROVE LockInv'
  BY <1>6 DEF ListCount
<1>7. CASE ListEnd
  <2>1. clientsLock' = None /\ \A t \in Inst : pc[t] \notin Locked
    BY <1>7 DEF ListEnd
  <2> QED BY <1>7, <2>1 DEF ListEnd
<1>8. CASE UNCHANGED vars BY <1>8 DEF vars
<1>9. ASSUME NEW t \in Inst, AnnounceLock(t) PROVE LockInv' BY <1>9 DEF AnnounceLock
<1> QED BY <1>1, <1>2, <1>3, <1>4, <1>5, <1>6, <1>7, <1>8, <1>9 DEF Next, List, Terminated

LEMMA InitLockInv == Init => LockInv
BY DEF Init, LockInv, BornInv, UnlistedInv, NestInv, HeldInv, ClientsInv,
       PastLoad, DropPc, Unlisted, Locked, InsertLocked

LEMMA LockInvOrder == TypeOK /\ LockInv => LockOrder
<1> SUFFICES ASSUME TypeOK, LockInv, NEW p \in Inst, secLock[p] # None
             PROVE  clients[name[p]] # p
  BY DEF LockOrder
<1>1. PICK t \in Inst : secLock[p] = t BY DEF TypeOK
<1> QED BY <1>1 DEF LockInv, HeldInv, UnlistedInv, Unlisted

LEMMA LockInvHolder == TypeOK /\ LockInv => HolderNeverBlocked
<1> SUFFICES ASSUME TypeOK, LockInv PROVE HolderNeverBlocked
  OBVIOUS
<1>1. LockOrder BY LockInvOrder
<1>2. ASSUME NEW n \in Name, clients[n] # None PROVE secLock[clients[n]] = None
  BY <1>1, <1>2 DEF LockOrder, TypeOK, LockInv, BornInv
<1>3. ASSUME NEW i \in listing PROVE secLock[i] = None
  BY <1>1 DEF LockOrder, TypeOK, LockInv, ClientsInv
<1>4. ASSUME NEW t \in Inst, pc[t] = "ins_sec"
      PROVE  clients[primary_name[t]] # None /\ secLock[clients[primary_name[t]]] = None
  BY <1>2, <1>4 DEF LockInv, ClientsInv
<1>5. ASSUME NEW t \in Inst, pc[t] = "d_unlink"
      PROVE  /\ clients[primary_name[cur[t]]] # None
             /\ secLock[clients[primary_name[cur[t]]]] = None
  BY <1>2, <1>5 DEF LockInv, ClientsInv, TypeOK
<1> QED BY <1>3, <1>4, <1>5 DEF HolderNeverBlocked

\* While drop_client holds the mutex of the secondaries of a primary, that
\* primary is not listed, whatever the other tasks do.
THEOREM LocksOrdered == Spec => []LockOrder
<1>1. Init => TypeOK /\ LockInv BY InitType, InitLockInv
<1>2. TypeOK /\ LockInv /\ [Next]_vars => (TypeOK /\ LockInv)'
  BY NextType, NextLockInv
<1>3. TypeOK /\ LockInv => LockOrder BY LockInvOrder
<1> QED BY <1>1, <1>2, <1>3, PTL DEF Spec

\* Whoever holds the mutex of clients finds the secondaries it locks free: the
\* mutexes of the broker cannot deadlock.
THEOREM NoLockCycle == Spec => []HolderNeverBlocked
<1>1. Init => TypeOK /\ LockInv BY InitType, InitLockInv
<1>2. TypeOK /\ LockInv /\ [Next]_vars => (TypeOK /\ LockInv)'
  BY NextType, NextLockInv
<1>3. TypeOK /\ LockInv => HolderNeverBlocked BY LockInvHolder
<1> QED BY <1>1, <1>2, <1>3, PTL DEF Spec

-----------------------------------------------------------------------------
(* What each step does, one value at a time: the proofs that follow reason *)
(* about several tasks at once and need no more than this.                 *)

\* The other tasks stay where they are.
Local(t) ==
  \A u \in Inst : u # t =>
    /\ pc'[u] = pc[u] /\ cur'[u] = cur[u] /\ parent'[u] = parent[u]
    /\ todo'[u] = todo[u] /\ was'[u] = was[u] /\ cont'[u] = cont[u]

\* The task goes on, or goes to l, with its locals.
Goes(t) ==
  /\ Local(t) /\ cur'[t] = cur[t] /\ parent'[t] = parent[t]
  /\ todo'[t] = todo[t] /\ was'[t] = was[t] /\ cont'[t] = cont[t]
Moves(t, l) == Goes(t) /\ pc'[t] = l

\* The task returns from drop_client.
Returns(t) ==
  /\ Local(t) /\ parent'[t] = None
  /\ todo'[t] = todo[t] /\ was'[t] = was[t] /\ cont'[t] = cont[t]
  /\ \/ parent[t] = None /\ pc'[t] = AfterDrop(t) /\ cur'[t] = cur[t]
     \/ parent[t] # None /\ pc'[t] = "d_loop" /\ cur'[t] = parent[t]

\* The task calls unregister_client for i.
Calls(t, i, k) ==
  /\ Enter(t) /\ Local(t) /\ pc'[t] = "d_load"
  /\ cur'[t] = i /\ cont'[t] = k /\ (was'[t] <=> registered[i])
  /\ parent'[t] = parent[t] /\ todo'[t] = todo[t]

LEMMA InsertNoPrimaryStep ==
  ASSUME TypeOK, NEW t \in Inst, InsertNoPrimary(t)
  PROVE  /\ pc[t] \in {"new", "ins_retry"} /\ Enter(t) /\ PrimaryMissing(t)
         /\ Moves(t, "done") /\ UNCHANGED <<dbVars, lockVars, instVars, otherVars>>
BY DEF InsertNoPrimary, AtInsert, TypeOK, Goto, Local, Goes, Moves, dbVars, lockVars, instVars, otherVars

LEMMA InsertBusyStep ==
  ASSUME TypeOK, NEW t \in Inst, InsertBusy(t)
  PROVE  /\ pc[t] \in {"new", "ins_retry"} /\ Enter(t) /\ clients[name[t]] # None
         /\ \/ pc[t] = "new" /\ Primary(t) /\ ForceRegister /\ Moves(t, "f_remove")
            \/ Moves(t, "done")
         /\ UNCHANGED <<dbVars, lockVars, instVars, otherVars>>
BY DEF InsertBusy, AtInsert, TypeOK, Goto, Local, Goes, Moves, dbVars, lockVars, instVars, otherVars

LEMMA InsertLockStep ==
  ASSUME TypeOK, NEW t \in Inst, InsertLock(t)
  PROVE  /\ pc[t] \in {"new", "ins_retry"} /\ Enter(t) /\ ~PrimaryMissing(t) /\ clients[name[t]] = None
         /\ clientsLock = None /\ clientsLock' = t
         /\ (Primary(t) /\ Moves(t, "ins_bc")) \/ (~Primary(t) /\ Moves(t, "ins_sec"))
         /\ UNCHANGED <<dbVars, secLock, instVars, otherVars>>
BY DEF InsertLock, AtInsert, TypeOK, Goto, Local, Goes, Moves, dbVars, lockVars, instVars, otherVars

LEMMA InsertSecondaryStep ==
  ASSUME TypeOK, NEW t \in Inst, InsertSecondary(t)
  PROVE  /\ pc[t] = "ins_sec" /\ Moves(t, "ins_bc")
         /\ \A i \in Inst : secondaries'[i] = IF i = clients[primary_name[t]]
                                              THEN secondaries[i] \cup {name[t]} ELSE secondaries[i]
         /\ UNCHANGED <<dbVars, lockVars, registered, triggered, closed, otherVars>>
BY DEF InsertSecondary, TypeOK, Goto, Local, Goes, Moves, dbVars, lockVars, instVars, otherVars

LEMMA InsertBroadcastStep ==
  ASSUME TypeOK, NEW t \in Inst, InsertBroadcast(t)
  PROVE  /\ pc[t] = "ins_bc" /\ Moves(t, "ins_sub")
         /\ \A n \in Name : broadcasts'[n] = IF n = name[t] /\ broadcasts[n] = None
                                             THEN t ELSE broadcasts[n]
         /\ UNCHANGED <<clients, subreg, subs, lockVars, instVars, otherVars>>
BY DEF InsertBroadcast, BroadcastRegister, TypeOK, Goto, Local, Goes, Moves, dbVars, lockVars, instVars, otherVars

LEMMA InsertSubscriptionsStep ==
  ASSUME TypeOK, NEW t \in Inst, InsertSubscriptions(t)
  PROVE  /\ pc[t] = "ins_sub" /\ Moves(t, "ins_end") /\ subreg' = subreg \cup {name[t]}
         /\ UNCHANGED <<clients, broadcasts, lockVars, instVars, otherVars>>
BY DEF InsertSubscriptions, TypeOK, Goto, Local, Goes, Moves, dbVars, lockVars, instVars, otherVars

LEMMA InsertEndStep ==
  ASSUME TypeOK, NEW t \in Inst, InsertEnd(t)
  PROVE  /\ pc[t] = "ins_end"
         /\ Goes(t) /\ pc'[t] \in {"ann_reg", "run", "resp"} /\ (pc'[t] = "ann_reg" => Primary(t))
         /\ registered'[t] /\ \A i \in Inst : i # t => registered'[i] = registered[i]
         /\ \A n \in Name : clients'[n] = IF n = name[t] THEN t ELSE clients[n]
         /\ clientsLock' = None
         /\ UNCHANGED <<broadcasts, subreg, subs, secLock, secondaries, triggered, closed, otherVars>>
BY DEF InsertEnd, AfterRegister, TypeOK, Goto, Local, Goes, dbVars, lockVars, instVars, otherVars

LEMMA AnnounceRegStep ==
  ASSUME TypeOK, NEW t \in Inst, AnnounceReg(t)
  PROVE  /\ pc[t] = "ann_reg" /\ Room /\ Goes(t) /\ pc'[t] \in {"run", "resp"}
         /\ ~Publishing /\ rpcLock = t /\ rpcLock' = None
         /\ UNCHANGED <<dbVars, lockVars, instVars, listing, unregs, cut>>
BY DEF AnnounceReg, AnnounceUnlock, AfterRegister, TypeOK, Goto, Local, Goes, dbVars, lockVars, instVars, otherVars

LEMMA ForceRemoveStep ==
  ASSUME TypeOK, NEW t \in Inst, ForceRemove(t)
  PROVE  /\ pc[t] = "f_remove" /\ pc'[t] = "d_load" /\ clients[name[t]] # None /\ Local(t)
         /\ cur'[t] = clients[name[t]] /\ cont'[t] = "force"
         /\ parent'[t] = parent[t] /\ todo'[t] = todo[t] /\ was'[t] = was[t]
         /\ \A n \in Name : clients'[n] = IF n = name[t] THEN None ELSE clients[n]
         /\ UNCHANGED <<broadcasts, subreg, subs, lockVars, instVars, otherVars>>
BY DEF ForceRemove, TypeOK, Goto, Local, dbVars, lockVars, instVars, otherVars

LEMMA ForceVacantStep ==
  ASSUME TypeOK, NEW t \in Inst, ForceVacant(t)
  PROVE  /\ pc[t] = "f_remove" /\ clients[name[t]] = None /\ Moves(t, "ins_retry")
         /\ UNCHANGED <<dbVars, lockVars, instVars, otherVars>>
BY DEF ForceVacant, TypeOK, Goto, Local, Goes, Moves, dbVars, lockVars, instVars, otherVars

LEMMA ForceTriggerStep ==
  ASSUME TypeOK, NEW t \in Inst, ForceTrigger(t)
  PROVE  /\ pc[t] = "f_trig" /\ pc'[t] = "ins_retry" /\ Local(t)
         /\ cur'[t] = t /\ ~was'[t]
         /\ parent'[t] = parent[t] /\ todo'[t] = todo[t] /\ cont'[t] = cont[t]
         /\ triggered'[cur[t]] /\ \A i \in Inst : i # cur[t] => triggered'[i] = triggered[i]
         /\ UNCHANGED <<dbVars, lockVars, registered, secondaries, closed, otherVars>>
BY DEF ForceTrigger, Forget, TypeOK, Goto, Local, dbVars, lockVars, instVars, otherVars

LEMMA DropLoadStep ==
  ASSUME TypeOK, NEW t \in Inst, DropLoad(t)
  PROVE  /\ pc[t] = "d_load" /\ registered[cur[t]] /\ Moves(t, "d_store")
         /\ UNCHANGED <<dbVars, lockVars, instVars, otherVars>>
BY DEF DropLoad, TypeOK, Goto, Local, Goes, Moves, dbVars, lockVars, instVars, otherVars

LEMMA DropNotRegisteredStep ==
  ASSUME TypeOK, NEW t \in Inst, DropNotRegistered(t)
  PROVE  /\ pc[t] = "d_load" /\ ~registered[cur[t]] /\ Returns(t)
         /\ UNCHANGED <<dbVars, lockVars, instVars, otherVars>>
BY DEF DropNotRegistered, DropReturn, TypeOK, Goto, Local, Returns, dbVars, lockVars, instVars, otherVars

LEMMA DropStoreStep ==
  ASSUME TypeOK, NEW t \in Inst, DropStore(t)
  PROVE  /\ pc[t] = "d_store" /\ Moves(t, "d_subs")
         /\ ~registered'[cur[t]] /\ \A i \in Inst : i # cur[t] => registered'[i] = registered[i]
         /\ UNCHANGED <<dbVars, lockVars, secondaries, triggered, closed, otherVars>>
BY DEF DropStore, TypeOK, Goto, Local, Goes, Moves, dbVars, lockVars, instVars, otherVars

LEMMA DropSubscriptionsStep ==
  ASSUME TypeOK, NEW t \in Inst, DropSubscriptions(t)
  PROVE  /\ pc[t] = "d_subs" /\ Moves(t, "d_bcast") /\ subreg' = subreg \ {name[cur[t]]}
         /\ UNCHANGED <<clients, broadcasts, lockVars, instVars, otherVars>>
BY DEF DropSubscriptions, SubUnregister, TypeOK, Goto, Local, Goes, Moves, dbVars, lockVars, instVars, otherVars

LEMMA DropBroadcastStep ==
  ASSUME TypeOK, NEW t \in Inst, DropBroadcast(t)
  PROVE  /\ pc[t] = "d_bcast" /\ Moves(t, "d_clients")
         /\ \A n \in Name : broadcasts'[n] = IF n = name[cur[t]] THEN None ELSE broadcasts[n]
         /\ UNCHANGED <<clients, subreg, subs, lockVars, instVars, otherVars>>
BY DEF DropBroadcast, BroadcastUnregister, TypeOK, Goto, Local, Goes, Moves, dbVars, lockVars, instVars, otherVars

LEMMA DropClientsStep ==
  ASSUME TypeOK, NEW t \in Inst, DropClients(t)
  PROVE  /\ pc[t] = "d_clients"
         /\ (Primary(cur[t]) /\ Moves(t, "d_sec")) \/ (~Primary(cur[t]) /\ Moves(t, "d_unlink_lock"))
         /\ \A n \in Name : clients'[n] = IF n = name[cur[t]] THEN None ELSE clients[n]
         /\ UNCHANGED <<broadcasts, subreg, subs, lockVars, instVars, otherVars>>
BY DEF DropClients, TypeOK, Goto, Local, Goes, Moves, dbVars, lockVars, instVars, otherVars

LEMMA DropLockSecondariesStep ==
  ASSUME TypeOK, NEW t \in Inst, DropLockSecondaries(t)
  PROVE  /\ pc[t] = "d_sec" /\ pc'[t] = "d_loop" /\ Local(t) /\ todo'[t] = secondaries[cur[t]]
         /\ cur'[t] = cur[t] /\ parent'[t] = parent[t] /\ was'[t] = was[t] /\ cont'[t] = cont[t]
         /\ UNCHANGED <<dbVars, clientsLock, instVars, otherVars>>
BY DEF DropLockSecondaries, TypeOK, Goto, Local, dbVars, lockVars, instVars, otherVars

LEMMA DropNextSecondaryStep ==
  ASSUME TypeOK, NEW t \in Inst, DropNextSecondary(t)
  PROVE  /\ pc[t] = "d_loop" /\ pc'[t] = "d_load" /\ Local(t)
         /\ was'[t] = was[t] /\ cont'[t] = cont[t] /\ parent'[t] = cur[t]
         /\ \E n \in todo[t] : clients[n] # None /\ cur'[t] = clients[n] /\ todo'[t] = todo[t] \ {n}
         /\ cur'[t] \notin Internal => triggered'[cur'[t]]
         /\ \A i \in Inst : triggered[i] => triggered'[i]
         /\ \A i \in Inst : i # cur'[t] => triggered'[i] = triggered[i]
         /\ UNCHANGED <<dbVars, lockVars, registered, secondaries, closed, otherVars>>
<1>1. PICK n \in todo[t] : DropNextSecondary(t)!(n)
  BY DEF DropNextSecondary
<1>2. clients[n] \in Inst /\ clients[n] # None /\ cur'[t] = clients[n] /\ todo'[t] = todo[t] \ {n}
  BY <1>1 DEF TypeOK
<1>3. /\ cur'[t] \notin Internal => triggered'[cur'[t]]
      /\ \A i \in Inst : triggered[i] => triggered'[i]
      /\ \A i \in Inst : i # cur'[t] => triggered'[i] = triggered[i]
  BY <1>1, <1>2 DEF TypeOK
<1>4. Local(t) /\ pc'[t] = "d_load" /\ parent'[t] = cur[t] /\ was'[t] = was[t] /\ cont'[t] = cont[t]
  BY <1>1 DEF TypeOK, Goto, Local
<1> QED BY <1>1, <1>2, <1>3, <1>4 DEF dbVars, lockVars, otherVars

LEMMA DropMissingSecondaryStep ==
  ASSUME TypeOK, NEW t \in Inst, DropMissingSecondary(t)
  PROVE  /\ pc[t] = "d_loop" /\ pc'[t] = "d_loop" /\ Local(t)
         /\ cur'[t] = cur[t] /\ parent'[t] = parent[t] /\ was'[t] = was[t] /\ cont'[t] = cont[t]
         /\ \E n \in todo[t] : clients[n] = None /\ todo'[t] = todo[t] \ {n}
         /\ UNCHANGED <<dbVars, lockVars, instVars, otherVars>>
BY DEF DropMissingSecondary, TypeOK, Goto, Local, dbVars, lockVars, instVars, otherVars

LEMMA DropSecondariesEndStep ==
  ASSUME TypeOK, NEW t \in Inst, DropSecondariesEnd(t)
  PROVE  /\ pc[t] = "d_loop" /\ todo[t] = {} /\ Returns(t)
         /\ \A i \in Inst : secondaries'[i] = IF i = cur[t] THEN {} ELSE secondaries[i]
         /\ UNCHANGED <<dbVars, clientsLock, registered, triggered, closed, otherVars>>
BY DEF DropSecondariesEnd, DropReturn, TypeOK, Goto, Local, Returns, dbVars, lockVars, instVars, otherVars

LEMMA DropUnlinkLockStep ==
  ASSUME TypeOK, NEW t \in Inst, DropUnlinkLock(t)
  PROVE  /\ pc[t] = "d_unlink_lock" /\ clients[primary_name[cur[t]]] # None /\ Moves(t, "d_unlink")
         /\ clientsLock = None /\ clientsLock' = t
         /\ UNCHANGED <<dbVars, secLock, instVars, otherVars>>
BY DEF DropUnlinkLock, TypeOK, Goto, Local, Goes, Moves, dbVars, lockVars, instVars, otherVars

LEMMA DropNoPrimaryStep ==
  ASSUME TypeOK, NEW t \in Inst, DropNoPrimary(t)
  PROVE  /\ pc[t] = "d_unlink_lock" /\ clients[primary_name[cur[t]]] = None /\ Returns(t)
         /\ UNCHANGED <<dbVars, lockVars, instVars, otherVars>>
BY DEF DropNoPrimary, DropReturn, TypeOK, Goto, Local, Returns, dbVars, lockVars, instVars, otherVars

LEMMA DropUnlinkStep ==
  ASSUME TypeOK, NEW t \in Inst, DropUnlink(t)
  PROVE  /\ pc[t] = "d_unlink" /\ Returns(t) /\ clientsLock' = None
         /\ \A i \in Inst : secondaries'[i] = IF i = clients[primary_name[cur[t]]]
                                              THEN secondaries[i] \ {name[cur[t]]} ELSE secondaries[i]
         /\ UNCHANGED <<dbVars, secLock, registered, triggered, closed, otherVars>>
<1>1. Returns(t)
  BY DEF DropUnlink, DropReturn, TypeOK, Goto, Local, Returns
<1>2. /\ secondaries \in [Inst -> SUBSET Name]
      /\ secondaries' = [secondaries EXCEPT ![clients[primary_name[cur[t]]]] = @ \ {name[cur[t]]}]
  BY DEF DropUnlink, TypeOK
<1>3. \A i \in Inst : secondaries'[i] = IF i = clients[primary_name[cur[t]]]
                                        THEN secondaries[i] \ {name[cur[t]]} ELSE secondaries[i]
  BY <1>2
<1> QED BY <1>1, <1>3 DEF DropUnlink, dbVars, otherVars

LEMMA AnnounceUnregStep ==
  ASSUME TypeOK, NEW t \in Inst, AnnounceUnreg(t)
  PROVE  /\ pc[t] = "ann_unreg" /\ Room /\ Moves(t, "u_end")
         /\ unregs'[cur[t]] = unregs[cur[t]] + 1
         /\ \A i \in Inst : i # cur[t] => unregs'[i] = unregs[i]
         /\ ~Publishing /\ rpcLock = t /\ rpcLock' = None
         /\ UNCHANGED <<dbVars, lockVars, instVars, listing, cut>>
BY DEF AnnounceUnreg, AnnounceUnlock, TypeOK, Goto, Local, Goes, Moves, dbVars, lockVars, instVars, otherVars

LEMMA UnregisterEndStep ==
  ASSUME TypeOK, NEW t \in Inst, UnregisterEnd(t)
  PROVE  /\ pc[t] = "u_end" /\ Local(t) /\ cur'[t] = t /\ ~was'[t]
         /\ pc'[t] = IF cont[t] = "finish" THEN "done" ELSE "run"
         /\ parent'[t] = parent[t] /\ todo'[t] = todo[t] /\ cont'[t] = cont[t]
         /\ cont[t] = "evict" => closed'[cur[t]]
         /\ \A i \in Inst : closed[i] => closed'[i]
         /\ UNCHANGED <<dbVars, lockVars, registered, secondaries, triggered, otherVars>>
BY DEF UnregisterEnd, Forget, TypeOK, Goto, Local, dbVars, lockVars, instVars, otherVars

LEMMA RespondOkStep ==
  ASSUME TypeOK, NEW t \in Inst, RespondOk(t)
  PROVE  /\ pc[t] = "resp" /\ Room /\ Moves(t, "run")
         /\ UNCHANGED <<dbVars, lockVars, instVars, otherVars>>
BY DEF RespondOk, TypeOK, Goto, Local, Goes, Moves, dbVars, lockVars, instVars, otherVars

LEMMA RespondFailStep ==
  ASSUME TypeOK, NEW t \in Inst, RespondFail(t)
  PROVE  /\ pc[t] = "resp" /\ Room /\ Moves(t, "zombie")
         /\ UNCHANGED <<dbVars, lockVars, instVars, otherVars>>
BY DEF RespondFail, TypeOK, Goto, Local, Goes, Moves, dbVars, lockVars, instVars, otherVars

LEMMA DisconnectStep ==
  ASSUME TypeOK, NEW t \in Inst, Disconnect(t)
  PROVE  /\ t \notin Internal /\ pc[t] \in {"run", "sending", "ann_unreg"}
         /\ pc[t] = "ann_unreg" => cont[t] = "evict"
         /\ Core # None /\ rpcLock = t => pc[Core] \notin Section
         /\ rpcLock' = IF rpcLock = t THEN None ELSE rpcLock
         /\ \A i \in Inst : cut'[i] <=> (cut[i] \/ i \in GivenUp(t))
         /\ pc[t] = "ann_unreg" => cut'[cur[t]]
         /\ Calls(t, t, "finish")
         /\ UNCHANGED <<dbVars, lockVars, instVars, listing, unregs>>
BY DEF Disconnect, CallUnregister, Evicting, GivenUp, TypeOK, Goto, Local, Calls, dbVars, lockVars, instVars, otherVars

LEMMA PublishDroppedStep ==
  ASSUME TypeOK, NEW t \in Inst, SendEnd(t), PublishDropped(t)
  PROVE  /\ t = Core /\ rpcLock = None
         /\ pc[t] = "ann_unreg" /\ cont[t] = "evict" /\ Room /\ pc'[t] = "run" /\ Local(t)
         /\ cur'[t] = t /\ ~was'[t]
         /\ parent'[t] = parent[t] /\ todo'[t] = todo[t] /\ cont'[t] = cont[t]
         /\ UNCHANGED <<dbVars, lockVars, instVars, otherVars>>
BY DEF SendEnd, PublishDropped, Evicting, Forget, TypeOK, Goto, Local, dbVars, lockVars, instVars, otherVars

LEMMA AnnounceLockStep ==
  ASSUME TypeOK, NEW t \in Inst, AnnounceLock(t)
  PROVE  /\ ~Publishing /\ rpcLock = None /\ rpcLock' = t
         /\ UNCHANGED <<dbVars, lockVars, instVars, taskVars, listing, unregs, cut>>
BY DEF AnnounceLock

LEMMA BrokerUnregisterStep ==
  ASSUME TypeOK, NEW t \in Inst, BrokerUnregister(t)
  PROVE  /\ t \in Internal \ {Core} /\ pc[t] = "run" /\ Calls(t, t, "api")
         /\ UNCHANGED <<dbVars, lockVars, instVars, otherVars>>
BY DEF BrokerUnregister, CallUnregister, TypeOK, Goto, Local, Calls, dbVars, lockVars, instVars, otherVars

LEMMA ClientDropStep ==
  ASSUME TypeOK, NEW t \in Inst, ClientDrop(t)
  PROVE  /\ t \in Internal \ {Core} /\ pc[t] = "run" /\ pc'[t] = "d_load" /\ Enter(t) /\ Local(t)
         /\ cur'[t] = t /\ cont'[t] = "drop"
         /\ parent'[t] = parent[t] /\ todo'[t] = todo[t] /\ was'[t] = was[t]
         /\ UNCHANGED <<dbVars, lockVars, instVars, otherVars>>
BY DEF ClientDrop, TypeOK, Goto, Local, dbVars, lockVars, instVars, otherVars

LEMMA ClientUnregisterStep ==
  ASSUME TypeOK, NEW t \in Inst, ClientUnregister(t)
  PROVE  /\ t \in Internal \ {Core} /\ pc[t] = "run" /\ pc'[t] = "d_load" /\ Enter(t) /\ Local(t)
         /\ cur'[t] = t /\ cont'[t] = "api" /\ ~was'[t]
         /\ parent'[t] = parent[t] /\ todo'[t] = todo[t]
         /\ ~registered'[t] /\ \A i \in Inst : i # t => registered'[i] = registered[i]
         /\ UNCHANGED <<dbVars, lockVars, secondaries, triggered, closed, otherVars>>
BY CoreAssumption DEF ClientUnregister, TypeOK, Goto, Local, dbVars, lockVars, instVars, otherVars

LEMMA LookupStep ==
  ASSUME TypeOK, NEW t \in Inst, Lookup(t)
  PROVE  /\ pc[t] = "run" /\ Room /\ pc'[t] = "sending" /\ Local(t)
         /\ cur'[t] \in Inst \ Internal
         /\ parent'[t] = parent[t] /\ todo'[t] = todo[t] /\ was'[t] = was[t] /\ cont'[t] = cont[t]
         /\ UNCHANGED <<dbVars, lockVars, instVars, otherVars>>
BY ReachType DEF Lookup, TypeOK, Goto, Local, dbVars, lockVars, instVars, otherVars

LEMMA SendEndStep ==
  ASSUME TypeOK, NEW t \in Inst, SendEnd(t), pc[t] = "sending"
  PROVE  /\ pc[t] = "sending" /\ Room /\ pc'[t] = "run" /\ Local(t)
         /\ cur'[t] = t /\ ~was'[t]
         /\ parent'[t] = parent[t] /\ todo'[t] = todo[t] /\ cont'[t] = cont[t]
         /\ UNCHANGED <<dbVars, lockVars, instVars, otherVars>>
BY DEF SendEnd, Forget, TypeOK, Goto, Local, dbVars, lockVars, instVars, otherVars

LEMMA EvictStep ==
  ASSUME TypeOK, NEW t \in Inst, Evict(t)
  PROVE  /\ pc[t] = "sending" /\ MaySend(t) /\ Calls(t, cur[t], "evict")
         /\ UNCHANGED <<dbVars, lockVars, instVars, otherVars>>
BY DEF Evict, CallUnregister, TypeOK, Goto, Local, Calls, dbVars, lockVars, instVars, otherVars


-----------------------------------------------------------------------------
(* A client whose owner is gone.  This holds for any number of workers, as *)
(* long as no owner clears the flag itself (Client::unregister).           *)

\* A listed client is registered, or a task is about to remove it.
ListedInv ==
  \A n \in Name : clients[n] # None =>
    \/ registered[clients[n]]
    \/ \E u \in Inst : cur[u] = clients[n] /\ pc[u] \in {"d_subs", "d_bcast", "d_clients"}

\* A client that broadcasts reach is registered, or is being inserted, or a
\* task is about to remove it.
ReachedInv ==
  \A n \in Name : broadcasts[n] # None =>
    /\ name[broadcasts[n]] = n
    /\ \/ registered[broadcasts[n]]
       \/ pc[broadcasts[n]] \in {"ins_sub", "ins_end"}
       \/ \E u \in Inst : cur[u] = broadcasts[n] /\ pc[u] \in {"d_subs", "d_bcast"}

\* The owner drops its own client for good, or has done so.
Leaving(u) == cont[u] \in {"finish", "drop"}

\* The client that the outermost call of drop_client is about.
Outer(u) == IF parent[u] = None THEN cur[u] ELSE parent[u]

\* An owner that leaves, and is past the flag of its client, has left it
\* unregistered.
Leave(u) ==
  /\ cont[u] = "finish" => pc[u] \in DropPc \cup {"ann_unreg", "u_end", "done"}
  /\ cont[u] = "drop" => pc[u] \in DropPc \cup {"done"}
  /\ Leaving(u) /\ pc[u] \in DropPc => Outer(u) = u
  /\ Leaving(u) /\ (pc[u] \notin {"d_load", "d_store"} \/ parent[u] # None) => ~registered[u]
  /\ pc[u] = "done" => ~registered[u]
LeaveInv == \A u \in Inst : Leave(u)

GoneInv == ListedInv /\ ReachedInv /\ LeaveInv

\* A step of t leaves what holds of the other owners.
LEMMA LeaveKept ==
  ASSUME LeaveInv, NEW t \in Inst, Local(t),
         \A i \in Inst : i # t /\ registered'[i] => registered[i], Leave(t)'
  PROVE  LeaveInv'
<1> SUFFICES ASSUME NEW u \in Inst, u # t PROVE Leave(u)'
  BY DEF LeaveInv
<1>1. /\ pc'[u] = pc[u] /\ cur'[u] = cur[u] /\ parent'[u] = parent[u] /\ cont'[u] = cont[u]
      /\ registered'[u] => registered[u]
  BY DEF Local
<1> QED BY <1>1 DEF LeaveInv, Leave, Leaving, Outer

\* A step that changes neither broadcasts nor a flag, of a task that is not
\* about to.
LEMMA ReachedKept ==
  ASSUME TypeOK, ReachedInv, NEW t \in Inst, Local(t), UNCHANGED <<broadcasts, registered>>,
         pc[t] \notin {"ins_sub", "ins_end", "d_subs", "d_bcast"}
  PROVE  ReachedInv'
<1>0. broadcasts \in [Name -> Inst \cup {None}]
  BY DEF TypeOK
<1> QED BY <1>0 DEF ReachedInv, Local

\* A step that changes no entry and no flag, and is not one of those that
\* are about to.
LEMMA CalmGone ==
  ASSUME TypeOK, GoneInv, NEW t \in Inst, Local(t), UNCHANGED <<clients, broadcasts, registered>>,
         pc[t] \notin {"ins_sub", "ins_end", "d_subs", "d_bcast", "d_clients"}, Leave(t)'
  PROVE  GoneInv'
<1>0. clients \in [Name -> Inst \cup {None}]
  BY DEF TypeOK
<1>1. ListedInv'
  BY <1>0 DEF GoneInv, ListedInv, Local
<1>2. ReachedInv'
  BY ReachedKept DEF GoneInv
<1>3. LeaveInv'
  BY LeaveKept DEF GoneInv
<1> QED BY <1>1, <1>2, <1>3 DEF GoneInv

LEMMA InsertGone ==
  ASSUME TypeOK, LockInv, GoneInv, MayUnregister = {}, NEW t \in Inst, Insert(t)
  PROVE  GoneInv'
<1>0. /\ clients \in [Name -> Inst \cup {None}] /\ broadcasts \in [Name -> Inst \cup {None}]
      /\ cur \in [Inst -> Inst] /\ parent \in [Inst -> Inst \cup {None}]
      /\ ListedInv /\ ReachedInv /\ LeaveInv /\ Leave(t)
  BY DEF TypeOK, GoneInv, LeaveInv
<1>b. /\ \A n \in Name : clients[n] # None => Born(clients[n]) /\ name[clients[n]] = n
      /\ \A i \in Inst : registered[i] => Born(i)
      /\ parent[t] # None => pc[t] \in DropPc
  BY DEF LockInv, BornInv, NestInv
<1>1. CASE InsertNoPrimary(t)
  <2>1. Leave(t)'
    BY <1>1, <1>0, <1>b, InsertNoPrimaryStep DEF Moves, Goes, Local, dbVars, lockVars, instVars, otherVars, Leave, Leaving, Outer, Born, DropPc, InsertLocked
  <2> QED BY <1>1, <1>0, <2>1, InsertNoPrimaryStep, CalmGone DEF Moves, Goes, dbVars, lockVars, instVars, otherVars
<1>2. CASE InsertBusy(t)
  <2>1. Leave(t)'
    BY <1>2, <1>0, <1>b, InsertBusyStep DEF Moves, Goes, Local, dbVars, lockVars, instVars, otherVars, Leave, Leaving, Outer, Born, DropPc, InsertLocked
  <2> QED BY <1>2, <1>0, <2>1, InsertBusyStep, CalmGone DEF Moves, Goes, dbVars, lockVars, instVars, otherVars
<1>3. CASE InsertLock(t)
  <2>1. Leave(t)'
    BY <1>3, <1>0, <1>b, InsertLockStep DEF Moves, Goes, Local, dbVars, instVars, otherVars, Leave, Leaving, Outer, Born, DropPc, InsertLocked
  <2> QED BY <1>3, <1>0, <2>1, InsertLockStep, CalmGone DEF Moves, Goes, dbVars, instVars, otherVars
<1>4. CASE InsertSecondary(t)
  <2>1. Leave(t)'
    BY <1>4, <1>0, <1>b, InsertSecondaryStep DEF Moves, Goes, Local, dbVars, lockVars, otherVars, Leave, Leaving, Outer, Born, DropPc, InsertLocked
  <2> QED BY <1>4, <1>0, <2>1, InsertSecondaryStep, CalmGone DEF Moves, Goes, dbVars, lockVars, otherVars
<1>5. CASE InsertBroadcast(t)
  <2>1. Leave(t)'
    BY <1>5, <1>0, <1>b, InsertBroadcastStep DEF Moves, Goes, Local, lockVars, instVars, otherVars, Leave, Leaving, Outer, Born, DropPc, InsertLocked
  <2>2. LeaveInv' BY <1>5, <1>0, <2>1, InsertBroadcastStep, LeaveKept DEF Moves, Goes, lockVars, instVars, otherVars
  <2>3. ListedInv' BY <1>5, <1>0, <1>b, InsertBroadcastStep DEF Moves, Goes, Local, lockVars, instVars, otherVars, ListedInv
  <2>a. /\ pc[t] = "ins_bc" /\ pc'[t] = "ins_sub" /\ Local(t)
        /\ registered' = registered
        /\ \A n \in Name : broadcasts'[n] = IF n = name[t] /\ broadcasts[n] = None
                                            THEN t ELSE broadcasts[n]
    BY <1>5, InsertBroadcastStep DEF Moves, Goes, instVars
  <2>4. ReachedInv'
    <3> SUFFICES ASSUME NEW n \in Name, broadcasts'[n] # None
                 PROVE  /\ name[broadcasts'[n]] = n
                        /\ \/ registered'[broadcasts'[n]]
                           \/ pc'[broadcasts'[n]] \in {"ins_sub", "ins_end"}
                           \/ \E u \in Inst : cur'[u] = broadcasts'[n] /\ pc'[u] \in {"d_subs", "d_bcast"}
      BY DEF ReachedInv
    <3>1. CASE n = name[t] /\ broadcasts[n] = None
      BY <2>a, <3>1
    <3>2. CASE ~(n = name[t] /\ broadcasts[n] = None)
      <4>1. broadcasts'[n] = broadcasts[n] /\ broadcasts[n] \in Inst BY <1>0, <2>a, <3>2
      <4>2. \A u \in Inst : pc[u] \in {"d_subs", "d_bcast"} =>
              u # t /\ cur'[u] = cur[u] /\ pc'[u] = pc[u]
        BY <2>a DEF Local
      <4>3. pc[broadcasts[n]] \in {"ins_sub", "ins_end"} => pc'[broadcasts[n]] = pc[broadcasts[n]]
        BY <2>a, <4>1 DEF Local
      <4> QED BY <1>0, <2>a, <4>1, <4>2, <4>3 DEF ReachedInv
    <3> QED BY <3>1, <3>2
  <2> QED BY <2>2, <2>3, <2>4 DEF GoneInv
<1>6. CASE InsertSubscriptions(t)
  <2>1. Leave(t)'
    BY <1>6, <1>0, <1>b, InsertSubscriptionsStep DEF Moves, Goes, Local, lockVars, instVars, otherVars, Leave, Leaving, Outer, Born, DropPc, InsertLocked
  <2>2. LeaveInv' BY <1>6, <1>0, <2>1, InsertSubscriptionsStep, LeaveKept DEF Moves, Goes, lockVars, instVars, otherVars
  <2>3. ListedInv' BY <1>6, <1>0, <1>b, InsertSubscriptionsStep DEF Moves, Goes, Local, lockVars, instVars, otherVars, ListedInv
  <2>4. ReachedInv' BY <1>6, <1>0, InsertSubscriptionsStep DEF Moves, Goes, Local, lockVars, instVars, otherVars, ReachedInv
  <2> QED BY <2>2, <2>3, <2>4 DEF GoneInv
<1>7. CASE InsertEnd(t)
  <2>1. Leave(t)'
    BY <1>7, <1>0, <1>b, InsertEndStep DEF Goes, Local, otherVars, Leave, Leaving, Outer, Born, DropPc, InsertLocked
  <2>2. LeaveInv' BY <1>7, <1>0, <2>1, InsertEndStep, LeaveKept DEF Goes, otherVars
  <2>a. /\ Local(t) /\ pc[t] = "ins_end" /\ registered'[t]
        /\ \A i \in Inst : i # t => registered'[i] = registered[i]
        /\ \A n \in Name : clients'[n] = IF n = name[t] THEN t ELSE clients[n]
    BY <1>7, InsertEndStep DEF Goes
  <2>b. ASSUME NEW n \in Name, clients'[n] # None, ~registered'[clients'[n]]
        PROVE  \E u \in Inst : cur'[u] = clients'[n] /\ pc'[u] \in {"d_subs", "d_bcast", "d_clients"}
    <3>1. clients'[n] = clients[n] /\ clients[n] \in Inst \ {t} /\ ~registered[clients[n]]
      BY <2>a, <2>b, <1>0
    <3>2. PICK u \in Inst : cur[u] = clients[n] /\ pc[u] \in {"d_subs", "d_bcast", "d_clients"}
      BY <3>1, <1>0 DEF ListedInv
    <3> QED BY <2>a, <3>1, <3>2 DEF Local
  <2>3. ListedInv' BY <2>b DEF ListedInv
  <2>4. ReachedInv' BY <1>7, <1>0, InsertEndStep DEF Goes, Local, otherVars, ReachedInv
  <2> QED BY <2>2, <2>3, <2>4 DEF GoneInv
<1>8. CASE AnnounceReg(t)
  <2>1. Leave(t)'
    BY <1>8, <1>0, <1>b, AnnounceRegStep DEF Goes, Local, dbVars, lockVars, instVars, otherVars, Leave, Leaving, Outer, Born, DropPc, InsertLocked
  <2> QED BY <1>8, <1>0, <2>1, AnnounceRegStep, CalmGone DEF Goes, dbVars, lockVars, instVars, otherVars
<1>9. CASE ForceRemove(t)
  <2>1. Leave(t)'
    BY <1>9, <1>0, <1>b, ForceRemoveStep DEF Local, lockVars, instVars, otherVars, Leave, Leaving, Outer, Born, DropPc, InsertLocked
  <2>2. LeaveInv' BY <1>9, <1>0, <2>1, ForceRemoveStep, LeaveKept DEF Local, lockVars, instVars, otherVars
  <2>3. ListedInv' BY <1>9, <1>0, <1>b, ForceRemoveStep DEF Local, lockVars, instVars, otherVars, ListedInv
  <2>4. ReachedInv' BY <1>9, <1>0, ForceRemoveStep DEF Local, lockVars, instVars, otherVars, ReachedInv
  <2> QED BY <2>2, <2>3, <2>4 DEF GoneInv
<1>10. CASE ForceVacant(t)
  <2>1. Leave(t)'
    BY <1>10, <1>0, <1>b, ForceVacantStep DEF Moves, Goes, Local, dbVars, lockVars, instVars, otherVars, Leave, Leaving, Outer, Born, DropPc, InsertLocked
  <2> QED BY <1>10, <1>0, <2>1, ForceVacantStep, CalmGone DEF Moves, Goes, dbVars, lockVars, instVars, otherVars
<1>11. CASE ForceTrigger(t)
  <2>1. Leave(t)'
    BY <1>11, <1>0, <1>b, ForceTriggerStep DEF Local, dbVars, lockVars, otherVars, Leave, Leaving, Outer, Born, DropPc, InsertLocked
  <2> QED BY <1>11, <1>0, <2>1, ForceTriggerStep, CalmGone DEF Local, dbVars, lockVars, otherVars
<1> QED BY <1>1, <1>2, <1>3, <1>4, <1>5, <1>6, <1>7, <1>8, <1>9, <1>10, <1>11 DEF Insert

LEMMA DropGone ==
  ASSUME TypeOK, LockInv, GoneInv, MayUnregister = {}, NEW t \in Inst, Drop(t)
  PROVE  GoneInv'
<1>0. /\ clients \in [Name -> Inst \cup {None}] /\ broadcasts \in [Name -> Inst \cup {None}]
      /\ cur \in [Inst -> Inst] /\ parent \in [Inst -> Inst \cup {None}]
      /\ ListedInv /\ ReachedInv /\ LeaveInv /\ Leave(t)
  BY DEF TypeOK, GoneInv, LeaveInv
<1>b. /\ \A n \in Name : clients[n] # None => Born(clients[n]) /\ name[clients[n]] = n
      /\ \A i \in Inst : registered[i] => Born(i)
      /\ parent[t] # None => pc[t] \in DropPc
      /\ pc[t] = "d_loop" => parent[t] = None
  BY DEF LockInv, BornInv, NestInv
<1>1. CASE DropLoad(t)
  <2>1. Leave(t)'
    BY <1>1, <1>0, <1>b, DropLoadStep DEF Moves, Goes, Local, dbVars, lockVars, instVars, otherVars, Leave, Leaving, Outer, Born, DropPc, InsertLocked
  <2> QED BY <1>1, <1>0, <2>1, DropLoadStep, CalmGone DEF Moves, Goes, dbVars, lockVars, instVars, otherVars
<1>2. CASE DropNotRegistered(t)
  <2>1. Leave(t)'
    BY <1>2, <1>0, <1>b, DropNotRegisteredStep DEF Returns, Local, AfterDrop, dbVars, lockVars, instVars, otherVars, Leave, Leaving, Outer, Born, DropPc, InsertLocked
  <2> QED BY <1>2, <1>0, <2>1, DropNotRegisteredStep, CalmGone DEF Returns, dbVars, lockVars, instVars, otherVars
<1>3. CASE DropStore(t)
  <2>1. Leave(t)'
    BY <1>3, <1>0, <1>b, DropStoreStep DEF Moves, Goes, Local, dbVars, lockVars, otherVars, Leave, Leaving, Outer, Born, DropPc, InsertLocked
  <2>2. LeaveInv' BY <1>3, <1>0, <2>1, DropStoreStep, LeaveKept DEF Moves, Goes, dbVars, lockVars, otherVars
  <2>a. /\ pc[t] = "d_store" /\ pc'[t] = "d_subs" /\ cur'[t] = cur[t] /\ Local(t) /\ clients' = clients
        /\ \A i \in Inst : i # cur[t] => registered'[i] = registered[i]
    BY <1>3, DropStoreStep DEF Moves, Goes, dbVars, lockVars, otherVars
  <2>3. ASSUME NEW n \in Name, clients[n] # None, ~registered'[clients[n]]
        PROVE  \E u \in Inst : cur'[u] = clients[n] /\ pc'[u] \in {"d_subs", "d_bcast", "d_clients"}
    <3>1. CASE cur[t] = clients[n]
      BY <2>a, <3>1
    <3>2. CASE cur[t] # clients[n]
      <4>1. PICK u \in Inst : cur[u] = clients[n] /\ pc[u] \in {"d_subs", "d_bcast", "d_clients"}
        BY <2>a, <2>3, <3>2, <1>0 DEF ListedInv
      <4> QED BY <2>a, <3>2, <4>1 DEF Local
    <3> QED BY <3>1, <3>2
  <2>4. ReachedInv' BY <1>3, <1>0, DropStoreStep DEF Moves, Goes, Local, dbVars, lockVars, otherVars, ReachedInv
  <2>5. ListedInv' BY <2>3, <2>a DEF ListedInv
  <2> QED BY <2>2, <2>4, <2>5 DEF GoneInv
<1>4. CASE DropSubscriptions(t)
  <2>1. Leave(t)'
    BY <1>4, <1>0, <1>b, DropSubscriptionsStep DEF Moves, Goes, Local, lockVars, instVars, otherVars, Leave, Leaving, Outer, Born, DropPc, InsertLocked
  <2>2. LeaveInv' BY <1>4, <1>0, <2>1, DropSubscriptionsStep, LeaveKept DEF Moves, Goes, lockVars, instVars, otherVars
  <2>3. ListedInv' BY <1>4, <1>0, <1>b, DropSubscriptionsStep DEF Moves, Goes, Local, lockVars, instVars, otherVars, ListedInv
  <2>4. ReachedInv' BY <1>4, <1>0, DropSubscriptionsStep DEF Moves, Goes, Local, lockVars, instVars, otherVars, ReachedInv
  <2> QED BY <2>2, <2>3, <2>4 DEF GoneInv
<1>5. CASE DropBroadcast(t)
  <2>1. Leave(t)'
    BY <1>5, <1>0, <1>b, DropBroadcastStep DEF Moves, Goes, Local, lockVars, instVars, otherVars, Leave, Leaving, Outer, Born, DropPc, InsertLocked
  <2>2. LeaveInv' BY <1>5, <1>0, <2>1, DropBroadcastStep, LeaveKept DEF Moves, Goes, lockVars, instVars, otherVars
  <2>a. /\ pc[t] = "d_bcast" /\ pc'[t] = "d_clients" /\ cur'[t] = cur[t] /\ Local(t) /\ clients' = clients
        /\ \A i \in Inst : i # cur[t] => registered'[i] = registered[i]
    BY <1>5, DropBroadcastStep DEF Moves, Goes, lockVars, instVars, otherVars
  <2>3. ASSUME NEW n \in Name, clients[n] # None, ~registered'[clients[n]]
        PROVE  \E u \in Inst : cur'[u] = clients[n] /\ pc'[u] \in {"d_subs", "d_bcast", "d_clients"}
    <3>1. CASE cur[t] = clients[n]
      BY <2>a, <3>1
    <3>2. CASE cur[t] # clients[n]
      <4>1. PICK u \in Inst : cur[u] = clients[n] /\ pc[u] \in {"d_subs", "d_bcast", "d_clients"}
        BY <2>a, <2>3, <3>2, <1>0 DEF ListedInv
      <4> QED BY <2>a, <3>2, <4>1 DEF Local
    <3> QED BY <3>1, <3>2
  <2>b. /\ registered' = registered
        /\ \A n \in Name : broadcasts'[n] = IF n = name[cur[t]] THEN None ELSE broadcasts[n]
    BY <1>5, DropBroadcastStep DEF instVars
  <2>c. ASSUME NEW n \in Name, broadcasts'[n] # None
        PROVE  /\ name[broadcasts'[n]] = n
               /\ \/ registered[broadcasts'[n]]
                  \/ pc'[broadcasts'[n]] \in {"ins_sub", "ins_end"}
                  \/ \E u \in Inst : cur'[u] = broadcasts'[n] /\ pc'[u] \in {"d_subs", "d_bcast"}
    <3>1. /\ broadcasts'[n] = broadcasts[n] /\ broadcasts[n] \in Inst
          /\ name[broadcasts[n]] = n /\ cur[t] # broadcasts[n]
      BY <2>b, <2>c, <1>0 DEF ReachedInv
    <3>2. CASE registered[broadcasts[n]]
      BY <3>1, <3>2
    <3>3. CASE pc[broadcasts[n]] \in {"ins_sub", "ins_end"}
      BY <2>a, <3>1, <3>3 DEF Local
    <3>4. CASE \E u \in Inst : cur[u] = broadcasts[n] /\ pc[u] \in {"d_subs", "d_bcast"}
      BY <2>a, <3>1, <3>4 DEF Local
    <3> QED BY <2>b, <2>c, <3>1, <3>2, <3>3, <3>4, <1>0 DEF ReachedInv
  <2>4. ReachedInv' BY <2>b, <2>c DEF ReachedInv
  <2>5. ListedInv' BY <2>3, <2>a DEF ListedInv
  <2> QED BY <2>2, <2>4, <2>5 DEF GoneInv
<1>6. CASE DropClients(t)
  <2>1. Leave(t)'
    BY <1>6, <1>0, <1>b, DropClientsStep DEF Moves, Goes, Local, lockVars, instVars, otherVars, Leave, Leaving, Outer, Born, DropPc, InsertLocked
  <2>2. LeaveInv' BY <1>6, <1>0, <2>1, DropClientsStep, LeaveKept DEF Moves, Goes, lockVars, instVars, otherVars
  <2>a. /\ Local(t) /\ registered' = registered
        /\ \A n \in Name : clients'[n] = IF n = name[cur[t]] THEN None ELSE clients[n]
    BY <1>6, DropClientsStep DEF Moves, Goes, instVars
  <2>3. ASSUME NEW n \in Name, clients'[n] # None, ~registered[clients'[n]]
        PROVE  \E u \in Inst : cur'[u] = clients'[n] /\ pc'[u] \in {"d_subs", "d_bcast", "d_clients"}
    <3>1. clients'[n] = clients[n] /\ cur[t] # clients[n]
      BY <2>a, <2>3, <1>b
    <3>2. PICK u \in Inst : cur[u] = clients[n] /\ pc[u] \in {"d_subs", "d_bcast", "d_clients"}
      BY <2>a, <2>3, <3>1, <1>0 DEF ListedInv
    <3> QED BY <2>a, <3>1, <3>2 DEF Local
  <2>4. ReachedInv' BY <1>6, <1>0, DropClientsStep, ReachedKept DEF Moves, Goes, instVars
  <2>5. ListedInv' BY <2>3, <2>a DEF ListedInv
  <2> QED BY <2>2, <2>4, <2>5 DEF GoneInv
<1>7. CASE DropLockSecondaries(t)
  <2>1. Leave(t)'
    BY <1>7, <1>0, <1>b, DropLockSecondariesStep DEF Local, dbVars, instVars, otherVars, Leave, Leaving, Outer, Born, DropPc, InsertLocked
  <2> QED BY <1>7, <1>0, <2>1, DropLockSecondariesStep, CalmGone DEF Local, dbVars, instVars, otherVars
<1>8. CASE DropNextSecondary(t)
  <2>1. Leave(t)'
    BY <1>8, <1>0, <1>b, DropNextSecondaryStep DEF Local, dbVars, lockVars, otherVars, Leave, Leaving, Outer, Born, DropPc, InsertLocked
  <2> QED BY <1>8, <1>0, <2>1, DropNextSecondaryStep, CalmGone DEF Local, dbVars, lockVars, otherVars
<1>9. CASE DropMissingSecondary(t)
  <2>1. Leave(t)'
    BY <1>9, <1>0, <1>b, DropMissingSecondaryStep DEF Local, dbVars, lockVars, instVars, otherVars, Leave, Leaving, Outer, Born, DropPc, InsertLocked
  <2> QED BY <1>9, <1>0, <2>1, DropMissingSecondaryStep, CalmGone DEF Local, dbVars, lockVars, instVars, otherVars
<1>10. CASE DropSecondariesEnd(t)
  <2>1. Leave(t)'
    BY <1>10, <1>0, <1>b, DropSecondariesEndStep DEF Returns, Local, AfterDrop, dbVars, otherVars, Leave, Leaving, Outer, Born, DropPc, InsertLocked
  <2> QED BY <1>10, <1>0, <2>1, DropSecondariesEndStep, CalmGone DEF Returns, dbVars, otherVars
<1>11. CASE DropUnlinkLock(t)
  <2>1. Leave(t)'
    BY <1>11, <1>0, <1>b, DropUnlinkLockStep DEF Moves, Goes, Local, dbVars, instVars, otherVars, Leave, Leaving, Outer, Born, DropPc, InsertLocked
  <2> QED BY <1>11, <1>0, <2>1, DropUnlinkLockStep, CalmGone DEF Moves, Goes, dbVars, instVars, otherVars
<1>12. CASE DropNoPrimary(t)
  <2>1. Leave(t)'
    BY <1>12, <1>0, <1>b, DropNoPrimaryStep DEF Returns, Local, AfterDrop, dbVars, lockVars, instVars, otherVars, Leave, Leaving, Outer, Born, DropPc, InsertLocked
  <2> QED BY <1>12, <1>0, <2>1, DropNoPrimaryStep, CalmGone DEF Returns, dbVars, lockVars, instVars, otherVars
<1>13. CASE DropUnlink(t)
  <2>1. Leave(t)'
    BY <1>13, <1>0, <1>b, DropUnlinkStep DEF Returns, Local, AfterDrop, dbVars, otherVars, Leave, Leaving, Outer, Born, DropPc, InsertLocked
  <2> QED BY <1>13, <1>0, <2>1, DropUnlinkStep, CalmGone DEF Returns, dbVars, otherVars
<1>14. CASE AnnounceUnreg(t)
  <2>1. Leave(t)'
    BY <1>14, <1>0, <1>b, AnnounceUnregStep DEF Moves, Goes, Local, dbVars, lockVars, instVars, Leave, Leaving, Outer, Born, DropPc, InsertLocked
  <2> QED BY <1>14, <1>0, <2>1, AnnounceUnregStep, CalmGone DEF Moves, Goes, dbVars, lockVars, instVars
<1>15. CASE UnregisterEnd(t)
  <2>1. Leave(t)'
    BY <1>15, <1>0, <1>b, UnregisterEndStep DEF Local, dbVars, lockVars, otherVars, Leave, Leaving, Outer, Born, DropPc, InsertLocked
  <2> QED BY <1>15, <1>0, <2>1, UnregisterEndStep, CalmGone DEF Local, dbVars, lockVars, otherVars
<1> QED BY <1>1, <1>2, <1>3, <1>4, <1>5, <1>6, <1>7, <1>8, <1>9, <1>10, <1>11, <1>12, <1>13, <1>14, <1>15 DEF Drop

LEMMA OwnerGone ==
  ASSUME TypeOK, LockInv, GoneInv, MayUnregister = {}, NEW t \in Inst, Owner(t)
  PROVE  GoneInv'
<1>0. /\ clients \in [Name -> Inst \cup {None}] /\ broadcasts \in [Name -> Inst \cup {None}]
      /\ cur \in [Inst -> Inst] /\ parent \in [Inst -> Inst \cup {None}]
      /\ ListedInv /\ ReachedInv /\ LeaveInv /\ Leave(t)
  BY DEF TypeOK, GoneInv, LeaveInv
<1>b. /\ \A n \in Name : clients[n] # None => Born(clients[n]) /\ name[clients[n]] = n
      /\ \A i \in Inst : registered[i] => Born(i)
      /\ parent[t] # None => pc[t] \in DropPc
  BY DEF LockInv, BornInv, NestInv
<1>1. CASE RespondOk(t)
  <2>1. Leave(t)'
    BY <1>1, <1>0, <1>b, RespondOkStep DEF Moves, Goes, Local, dbVars, lockVars, instVars, otherVars, Leave, Leaving, Outer, Born, DropPc, InsertLocked
  <2> QED BY <1>1, <1>0, <2>1, RespondOkStep, CalmGone DEF Moves, Goes, dbVars, lockVars, instVars, otherVars
<1>2. CASE RespondFail(t)
  <2>1. Leave(t)'
    BY <1>2, <1>0, <1>b, RespondFailStep DEF Moves, Goes, Local, dbVars, lockVars, instVars, otherVars, Leave, Leaving, Outer, Born, DropPc, InsertLocked
  <2> QED BY <1>2, <1>0, <2>1, RespondFailStep, CalmGone DEF Moves, Goes, dbVars, lockVars, instVars, otherVars
<1>3. CASE Disconnect(t)
  <2>1. Leave(t)'
    BY <1>3, <1>0, <1>b, DisconnectStep DEF Calls, Local, dbVars, lockVars, instVars, Leave, Leaving, Outer, Born, DropPc, InsertLocked
  <2> QED BY <1>3, <1>0, <2>1, DisconnectStep, CalmGone DEF Calls, dbVars, lockVars, instVars
<1>4. CASE BrokerUnregister(t)
  <2>1. Leave(t)'
    BY <1>4, <1>0, <1>b, BrokerUnregisterStep DEF Calls, Local, dbVars, lockVars, instVars, otherVars, Leave, Leaving, Outer, Born, DropPc, InsertLocked
  <2> QED BY <1>4, <1>0, <2>1, BrokerUnregisterStep, CalmGone DEF Calls, dbVars, lockVars, instVars, otherVars
<1>5. CASE ClientUnregister(t)
  BY <1>5 DEF ClientUnregister
<1>6. CASE ClientDrop(t)
  <2>1. Leave(t)'
    BY <1>6, <1>0, <1>b, ClientDropStep DEF Local, dbVars, lockVars, instVars, otherVars, Leave, Leaving, Outer, Born, DropPc, InsertLocked
  <2> QED BY <1>6, <1>0, <2>1, ClientDropStep, CalmGone DEF Local, dbVars, lockVars, instVars, otherVars
<1>7. CASE Lookup(t)
  <2>1. Leave(t)'
    BY <1>7, <1>0, <1>b, LookupStep DEF Local, dbVars, lockVars, instVars, otherVars, Leave, Leaving, Outer, Born, DropPc, InsertLocked
  <2> QED BY <1>7, <1>0, <2>1, LookupStep, CalmGone DEF Local, dbVars, lockVars, instVars, otherVars
<1>8. CASE SendEnd(t) /\ pc[t] = "sending"
  <2>1. Leave(t)'
    BY <1>8, <1>0, <1>b, SendEndStep DEF Local, dbVars, lockVars, instVars, otherVars, Leave, Leaving, Outer, Born, DropPc, InsertLocked
  <2> QED BY <1>8, <1>0, <2>1, SendEndStep, CalmGone DEF Local, dbVars, lockVars, instVars, otherVars
<1>9. CASE Evict(t)
  <2>1. Leave(t)'
    BY <1>9, <1>0, <1>b, EvictStep DEF Calls, Local, dbVars, lockVars, instVars, otherVars, Leave, Leaving, Outer, Born, DropPc, InsertLocked
  <2> QED BY <1>9, <1>0, <2>1, EvictStep, CalmGone DEF Calls, dbVars, lockVars, instVars, otherVars
<1>10. ASSUME NEW x \in Topic, Subscribe(t, x) \/ Unsubscribe(t, x) PROVE GoneInv'
  BY <1>10, <1>0 DEF Subscribe, Unsubscribe, instVars, taskVars, GoneInv, ListedInv, ReachedInv, LeaveInv, Leave, Leaving, Outer
<1>11. CASE SendEnd(t) /\ PublishDropped(t)
  <2>1. Leave(t)'
    BY <1>11, <1>0, <1>b, PublishDroppedStep DEF Local, dbVars, lockVars, instVars, otherVars, Leave, Leaving, Outer, Born, DropPc, InsertLocked
  <2> QED BY <1>11, <1>0, <2>1, PublishDroppedStep, CalmGone DEF Local, dbVars, lockVars, instVars, otherVars
<1> QED BY <1>1, <1>2, <1>3, <1>4, <1>5, <1>6, <1>7, <1>8, <1>9, <1>10, <1>11 DEF Owner, SendEnd

LEMMA NextGone ==
  ASSUME TypeOK, LockInv, GoneInv, MayUnregister = {}, [Next]_vars
  PROVE  GoneInv'
<1>1. ASSUME NEW t \in Inst, Insert(t) PROVE GoneInv' BY <1>1, InsertGone
<1>2. ASSUME NEW t \in Inst, Drop(t) PROVE GoneInv' BY <1>2, DropGone
<1>3. ASSUME NEW t \in Inst, Owner(t) PROVE GoneInv' BY <1>3, OwnerGone
<1>4. CASE UNCHANGED <<clients, broadcasts, registered, pc, cur, parent, cont>>
  BY <1>4 DEF GoneInv, ListedInv, ReachedInv, LeaveInv, Leave, Leaving, Outer
<1>5. ASSUME NEW n \in Kicked, ForceDisconnect(n) PROVE GoneInv'
  BY <1>4, <1>5 DEF ForceDisconnect, dbVars, taskVars
<1>6. CASE List
  BY <1>4, <1>6 DEF List, ListLock, ListCount, ListEnd, dbVars, instVars, taskVars
<1>7. CASE UNCHANGED vars
  BY <1>4, <1>7 DEF vars, dbVars, instVars, taskVars
<1>8. ASSUME NEW t \in Inst, AnnounceLock(t) PROVE GoneInv'
  BY <1>4, <1>8 DEF AnnounceLock, dbVars, instVars, taskVars
<1> QED BY <1>1, <1>2, <1>3, <1>5, <1>6, <1>7, <1>8 DEF Next, Terminated

\* A client whose owner is gone is listed nowhere, for any number of workers,
\* if no owner calls Client::unregister: its drop_client has removed it, or
\* another task's has.
THEOREM GoneForGood ==
  ASSUME MayUnregister = {}
  PROVE  Spec => []DoneIsGone
<1>1. Init => TypeOK /\ LockInv /\ GoneInv
  <2>1. Init => GoneInv
    BY DEF Init, GoneInv, ListedInv, ReachedInv, LeaveInv, Leave, Leaving
  <2> QED BY <2>1, InitType, InitLockInv
<1>2. TypeOK /\ LockInv /\ GoneInv /\ [Next]_vars => (TypeOK /\ LockInv /\ GoneInv)'
  BY NextType, NextLockInv, NextGone
<1>3. TypeOK /\ LockInv /\ GoneInv => DoneIsGone
  <2> SUFFICES ASSUME TypeOK, LockInv, GoneInv, Quiet, NEW i \in Inst, pc[i] = "done"
               PROVE  clients[name[i]] # i /\ broadcasts[name[i]] # i
    BY DEF DoneIsGone
  <2>1. \A u \in Inst : pc[u] \notin Section
    BY DEF Quiet, Busy
  <2>2. ~registered[i]
    BY DEF GoneInv, LeaveInv, Leave
  <2>3. name[i] \in Name /\ i # None
    OBVIOUS
  <2>4. clients[name[i]] # i
    BY <2>1, <2>2, <2>3 DEF GoneInv, ListedInv, Section, DropPc
  <2>5. broadcasts[name[i]] # i
    BY <2>1, <2>2, <2>3 DEF GoneInv, ReachedInv, Section, DropPc, InsertLocked
  <2> QED BY <2>4, <2>5
<1> QED BY <1>1, <1>2, <1>3, PTL DEF Spec

-----------------------------------------------------------------------------
(* The core client.  It drops others only while it publishes an announce,  *)
(* whose task holds the mutex of rpc_client; an eviction that is left when *)
(* that announce is cancelled counts as cut.                               *)

CoreInv ==
  Core # None =>
    /\ cont[Core] \in {"none", "force", "evict"}
    /\ pc[Core] \in DropPc => cont[Core] # "none"
    /\ pc[Core] \in DropPc /\ cont[Core] = "evict" => rpcLock # None
    /\ pc[Core] = "ann_unreg" => cont[Core] = "evict" /\ (rpcLock # None \/ cut[cur[Core]])

\* A step of another task, which releases the mutex only when the core client
\* publishes nothing, or cancels what it does.
LEMMA CoreKept ==
  ASSUME TypeOK, CoreInv, NEW t \in Inst, t # Core, Local(t),
         \A i \in Inst : cut[i] => cut'[i],
         Core # None /\ rpcLock # None /\ rpcLock' = None =>
           pc[Core] \notin DropPc /\ (pc[Core] = "ann_unreg" => cut'[cur[Core]])
  PROVE  CoreInv'
<1> SUFFICES ASSUME Core # None PROVE CoreInv'
  BY DEF CoreInv
<1>1. Core \in Inst /\ cur[Core] \in Inst
  BY CoreAssumption DEF TypeOK
<1>2. /\ pc'[Core] = pc[Core] /\ cur'[Core] = cur[Core] /\ cont'[Core] = cont[Core]
  BY <1>1 DEF Local
<1> QED BY <1>1, <1>2 DEF CoreInv

LEMMA InsertCore ==
  ASSUME TypeOK, CoreInv, NEW t \in Inst, Insert(t)
  PROVE  CoreInv'
<1>0. /\ cur \in [Inst -> Inst] /\ cont[t] \in {"none", "force", "finish", "evict", "api", "drop"}
      /\ AfterDrop(t) \in {"f_trig", "done", "ann_unreg", "u_end"}
      /\ AfterDrop(t) = "ann_unreg" => cont[t] \notin {"force", "drop"}
  BY AfterDropOut DEF TypeOK, AfterDrop
<1>1. CASE InsertNoPrimary(t) BY <1>1, InsertNoPrimaryStep, <1>0, CoreKept DEF Moves, Goes, Local, otherVars, CoreInv, DropPc
<1>2. CASE InsertBusy(t) BY <1>2, InsertBusyStep, <1>0, CoreKept DEF Moves, Goes, Local, otherVars, CoreInv, DropPc
<1>3. CASE InsertLock(t) BY <1>3, InsertLockStep, <1>0, CoreKept DEF Moves, Goes, Local, otherVars, CoreInv, DropPc
<1>4. CASE InsertSecondary(t) BY <1>4, InsertSecondaryStep, <1>0, CoreKept DEF Moves, Goes, Local, otherVars, CoreInv, DropPc
<1>5. CASE InsertBroadcast(t) BY <1>5, InsertBroadcastStep, <1>0, CoreKept DEF Moves, Goes, Local, otherVars, CoreInv, DropPc
<1>6. CASE InsertSubscriptions(t) BY <1>6, InsertSubscriptionsStep, <1>0, CoreKept DEF Moves, Goes, Local, otherVars, CoreInv, DropPc
<1>7. CASE InsertEnd(t) BY <1>7, InsertEndStep, <1>0, CoreKept DEF Moves, Goes, Local, otherVars, CoreInv, DropPc
<1>8. CASE AnnounceReg(t) BY <1>8, AnnounceRegStep, <1>0, CoreKept DEF Moves, Goes, Local, otherVars, CoreInv, DropPc, Publishing
<1>9. CASE ForceRemove(t) BY <1>9, ForceRemoveStep, <1>0, CoreKept DEF Local, otherVars, CoreInv, DropPc
<1>10. CASE ForceVacant(t) BY <1>10, ForceVacantStep, <1>0, CoreKept DEF Moves, Goes, Local, otherVars, CoreInv, DropPc
<1>11. CASE ForceTrigger(t) BY <1>11, ForceTriggerStep, <1>0, CoreKept DEF Local, otherVars, CoreInv, DropPc
<1> QED BY <1>1, <1>2, <1>3, <1>4, <1>5, <1>6, <1>7, <1>8, <1>9, <1>10, <1>11 DEF Insert

LEMMA DropCore ==
  ASSUME TypeOK, CoreInv, NEW t \in Inst, Drop(t)
  PROVE  CoreInv'
<1>0. /\ cur \in [Inst -> Inst] /\ cont[t] \in {"none", "force", "finish", "evict", "api", "drop"}
      /\ AfterDrop(t) \in {"f_trig", "done", "ann_unreg", "u_end"}
      /\ AfterDrop(t) = "ann_unreg" => cont[t] \notin {"force", "drop"}
  BY AfterDropOut DEF TypeOK, AfterDrop
<1>1. CASE DropLoad(t) BY <1>1, DropLoadStep, <1>0, CoreKept DEF Moves, Goes, Local, otherVars, CoreInv, DropPc
<1>2. CASE DropNotRegistered(t) BY <1>2, DropNotRegisteredStep, <1>0, CoreKept DEF Returns, Local, otherVars, CoreInv, DropPc
<1>3. CASE DropStore(t) BY <1>3, DropStoreStep, <1>0, CoreKept DEF Moves, Goes, Local, otherVars, CoreInv, DropPc
<1>4. CASE DropSubscriptions(t) BY <1>4, DropSubscriptionsStep, <1>0, CoreKept DEF Moves, Goes, Local, otherVars, CoreInv, DropPc
<1>5. CASE DropBroadcast(t) BY <1>5, DropBroadcastStep, <1>0, CoreKept DEF Moves, Goes, Local, otherVars, CoreInv, DropPc
<1>6. CASE DropClients(t) BY <1>6, DropClientsStep, <1>0, CoreKept DEF Moves, Goes, Local, otherVars, CoreInv, DropPc
<1>7. CASE DropLockSecondaries(t) BY <1>7, DropLockSecondariesStep, <1>0, CoreKept DEF Local, otherVars, CoreInv, DropPc
<1>8. CASE DropNextSecondary(t) BY <1>8, DropNextSecondaryStep, <1>0, CoreKept DEF Local, otherVars, CoreInv, DropPc
<1>9. CASE DropMissingSecondary(t) BY <1>9, DropMissingSecondaryStep, <1>0, CoreKept DEF Local, otherVars, CoreInv, DropPc
<1>10. CASE DropSecondariesEnd(t) BY <1>10, DropSecondariesEndStep, <1>0, CoreKept DEF Returns, Local, otherVars, CoreInv, DropPc
<1>11. CASE DropUnlinkLock(t) BY <1>11, DropUnlinkLockStep, <1>0, CoreKept DEF Moves, Goes, Local, otherVars, CoreInv, DropPc
<1>12. CASE DropNoPrimary(t) BY <1>12, DropNoPrimaryStep, <1>0, CoreKept DEF Returns, Local, otherVars, CoreInv, DropPc
<1>13. CASE DropUnlink(t) BY <1>13, DropUnlinkStep, <1>0, CoreKept DEF Returns, Local, otherVars, CoreInv, DropPc
<1>14. CASE AnnounceUnreg(t) BY <1>14, AnnounceUnregStep, <1>0, CoreKept DEF Moves, Goes, Local, otherVars, CoreInv, DropPc, Publishing
<1>15. CASE UnregisterEnd(t) BY <1>15, UnregisterEndStep, <1>0, CoreKept DEF Local, otherVars, CoreInv, DropPc
<1> QED BY <1>1, <1>2, <1>3, <1>4, <1>5, <1>6, <1>7, <1>8, <1>9, <1>10, <1>11, <1>12, <1>13, <1>14, <1>15 DEF Drop

LEMMA OwnerCore ==
  ASSUME TypeOK, CoreInv, NEW t \in Inst, Owner(t)
  PROVE  CoreInv'
<1>0. /\ cur \in [Inst -> Inst] /\ cont[t] \in {"none", "force", "finish", "evict", "api", "drop"}
      /\ AfterDrop(t) \in {"f_trig", "done", "ann_unreg", "u_end"}
      /\ AfterDrop(t) = "ann_unreg" => cont[t] \notin {"force", "drop"}
  BY AfterDropOut DEF TypeOK, AfterDrop
<1>1. CASE RespondOk(t) BY <1>1, RespondOkStep, <1>0, CoreKept DEF Moves, Goes, Local, otherVars, CoreInv, DropPc
<1>2. CASE RespondFail(t) BY <1>2, RespondFailStep, <1>0, CoreKept DEF Moves, Goes, Local, otherVars, CoreInv, DropPc
<1>3. CASE Disconnect(t) BY <1>3, DisconnectStep, <1>0, CoreKept, CoreAssumption DEF Calls, Local, otherVars, CoreInv, DropPc, Section, GivenUp, Evicting
<1>4. CASE SendEnd(t) /\ PublishDropped(t) BY <1>4, PublishDroppedStep, <1>0, CoreKept DEF Local, otherVars, CoreInv, DropPc
<1>5. CASE BrokerUnregister(t) BY <1>5, BrokerUnregisterStep, <1>0, CoreKept DEF Calls, Local, otherVars, CoreInv, DropPc
<1>6. CASE ClientUnregister(t) BY <1>6, ClientUnregisterStep, <1>0, CoreKept DEF Local, otherVars, CoreInv, DropPc
<1>7. CASE ClientDrop(t) BY <1>7, ClientDropStep, <1>0, CoreKept DEF Local, otherVars, CoreInv, DropPc
<1>8. CASE Lookup(t) BY <1>8, LookupStep, <1>0, CoreKept DEF Local, otherVars, CoreInv, DropPc
<1>9. CASE SendEnd(t) /\ pc[t] = "sending" BY <1>9, SendEndStep, <1>0, CoreKept DEF Local, otherVars, CoreInv, DropPc
<1>10. CASE Evict(t) BY <1>10, EvictStep, <1>0, CoreKept DEF Calls, Local, otherVars, CoreInv, DropPc, MaySend
<1>11. ASSUME NEW x \in Topic, Subscribe(t, x) \/ Unsubscribe(t, x) PROVE CoreInv'
  BY <1>11 DEF Subscribe, Unsubscribe, taskVars, otherVars, CoreInv
<1> QED BY <1>1, <1>2, <1>3, <1>4, <1>5, <1>6, <1>7, <1>8, <1>9, <1>10, <1>11 DEF Owner, SendEnd

LEMMA NextCore ==
  ASSUME TypeOK, CoreInv, [Next]_vars
  PROVE  CoreInv'
<1>1. ASSUME NEW t \in Inst, Insert(t) PROVE CoreInv' BY <1>1, InsertCore
<1>2. ASSUME NEW t \in Inst, Drop(t) PROVE CoreInv' BY <1>2, DropCore
<1>3. ASSUME NEW t \in Inst, Owner(t) PROVE CoreInv' BY <1>3, OwnerCore
<1>4. CASE UNCHANGED <<rpcLock, cut, pc, cur, cont>>
  BY <1>4 DEF CoreInv
<1>5. ASSUME NEW n \in Kicked, ForceDisconnect(n) PROVE CoreInv'
  BY <1>4, <1>5 DEF ForceDisconnect, taskVars, otherVars
<1>6. CASE List
  BY <1>4, <1>6 DEF List, ListLock, ListCount, ListEnd, taskVars, otherVars
<1>7. CASE UNCHANGED vars
  BY <1>4, <1>7 DEF vars, taskVars, otherVars
<1>8. ASSUME NEW t \in Inst, AnnounceLock(t) PROVE CoreInv'
  BY <1>8 DEF AnnounceLock, taskVars, CoreInv
<1> QED BY <1>1, <1>2, <1>3, <1>5, <1>6, <1>7, <1>8 DEF Next, Terminated

LEMMA InitCore == Init => CoreInv
BY CoreAssumption DEF Init, CoreInv, DropPc

-----------------------------------------------------------------------------
(* Whoever is unregistered by others is told to end, for any number of     *)
(* workers.                                                                *)

\* The client was registered and its owner has not begun to leave.
Alive(i) ==
  \/ pc[i] \in {"ann_reg", "resp", "run", "sending"}
  \/ cont[i] = "evict" /\ pc[i] \in DropPc \cup {"ann_unreg", "u_end"}

\* u unregisters i and will tell it: by the trigger after a displacement,
\* by closing its queue after an eviction.
WillTell(u, i) ==
  /\ Outer(u) = i
  /\ \/ cont[u] = "force" /\ pc[u] \in DropPc \cup {"f_trig"}
     \/ cont[u] = "evict" /\ pc[u] \in DropPc \cup {"ann_unreg", "u_end"}

\* A connection in service that is not registered is told, or will be.
Notice(i) ==
  i \notin Internal /\ Alive(i) /\ ~registered[i] =>
    Told(i) \/ cut[i] \/ \E u \in Inst : WillTell(u, i)

\* A task that drops a client drops its own, or displaces or evicts another;
\* the secondaries it drops in passing are triggered first.
Errand(u) ==
  /\ pc[u] \in DropPc => cont[u] # "none" /\ (cont[u] \in {"force", "evict"} \/ Outer(u) = u)
  /\ parent[u] # None /\ cur[u] \notin Internal => triggered[cur[u]]
  /\ cont[u] \in {"api", "drop"} => u \in Internal
  /\ pc[u] = "f_trig" => cont[u] = "force"
  /\ pc[u] \in {"ann_unreg", "u_end"} => cont[u] \in {"finish", "evict", "api"}

NoticeInv == \A i \in Inst : Notice(i)
ErrandInv == \A u \in Inst : Errand(u)
TellInv == NoticeInv /\ ErrandInv

\* What a step of t has to keep for the other tasks.
LEMMA ErrandKept ==
  ASSUME TypeOK, ErrandInv, NEW t \in Inst, Local(t),
         \A i \in Inst : triggered[i] => triggered'[i], Errand(t)'
  PROVE  ErrandInv'
<1> SUFFICES ASSUME NEW u \in Inst, u # t PROVE Errand(u)'
  BY DEF ErrandInv
<1>1. /\ pc'[u] = pc[u] /\ cur'[u] = cur[u] /\ parent'[u] = parent[u] /\ cont'[u] = cont[u]
      /\ cur[u] \in Inst /\ Errand(u)
  BY DEF Local, TypeOK, ErrandInv
<1>2. triggered[cur[u]] => triggered'[cur'[u]]
  BY <1>1
<1> QED BY <1>1, <1>2 DEF Errand, Outer

\* A step that unregisters nobody keeps the promise to those it has told, if
\* it forgets none that it was about to tell.
LEMMA NoticeKept ==
  ASSUME TypeOK, NoticeInv, NEW t \in Inst, Local(t),
         \A i \in Inst : registered[i] => registered'[i],
         \A i \in Inst : Told(i) \/ cut[i] => Told(i)' \/ cut'[i],
         t \notin Internal /\ Alive(t)' => Alive(t) \/ registered'[t],
         \A i \in Inst : WillTell(t, i) => WillTell(t, i)' \/ Told(i)' \/ cut'[i]
  PROVE  NoticeInv'
<1> SUFFICES ASSUME NEW i \in Inst, i \notin Internal, Alive(i)', ~registered'[i]
             PROVE  Told(i)' \/ cut'[i] \/ \E u \in Inst : WillTell(u, i)'
  BY DEF NoticeInv, Notice
<1>1. Alive(i)
  BY DEF Alive, Local
<1>2. Told(i) \/ cut[i] \/ \E u \in Inst : WillTell(u, i)
  BY <1>1 DEF NoticeInv, Notice
<1>3. ASSUME NEW u \in Inst, u # t, WillTell(u, i) PROVE WillTell(u, i)'
  <2>1. pc'[u] = pc[u] /\ cur'[u] = cur[u] /\ parent'[u] = parent[u] /\ cont'[u] = cont[u]
    BY <1>3 DEF Local
  <2> QED BY <1>3, <2>1 DEF WillTell, Outer
<1> QED BY <1>2, <1>3

LEMMA SameTell ==
  ASSUME TellInv, UNCHANGED <<registered, triggered, closed, cut, pc, cur, parent, cont>>
  PROVE  TellInv'
<1>1. NoticeInv' BY DEF TellInv, NoticeInv, Notice, Told, Alive, WillTell, Outer
<1>2. ErrandInv' BY DEF TellInv, ErrandInv, Errand, Outer
<1> QED BY <1>1, <1>2 DEF TellInv

LEMMA InsertTell ==
  ASSUME TypeOK, LockInv, TellInv, NEW t \in Inst, Insert(t)
  PROVE  TellInv'
<1>0. /\ cur \in [Inst -> Inst] /\ parent \in [Inst -> Inst \cup {None}]
      /\ clients \in [Name -> Inst \cup {None}] /\ todo \in [Inst -> SUBSET Name]
      /\ NoticeInv /\ ErrandInv /\ Errand(t)
      /\ parent[t] # None => pc[t] \in DropPc /\ pc[t] \notin {"d_sec", "d_loop"}
      /\ AfterDrop(t) \in {"f_trig", "done", "ann_unreg", "u_end"}
      /\ AfterDrop(t) = "f_trig" => cont[t] = "force"
      /\ AfterDrop(t) \in {"u_end", "ann_unreg"} => cont[t] \notin {"force", "drop"}
      /\ cont[t] = "force" => AfterDrop(t) = "f_trig"
      /\ cont[t] = "evict" => AfterDrop(t) \in {"u_end", "ann_unreg"}
      /\ cont[t] \in {"none", "force", "finish", "evict", "api", "drop"}
  BY AfterDropOut DEF TypeOK, LockInv, NestInv, TellInv, ErrandInv, AfterDrop
<1>1. CASE InsertNoPrimary(t)
  <2>1. Errand(t)'
    BY <1>1, <1>0, InsertNoPrimaryStep DEF Moves, Goes, Local, dbVars, lockVars, instVars, otherVars, Errand, Outer, DropPc
  <2>2. ErrandInv' BY <1>1, <1>0, <2>1, InsertNoPrimaryStep, ErrandKept DEF Moves, Goes, dbVars, lockVars, instVars, otherVars
  <2>3. t \notin Internal /\ Alive(t)' => Alive(t) \/ registered'[t]
    BY <1>1, <1>0, InsertNoPrimaryStep DEF Moves, Goes, Local, dbVars, lockVars, instVars, otherVars, Alive, Errand, DropPc
  <2>4. ASSUME NEW i \in Inst, WillTell(t, i) PROVE WillTell(t, i)' \/ Told(i)' \/ cut'[i]
    BY <1>1, <1>0, <2>4, InsertNoPrimaryStep DEF Moves, Goes, Local, dbVars, lockVars, instVars, otherVars, WillTell, Outer, Told, DropPc, Errand
  <2>5. /\ Local(t) /\ \A i \in Inst : registered[i] => registered'[i]
        /\ \A i \in Inst : Told(i) \/ cut[i] => Told(i)' \/ cut'[i]
    BY <1>1, <1>0, InsertNoPrimaryStep DEF Moves, Goes, dbVars, lockVars, instVars, otherVars, Told
  <2>6. NoticeInv' BY <1>0, <2>3, <2>4, <2>5, NoticeKept
  <2> QED BY <2>2, <2>6 DEF TellInv
<1>2. CASE InsertBusy(t)
  <2>1. Errand(t)'
    BY <1>2, <1>0, InsertBusyStep DEF Moves, Goes, Local, dbVars, lockVars, instVars, otherVars, Errand, Outer, DropPc
  <2>2. ErrandInv' BY <1>2, <1>0, <2>1, InsertBusyStep, ErrandKept DEF Moves, Goes, dbVars, lockVars, instVars, otherVars
  <2>3. t \notin Internal /\ Alive(t)' => Alive(t) \/ registered'[t]
    BY <1>2, <1>0, InsertBusyStep DEF Moves, Goes, Local, dbVars, lockVars, instVars, otherVars, Alive, Errand, DropPc
  <2>4. ASSUME NEW i \in Inst, WillTell(t, i) PROVE WillTell(t, i)' \/ Told(i)' \/ cut'[i]
    BY <1>2, <1>0, <2>4, InsertBusyStep DEF Moves, Goes, Local, dbVars, lockVars, instVars, otherVars, WillTell, Outer, Told, DropPc, Errand
  <2>5. /\ Local(t) /\ \A i \in Inst : registered[i] => registered'[i]
        /\ \A i \in Inst : Told(i) \/ cut[i] => Told(i)' \/ cut'[i]
    BY <1>2, <1>0, InsertBusyStep DEF Moves, Goes, dbVars, lockVars, instVars, otherVars, Told
  <2>6. NoticeInv' BY <1>0, <2>3, <2>4, <2>5, NoticeKept
  <2> QED BY <2>2, <2>6 DEF TellInv
<1>3. CASE InsertLock(t)
  <2>1. Errand(t)'
    BY <1>3, <1>0, InsertLockStep DEF Moves, Goes, Local, dbVars, instVars, otherVars, Errand, Outer, DropPc
  <2>2. ErrandInv' BY <1>3, <1>0, <2>1, InsertLockStep, ErrandKept DEF Moves, Goes, dbVars, instVars, otherVars
  <2>3. t \notin Internal /\ Alive(t)' => Alive(t) \/ registered'[t]
    BY <1>3, <1>0, InsertLockStep DEF Moves, Goes, Local, dbVars, instVars, otherVars, Alive, Errand, DropPc
  <2>4. ASSUME NEW i \in Inst, WillTell(t, i) PROVE WillTell(t, i)' \/ Told(i)' \/ cut'[i]
    BY <1>3, <1>0, <2>4, InsertLockStep DEF Moves, Goes, Local, dbVars, instVars, otherVars, WillTell, Outer, Told, DropPc, Errand
  <2>5. /\ Local(t) /\ \A i \in Inst : registered[i] => registered'[i]
        /\ \A i \in Inst : Told(i) \/ cut[i] => Told(i)' \/ cut'[i]
    BY <1>3, <1>0, InsertLockStep DEF Moves, Goes, dbVars, instVars, otherVars, Told
  <2>6. NoticeInv' BY <1>0, <2>3, <2>4, <2>5, NoticeKept
  <2> QED BY <2>2, <2>6 DEF TellInv
<1>4. CASE InsertSecondary(t)
  <2>1. Errand(t)'
    BY <1>4, <1>0, InsertSecondaryStep DEF Moves, Goes, Local, dbVars, lockVars, otherVars, Errand, Outer, DropPc
  <2>2. ErrandInv' BY <1>4, <1>0, <2>1, InsertSecondaryStep, ErrandKept DEF Moves, Goes, dbVars, lockVars, otherVars
  <2>3. t \notin Internal /\ Alive(t)' => Alive(t) \/ registered'[t]
    BY <1>4, <1>0, InsertSecondaryStep DEF Moves, Goes, Local, dbVars, lockVars, otherVars, Alive, Errand, DropPc
  <2>4. ASSUME NEW i \in Inst, WillTell(t, i) PROVE WillTell(t, i)' \/ Told(i)' \/ cut'[i]
    BY <1>4, <1>0, <2>4, InsertSecondaryStep DEF Moves, Goes, Local, dbVars, lockVars, otherVars, WillTell, Outer, Told, DropPc, Errand
  <2>5. /\ Local(t) /\ \A i \in Inst : registered[i] => registered'[i]
        /\ \A i \in Inst : Told(i) \/ cut[i] => Told(i)' \/ cut'[i]
    BY <1>4, <1>0, InsertSecondaryStep DEF Moves, Goes, dbVars, lockVars, otherVars, Told
  <2>6. NoticeInv' BY <1>0, <2>3, <2>4, <2>5, NoticeKept
  <2> QED BY <2>2, <2>6 DEF TellInv
<1>5. CASE InsertBroadcast(t)
  <2>1. Errand(t)'
    BY <1>5, <1>0, InsertBroadcastStep DEF Moves, Goes, Local, lockVars, instVars, otherVars, Errand, Outer, DropPc
  <2>2. ErrandInv' BY <1>5, <1>0, <2>1, InsertBroadcastStep, ErrandKept DEF Moves, Goes, lockVars, instVars, otherVars
  <2>3. t \notin Internal /\ Alive(t)' => Alive(t) \/ registered'[t]
    BY <1>5, <1>0, InsertBroadcastStep DEF Moves, Goes, Local, lockVars, instVars, otherVars, Alive, Errand, DropPc
  <2>4. ASSUME NEW i \in Inst, WillTell(t, i) PROVE WillTell(t, i)' \/ Told(i)' \/ cut'[i]
    BY <1>5, <1>0, <2>4, InsertBroadcastStep DEF Moves, Goes, Local, lockVars, instVars, otherVars, WillTell, Outer, Told, DropPc, Errand
  <2>5. /\ Local(t) /\ \A i \in Inst : registered[i] => registered'[i]
        /\ \A i \in Inst : Told(i) \/ cut[i] => Told(i)' \/ cut'[i]
    BY <1>5, <1>0, InsertBroadcastStep DEF Moves, Goes, lockVars, instVars, otherVars, Told
  <2>6. NoticeInv' BY <1>0, <2>3, <2>4, <2>5, NoticeKept
  <2> QED BY <2>2, <2>6 DEF TellInv
<1>6. CASE InsertSubscriptions(t)
  <2>1. Errand(t)'
    BY <1>6, <1>0, InsertSubscriptionsStep DEF Moves, Goes, Local, lockVars, instVars, otherVars, Errand, Outer, DropPc
  <2>2. ErrandInv' BY <1>6, <1>0, <2>1, InsertSubscriptionsStep, ErrandKept DEF Moves, Goes, lockVars, instVars, otherVars
  <2>3. t \notin Internal /\ Alive(t)' => Alive(t) \/ registered'[t]
    BY <1>6, <1>0, InsertSubscriptionsStep DEF Moves, Goes, Local, lockVars, instVars, otherVars, Alive, Errand, DropPc
  <2>4. ASSUME NEW i \in Inst, WillTell(t, i) PROVE WillTell(t, i)' \/ Told(i)' \/ cut'[i]
    BY <1>6, <1>0, <2>4, InsertSubscriptionsStep DEF Moves, Goes, Local, lockVars, instVars, otherVars, WillTell, Outer, Told, DropPc, Errand
  <2>5. /\ Local(t) /\ \A i \in Inst : registered[i] => registered'[i]
        /\ \A i \in Inst : Told(i) \/ cut[i] => Told(i)' \/ cut'[i]
    BY <1>6, <1>0, InsertSubscriptionsStep DEF Moves, Goes, lockVars, instVars, otherVars, Told
  <2>6. NoticeInv' BY <1>0, <2>3, <2>4, <2>5, NoticeKept
  <2> QED BY <2>2, <2>6 DEF TellInv
<1>7. CASE InsertEnd(t)
  <2>1. Errand(t)'
    BY <1>7, <1>0, InsertEndStep DEF Goes, Local, otherVars, Errand, Outer, DropPc
  <2>2. ErrandInv' BY <1>7, <1>0, <2>1, InsertEndStep, ErrandKept DEF Goes, otherVars
  <2>3. t \notin Internal /\ Alive(t)' => Alive(t) \/ registered'[t]
    BY <1>7, <1>0, InsertEndStep DEF Goes, Local, otherVars, Alive, Errand, DropPc
  <2>4. ASSUME NEW i \in Inst, WillTell(t, i) PROVE WillTell(t, i)' \/ Told(i)' \/ cut'[i]
    BY <1>7, <1>0, <2>4, InsertEndStep DEF Goes, Local, otherVars, WillTell, Outer, Told, DropPc, Errand
  <2>5. /\ Local(t) /\ UNCHANGED <<triggered, closed, cut>>
        /\ \A i \in Inst : registered[i] => registered'[i]
    BY <1>7, InsertEndStep DEF Goes, otherVars
  <2>6. NoticeInv' BY <1>0, <2>3, <2>4, <2>5, NoticeKept DEF Told
  <2> QED BY <2>2, <2>6 DEF TellInv
<1>8. CASE AnnounceReg(t)
  <2>1. Errand(t)'
    BY <1>8, <1>0, AnnounceRegStep DEF Goes, Local, dbVars, lockVars, instVars, otherVars, Errand, Outer, DropPc
  <2>2. ErrandInv' BY <1>8, <1>0, <2>1, AnnounceRegStep, ErrandKept DEF Goes, dbVars, lockVars, instVars, otherVars
  <2>3. t \notin Internal /\ Alive(t)' => Alive(t) \/ registered'[t]
    BY <1>8, <1>0, AnnounceRegStep DEF Goes, Local, dbVars, lockVars, instVars, otherVars, Alive, Errand, DropPc
  <2>4. ASSUME NEW i \in Inst, WillTell(t, i) PROVE WillTell(t, i)' \/ Told(i)' \/ cut'[i]
    BY <1>8, <1>0, <2>4, AnnounceRegStep DEF Goes, Local, dbVars, lockVars, instVars, otherVars, WillTell, Outer, Told, DropPc, Errand
  <2>5. /\ Local(t) /\ \A i \in Inst : registered[i] => registered'[i]
        /\ \A i \in Inst : Told(i) \/ cut[i] => Told(i)' \/ cut'[i]
    BY <1>8, <1>0, AnnounceRegStep DEF Goes, dbVars, lockVars, instVars, otherVars, Told
  <2>6. NoticeInv' BY <1>0, <2>3, <2>4, <2>5, NoticeKept
  <2> QED BY <2>2, <2>6 DEF TellInv
<1>9. CASE ForceRemove(t)
  <2>1. Errand(t)'
    BY <1>9, <1>0, ForceRemoveStep DEF Local, lockVars, instVars, otherVars, Errand, Outer, DropPc
  <2>2. ErrandInv' BY <1>9, <1>0, <2>1, ForceRemoveStep, ErrandKept DEF Local, lockVars, instVars, otherVars
  <2>3. t \notin Internal /\ Alive(t)' => Alive(t) \/ registered'[t]
    BY <1>9, <1>0, ForceRemoveStep DEF Local, lockVars, instVars, otherVars, Alive, Errand, DropPc
  <2>4. ASSUME NEW i \in Inst, WillTell(t, i) PROVE WillTell(t, i)' \/ Told(i)' \/ cut'[i]
    BY <1>9, <1>0, <2>4, ForceRemoveStep DEF Local, lockVars, instVars, otherVars, WillTell, Outer, Told, DropPc, Errand
  <2>5. /\ Local(t) /\ \A i \in Inst : registered[i] => registered'[i]
        /\ \A i \in Inst : Told(i) \/ cut[i] => Told(i)' \/ cut'[i]
    BY <1>9, <1>0, ForceRemoveStep DEF Local, lockVars, instVars, otherVars, Told
  <2>6. NoticeInv' BY <1>0, <2>3, <2>4, <2>5, NoticeKept
  <2> QED BY <2>2, <2>6 DEF TellInv
<1>10. CASE ForceVacant(t)
  <2>1. Errand(t)'
    BY <1>10, <1>0, ForceVacantStep DEF Moves, Goes, Local, dbVars, lockVars, instVars, otherVars, Errand, Outer, DropPc
  <2>2. ErrandInv' BY <1>10, <1>0, <2>1, ForceVacantStep, ErrandKept DEF Moves, Goes, dbVars, lockVars, instVars, otherVars
  <2>3. t \notin Internal /\ Alive(t)' => Alive(t) \/ registered'[t]
    BY <1>10, <1>0, ForceVacantStep DEF Moves, Goes, Local, dbVars, lockVars, instVars, otherVars, Alive, Errand, DropPc
  <2>4. ASSUME NEW i \in Inst, WillTell(t, i) PROVE WillTell(t, i)' \/ Told(i)' \/ cut'[i]
    BY <1>10, <1>0, <2>4, ForceVacantStep DEF Moves, Goes, Local, dbVars, lockVars, instVars, otherVars, WillTell, Outer, Told, DropPc, Errand
  <2>5. /\ Local(t) /\ \A i \in Inst : registered[i] => registered'[i]
        /\ \A i \in Inst : Told(i) \/ cut[i] => Told(i)' \/ cut'[i]
    BY <1>10, <1>0, ForceVacantStep DEF Moves, Goes, dbVars, lockVars, instVars, otherVars, Told
  <2>6. NoticeInv' BY <1>0, <2>3, <2>4, <2>5, NoticeKept
  <2> QED BY <2>2, <2>6 DEF TellInv
<1>11. CASE ForceTrigger(t)
  <2>1. Errand(t)'
    BY <1>11, <1>0, ForceTriggerStep DEF Local, dbVars, lockVars, otherVars, Errand, Outer, DropPc
  <2>0. /\ pc[t] = "f_trig" /\ parent[t] = None /\ triggered'[cur[t]] /\ cur[t] \in Inst
        /\ \A i \in Inst : triggered[i] => triggered'[i]
    BY <1>11, <1>0, ForceTriggerStep DEF DropPc
  <2>2. ErrandInv' BY <1>11, <1>0, <2>1, <2>0, ForceTriggerStep, ErrandKept DEF Local, dbVars, lockVars, otherVars
  <2>3. t \notin Internal /\ Alive(t)' => Alive(t) \/ registered'[t]
    BY <1>11, <1>0, ForceTriggerStep DEF Local, dbVars, lockVars, otherVars, Alive, Errand, DropPc
  <2>4. ASSUME NEW i \in Inst, WillTell(t, i) PROVE WillTell(t, i)' \/ Told(i)' \/ cut'[i]
    BY <1>0, <2>0, <2>4 DEF WillTell, Outer, Told, DropPc
  <2>5. /\ Local(t) /\ \A i \in Inst : registered[i] => registered'[i]
        /\ \A i \in Inst : Told(i) \/ cut[i] => Told(i)' \/ cut'[i]
    BY <1>11, <1>0, <2>0, ForceTriggerStep DEF Local, dbVars, lockVars, otherVars, Told
  <2>6. NoticeInv' BY <1>0, <2>3, <2>4, <2>5, NoticeKept
  <2> QED BY <2>2, <2>6 DEF TellInv
<1> QED BY <1>1, <1>2, <1>3, <1>4, <1>5, <1>6, <1>7, <1>8, <1>9, <1>10, <1>11 DEF Insert

LEMMA DropTell ==
  ASSUME TypeOK, LockInv, TellInv, NEW t \in Inst, Drop(t)
  PROVE  TellInv'
<1>0. /\ cur \in [Inst -> Inst] /\ parent \in [Inst -> Inst \cup {None}]
      /\ clients \in [Name -> Inst \cup {None}] /\ todo \in [Inst -> SUBSET Name]
      /\ NoticeInv /\ ErrandInv /\ Errand(t)
      /\ parent[t] # None => pc[t] \in DropPc /\ pc[t] \notin {"d_sec", "d_loop"}
      /\ AfterDrop(t) \in {"f_trig", "done", "ann_unreg", "u_end"}
      /\ AfterDrop(t) = "f_trig" => cont[t] = "force"
      /\ AfterDrop(t) \in {"u_end", "ann_unreg"} => cont[t] \notin {"force", "drop"}
      /\ cont[t] = "force" => AfterDrop(t) = "f_trig"
      /\ cont[t] = "evict" => AfterDrop(t) \in {"u_end", "ann_unreg"}
      /\ cont[t] \in {"none", "force", "finish", "evict", "api", "drop"}
  BY AfterDropOut DEF TypeOK, LockInv, NestInv, TellInv, ErrandInv, AfterDrop
<1>1. CASE DropLoad(t)
  <2>1. Errand(t)'
    BY <1>1, <1>0, DropLoadStep DEF Moves, Goes, Local, dbVars, lockVars, instVars, otherVars, Errand, Outer, DropPc
  <2>2. ErrandInv' BY <1>1, <1>0, <2>1, DropLoadStep, ErrandKept DEF Moves, Goes, dbVars, lockVars, instVars, otherVars
  <2>3. t \notin Internal /\ Alive(t)' => Alive(t) \/ registered'[t]
    BY <1>1, <1>0, DropLoadStep DEF Moves, Goes, Local, dbVars, lockVars, instVars, otherVars, Alive, Errand, DropPc
  <2>4. ASSUME NEW i \in Inst, WillTell(t, i) PROVE WillTell(t, i)' \/ Told(i)' \/ cut'[i]
    BY <1>1, <1>0, <2>4, DropLoadStep DEF Moves, Goes, Local, dbVars, lockVars, instVars, otherVars, WillTell, Outer, Told, DropPc, Errand
  <2>5. /\ Local(t) /\ \A i \in Inst : registered[i] => registered'[i]
        /\ \A i \in Inst : Told(i) \/ cut[i] => Told(i)' \/ cut'[i]
    BY <1>1, <1>0, DropLoadStep DEF Moves, Goes, dbVars, lockVars, instVars, otherVars, Told
  <2>6. NoticeInv' BY <1>0, <2>3, <2>4, <2>5, NoticeKept
  <2> QED BY <2>2, <2>6 DEF TellInv
<1>2. CASE DropNotRegistered(t)
  <2>1. Errand(t)'
    BY <1>2, <1>0, DropNotRegisteredStep DEF Returns, Local, dbVars, lockVars, instVars, otherVars, Errand, Outer, DropPc
  <2>2. ErrandInv' BY <1>2, <1>0, <2>1, DropNotRegisteredStep, ErrandKept DEF Returns, dbVars, lockVars, instVars, otherVars
  <2>3. t \notin Internal /\ Alive(t)' => Alive(t) \/ registered'[t]
    BY <1>2, <1>0, DropNotRegisteredStep DEF Returns, Local, dbVars, lockVars, instVars, otherVars, Alive, Errand, DropPc
  <2>4. ASSUME NEW i \in Inst, WillTell(t, i) PROVE WillTell(t, i)' \/ Told(i)' \/ cut'[i]
    BY <1>2, <1>0, <2>4, DropNotRegisteredStep DEF Returns, Local, dbVars, lockVars, instVars, otherVars, WillTell, Outer, Told, DropPc, Errand
  <2>5. /\ Local(t) /\ \A i \in Inst : registered[i] => registered'[i]
        /\ \A i \in Inst : Told(i) \/ cut[i] => Told(i)' \/ cut'[i]
    BY <1>2, <1>0, DropNotRegisteredStep DEF Returns, dbVars, lockVars, instVars, otherVars, Told
  <2>6. NoticeInv' BY <1>0, <2>3, <2>4, <2>5, NoticeKept
  <2> QED BY <2>2, <2>6 DEF TellInv
<1>3. CASE DropStore(t)
  <2>1. Errand(t)'
    BY <1>3, <1>0, DropStoreStep DEF Moves, Goes, Local, dbVars, lockVars, otherVars, Errand, Outer, DropPc
  <2>2. ErrandInv' BY <1>3, <1>0, <2>1, DropStoreStep, ErrandKept DEF Moves, Goes, dbVars, lockVars, otherVars
  <2>a. /\ pc[t] = "d_store" /\ pc'[t] = "d_subs" /\ cur'[t] = cur[t] /\ Local(t)
        /\ parent'[t] = parent[t] /\ cont'[t] = cont[t]
        /\ triggered' = triggered /\ closed' = closed /\ cut' = cut
        /\ \A i \in Inst : i # cur[t] => registered'[i] = registered[i]
    BY <1>3, DropStoreStep DEF Moves, Goes, otherVars
  <2>b. ASSUME NEW u \in Inst, NEW i \in Inst, WillTell(u, i) PROVE WillTell(u, i)'
    <3>1. cur'[u] = cur[u] /\ parent'[u] = parent[u] /\ cont'[u] = cont[u]
      BY <2>a DEF Local
    <3>2. pc'[u] = pc[u] \/ (pc[u] \in DropPc /\ pc'[u] \in DropPc)
      BY <2>a DEF Local, DropPc
    <3> QED BY <2>b, <3>1, <3>2 DEF WillTell, Outer
  <2>c. ASSUME NEW i \in Inst, Alive(i)' PROVE Alive(i)
    BY <2>a, <2>c DEF Alive, Local, DropPc
  <2>d. ASSUME NEW i \in Inst, i # cur[t] PROVE Notice(i)'
    BY <1>0, <2>a, <2>b, <2>c, <2>d DEF NoticeInv, Notice, Told
  <2>e. ASSUME NEW i \in Inst, i = cur[t] PROVE Notice(i)'
    <3>1. CASE parent[t] # None
      BY <1>0, <2>a, <2>e, <3>1 DEF Notice, Errand, Told
    <3>2. CASE parent[t] = None /\ cont[t] \in {"force", "evict"}
      <4>1. WillTell(t, i)'
        BY <2>a, <2>e, <3>2 DEF WillTell, Outer, DropPc
      <4> QED BY <2>a, <2>e, <4>1 DEF Notice
    <3>3. CASE parent[t] = None /\ cont[t] \notin {"force", "evict"}
      <4>1. cur[t] = t
        BY <1>0, <2>a, <3>3 DEF Errand, Outer, DropPc
      <4> QED BY <2>a, <2>e, <3>3, <4>1 DEF Notice, Alive
    <3> QED BY <3>1, <3>2, <3>3
  <2>3. NoticeInv' BY <1>0, <2>d, <2>e DEF NoticeInv
  <2> QED BY <2>2, <2>3 DEF TellInv, NoticeInv
<1>4. CASE DropSubscriptions(t)
  <2>1. Errand(t)'
    BY <1>4, <1>0, DropSubscriptionsStep DEF Moves, Goes, Local, lockVars, instVars, otherVars, Errand, Outer, DropPc
  <2>2. ErrandInv' BY <1>4, <1>0, <2>1, DropSubscriptionsStep, ErrandKept DEF Moves, Goes, lockVars, instVars, otherVars
  <2>3. t \notin Internal /\ Alive(t)' => Alive(t) \/ registered'[t]
    BY <1>4, <1>0, DropSubscriptionsStep DEF Moves, Goes, Local, lockVars, instVars, otherVars, Alive, Errand, DropPc
  <2>4. ASSUME NEW i \in Inst, WillTell(t, i) PROVE WillTell(t, i)' \/ Told(i)' \/ cut'[i]
    BY <1>4, <1>0, <2>4, DropSubscriptionsStep DEF Moves, Goes, Local, lockVars, instVars, otherVars, WillTell, Outer, Told, DropPc, Errand
  <2>5. /\ Local(t) /\ \A i \in Inst : registered[i] => registered'[i]
        /\ \A i \in Inst : Told(i) \/ cut[i] => Told(i)' \/ cut'[i]
    BY <1>4, <1>0, DropSubscriptionsStep DEF Moves, Goes, lockVars, instVars, otherVars, Told
  <2>6. NoticeInv' BY <1>0, <2>3, <2>4, <2>5, NoticeKept
  <2> QED BY <2>2, <2>6 DEF TellInv
<1>5. CASE DropBroadcast(t)
  <2>1. Errand(t)'
    BY <1>5, <1>0, DropBroadcastStep DEF Moves, Goes, Local, lockVars, instVars, otherVars, Errand, Outer, DropPc
  <2>2. ErrandInv' BY <1>5, <1>0, <2>1, DropBroadcastStep, ErrandKept DEF Moves, Goes, lockVars, instVars, otherVars
  <2>3. t \notin Internal /\ Alive(t)' => Alive(t) \/ registered'[t]
    BY <1>5, <1>0, DropBroadcastStep DEF Moves, Goes, Local, lockVars, instVars, otherVars, Alive, Errand, DropPc
  <2>4. ASSUME NEW i \in Inst, WillTell(t, i) PROVE WillTell(t, i)' \/ Told(i)' \/ cut'[i]
    BY <1>5, <1>0, <2>4, DropBroadcastStep DEF Moves, Goes, Local, lockVars, instVars, otherVars, WillTell, Outer, Told, DropPc, Errand
  <2>5. /\ Local(t) /\ \A i \in Inst : registered[i] => registered'[i]
        /\ \A i \in Inst : Told(i) \/ cut[i] => Told(i)' \/ cut'[i]
    BY <1>5, <1>0, DropBroadcastStep DEF Moves, Goes, lockVars, instVars, otherVars, Told
  <2>6. NoticeInv' BY <1>0, <2>3, <2>4, <2>5, NoticeKept
  <2> QED BY <2>2, <2>6 DEF TellInv
<1>6. CASE DropClients(t)
  <2>1. Errand(t)'
    BY <1>6, <1>0, DropClientsStep DEF Moves, Goes, Local, lockVars, instVars, otherVars, Errand, Outer, DropPc
  <2>2. ErrandInv' BY <1>6, <1>0, <2>1, DropClientsStep, ErrandKept DEF Moves, Goes, lockVars, instVars, otherVars
  <2>3. t \notin Internal /\ Alive(t)' => Alive(t) \/ registered'[t]
    BY <1>6, <1>0, DropClientsStep DEF Moves, Goes, Local, lockVars, instVars, otherVars, Alive, Errand, DropPc
  <2>4. ASSUME NEW i \in Inst, WillTell(t, i) PROVE WillTell(t, i)' \/ Told(i)' \/ cut'[i]
    BY <1>6, <1>0, <2>4, DropClientsStep DEF Moves, Goes, Local, lockVars, instVars, otherVars, WillTell, Outer, Told, DropPc, Errand
  <2>5. /\ Local(t) /\ \A i \in Inst : registered[i] => registered'[i]
        /\ \A i \in Inst : Told(i) \/ cut[i] => Told(i)' \/ cut'[i]
    BY <1>6, <1>0, DropClientsStep DEF Moves, Goes, lockVars, instVars, otherVars, Told
  <2>6. NoticeInv' BY <1>0, <2>3, <2>4, <2>5, NoticeKept
  <2> QED BY <2>2, <2>6 DEF TellInv
<1>7. CASE DropLockSecondaries(t)
  <2>1. Errand(t)'
    BY <1>7, <1>0, DropLockSecondariesStep DEF Local, dbVars, instVars, otherVars, Errand, Outer, DropPc
  <2>2. ErrandInv' BY <1>7, <1>0, <2>1, DropLockSecondariesStep, ErrandKept DEF Local, dbVars, instVars, otherVars
  <2>3. t \notin Internal /\ Alive(t)' => Alive(t) \/ registered'[t]
    BY <1>7, <1>0, DropLockSecondariesStep DEF Local, dbVars, instVars, otherVars, Alive, Errand, DropPc
  <2>4. ASSUME NEW i \in Inst, WillTell(t, i) PROVE WillTell(t, i)' \/ Told(i)' \/ cut'[i]
    BY <1>7, <1>0, <2>4, DropLockSecondariesStep DEF Local, dbVars, instVars, otherVars, WillTell, Outer, Told, DropPc, Errand
  <2>5. /\ Local(t) /\ \A i \in Inst : registered[i] => registered'[i]
        /\ \A i \in Inst : Told(i) \/ cut[i] => Told(i)' \/ cut'[i]
    BY <1>7, <1>0, DropLockSecondariesStep DEF Local, dbVars, instVars, otherVars, Told
  <2>6. NoticeInv' BY <1>0, <2>3, <2>4, <2>5, NoticeKept
  <2> QED BY <2>2, <2>6 DEF TellInv
<1>8. CASE DropNextSecondary(t)
  <2>1. Errand(t)'
    BY <1>8, <1>0, DropNextSecondaryStep DEF Local, dbVars, lockVars, otherVars, Errand, Outer, DropPc
  <2>2. ErrandInv' BY <1>8, <1>0, <2>1, DropNextSecondaryStep, ErrandKept DEF Local, dbVars, lockVars, otherVars
  <2>3. t \notin Internal /\ Alive(t)' => Alive(t) \/ registered'[t]
    BY <1>8, <1>0, DropNextSecondaryStep DEF Local, dbVars, lockVars, otherVars, Alive, Errand, DropPc
  <2>4. ASSUME NEW i \in Inst, WillTell(t, i) PROVE WillTell(t, i)' \/ Told(i)' \/ cut'[i]
    BY <1>8, <1>0, <2>4, DropNextSecondaryStep DEF Local, dbVars, lockVars, otherVars, WillTell, Outer, Told, DropPc, Errand
  <2>5. /\ Local(t) /\ \A i \in Inst : registered[i] => registered'[i]
        /\ \A i \in Inst : Told(i) \/ cut[i] => Told(i)' \/ cut'[i]
    BY <1>8, <1>0, DropNextSecondaryStep DEF Local, dbVars, lockVars, otherVars, Told
  <2>6. NoticeInv' BY <1>0, <2>3, <2>4, <2>5, NoticeKept
  <2> QED BY <2>2, <2>6 DEF TellInv
<1>9. CASE DropMissingSecondary(t)
  <2>1. Errand(t)'
    BY <1>9, <1>0, DropMissingSecondaryStep DEF Local, dbVars, lockVars, instVars, otherVars, Errand, Outer, DropPc
  <2>2. ErrandInv' BY <1>9, <1>0, <2>1, DropMissingSecondaryStep, ErrandKept DEF Local, dbVars, lockVars, instVars, otherVars
  <2>3. t \notin Internal /\ Alive(t)' => Alive(t) \/ registered'[t]
    BY <1>9, <1>0, DropMissingSecondaryStep DEF Local, dbVars, lockVars, instVars, otherVars, Alive, Errand, DropPc
  <2>4. ASSUME NEW i \in Inst, WillTell(t, i) PROVE WillTell(t, i)' \/ Told(i)' \/ cut'[i]
    BY <1>9, <1>0, <2>4, DropMissingSecondaryStep DEF Local, dbVars, lockVars, instVars, otherVars, WillTell, Outer, Told, DropPc, Errand
  <2>5. /\ Local(t) /\ \A i \in Inst : registered[i] => registered'[i]
        /\ \A i \in Inst : Told(i) \/ cut[i] => Told(i)' \/ cut'[i]
    BY <1>9, <1>0, DropMissingSecondaryStep DEF Local, dbVars, lockVars, instVars, otherVars, Told
  <2>6. NoticeInv' BY <1>0, <2>3, <2>4, <2>5, NoticeKept
  <2> QED BY <2>2, <2>6 DEF TellInv
<1>10. CASE DropSecondariesEnd(t)
  <2>1. Errand(t)'
    BY <1>10, <1>0, DropSecondariesEndStep DEF Returns, Local, dbVars, otherVars, Errand, Outer, DropPc
  <2>2. ErrandInv' BY <1>10, <1>0, <2>1, DropSecondariesEndStep, ErrandKept DEF Returns, dbVars, otherVars
  <2>3. t \notin Internal /\ Alive(t)' => Alive(t) \/ registered'[t]
    BY <1>10, <1>0, DropSecondariesEndStep DEF Returns, Local, dbVars, otherVars, Alive, Errand, DropPc
  <2>4. ASSUME NEW i \in Inst, WillTell(t, i) PROVE WillTell(t, i)' \/ Told(i)' \/ cut'[i]
    BY <1>10, <1>0, <2>4, DropSecondariesEndStep DEF Returns, Local, dbVars, otherVars, WillTell, Outer, Told, DropPc, Errand
  <2>5. /\ Local(t) /\ \A i \in Inst : registered[i] => registered'[i]
        /\ \A i \in Inst : Told(i) \/ cut[i] => Told(i)' \/ cut'[i]
    BY <1>10, <1>0, DropSecondariesEndStep DEF Returns, dbVars, otherVars, Told
  <2>6. NoticeInv' BY <1>0, <2>3, <2>4, <2>5, NoticeKept
  <2> QED BY <2>2, <2>6 DEF TellInv
<1>11. CASE DropUnlinkLock(t)
  <2>1. Errand(t)'
    BY <1>11, <1>0, DropUnlinkLockStep DEF Moves, Goes, Local, dbVars, instVars, otherVars, Errand, Outer, DropPc
  <2>2. ErrandInv' BY <1>11, <1>0, <2>1, DropUnlinkLockStep, ErrandKept DEF Moves, Goes, dbVars, instVars, otherVars
  <2>3. t \notin Internal /\ Alive(t)' => Alive(t) \/ registered'[t]
    BY <1>11, <1>0, DropUnlinkLockStep DEF Moves, Goes, Local, dbVars, instVars, otherVars, Alive, Errand, DropPc
  <2>4. ASSUME NEW i \in Inst, WillTell(t, i) PROVE WillTell(t, i)' \/ Told(i)' \/ cut'[i]
    BY <1>11, <1>0, <2>4, DropUnlinkLockStep DEF Moves, Goes, Local, dbVars, instVars, otherVars, WillTell, Outer, Told, DropPc, Errand
  <2>5. /\ Local(t) /\ \A i \in Inst : registered[i] => registered'[i]
        /\ \A i \in Inst : Told(i) \/ cut[i] => Told(i)' \/ cut'[i]
    BY <1>11, <1>0, DropUnlinkLockStep DEF Moves, Goes, dbVars, instVars, otherVars, Told
  <2>6. NoticeInv' BY <1>0, <2>3, <2>4, <2>5, NoticeKept
  <2> QED BY <2>2, <2>6 DEF TellInv
<1>12. CASE DropNoPrimary(t)
  <2>1. Errand(t)'
    BY <1>12, <1>0, DropNoPrimaryStep DEF Returns, Local, dbVars, lockVars, instVars, otherVars, Errand, Outer, DropPc
  <2>2. ErrandInv' BY <1>12, <1>0, <2>1, DropNoPrimaryStep, ErrandKept DEF Returns, dbVars, lockVars, instVars, otherVars
  <2>3. t \notin Internal /\ Alive(t)' => Alive(t) \/ registered'[t]
    BY <1>12, <1>0, DropNoPrimaryStep DEF Returns, Local, dbVars, lockVars, instVars, otherVars, Alive, Errand, DropPc
  <2>4. ASSUME NEW i \in Inst, WillTell(t, i) PROVE WillTell(t, i)' \/ Told(i)' \/ cut'[i]
    BY <1>12, <1>0, <2>4, DropNoPrimaryStep DEF Returns, Local, dbVars, lockVars, instVars, otherVars, WillTell, Outer, Told, DropPc, Errand
  <2>5. /\ Local(t) /\ \A i \in Inst : registered[i] => registered'[i]
        /\ \A i \in Inst : Told(i) \/ cut[i] => Told(i)' \/ cut'[i]
    BY <1>12, <1>0, DropNoPrimaryStep DEF Returns, dbVars, lockVars, instVars, otherVars, Told
  <2>6. NoticeInv' BY <1>0, <2>3, <2>4, <2>5, NoticeKept
  <2> QED BY <2>2, <2>6 DEF TellInv
<1>13. CASE DropUnlink(t)
  <2>1. Errand(t)'
    BY <1>13, <1>0, DropUnlinkStep DEF Returns, Local, dbVars, otherVars, Errand, Outer, DropPc
  <2>2. ErrandInv' BY <1>13, <1>0, <2>1, DropUnlinkStep, ErrandKept DEF Returns, dbVars, otherVars
  <2>3. t \notin Internal /\ Alive(t)' => Alive(t) \/ registered'[t]
    BY <1>13, <1>0, DropUnlinkStep DEF Returns, Local, dbVars, otherVars, Alive, Errand, DropPc
  <2>4. ASSUME NEW i \in Inst, WillTell(t, i) PROVE WillTell(t, i)' \/ Told(i)' \/ cut'[i]
    BY <1>13, <1>0, <2>4, DropUnlinkStep DEF Returns, Local, dbVars, otherVars, WillTell, Outer, Told, DropPc, Errand
  <2>5. /\ Local(t) /\ \A i \in Inst : registered[i] => registered'[i]
        /\ \A i \in Inst : Told(i) \/ cut[i] => Told(i)' \/ cut'[i]
    BY <1>13, <1>0, DropUnlinkStep DEF Returns, dbVars, otherVars, Told
  <2>6. NoticeInv' BY <1>0, <2>3, <2>4, <2>5, NoticeKept
  <2> QED BY <2>2, <2>6 DEF TellInv
<1>14. CASE AnnounceUnreg(t)
  <2>1. Errand(t)'
    BY <1>14, <1>0, AnnounceUnregStep DEF Moves, Goes, Local, dbVars, lockVars, instVars, Errand, Outer, DropPc
  <2>2. ErrandInv' BY <1>14, <1>0, <2>1, AnnounceUnregStep, ErrandKept DEF Moves, Goes, dbVars, lockVars, instVars
  <2>3. t \notin Internal /\ Alive(t)' => Alive(t) \/ registered'[t]
    BY <1>14, <1>0, AnnounceUnregStep DEF Moves, Goes, Local, dbVars, lockVars, instVars, Alive, Errand, DropPc
  <2>4. ASSUME NEW i \in Inst, WillTell(t, i) PROVE WillTell(t, i)' \/ Told(i)' \/ cut'[i]
    BY <1>14, <1>0, <2>4, AnnounceUnregStep DEF Moves, Goes, Local, dbVars, lockVars, instVars, WillTell, Outer, Told, DropPc, Errand
  <2>5. /\ Local(t) /\ \A i \in Inst : registered[i] => registered'[i]
        /\ \A i \in Inst : Told(i) \/ cut[i] => Told(i)' \/ cut'[i]
    BY <1>14, <1>0, AnnounceUnregStep DEF Moves, Goes, dbVars, lockVars, instVars, Told
  <2>6. NoticeInv' BY <1>0, <2>3, <2>4, <2>5, NoticeKept
  <2> QED BY <2>2, <2>6 DEF TellInv
<1>15. CASE UnregisterEnd(t)
  <2>1. Errand(t)'
    BY <1>15, <1>0, UnregisterEndStep DEF Local, dbVars, lockVars, otherVars, Errand, Outer, DropPc
  <2>2. ErrandInv' BY <1>15, <1>0, <2>1, UnregisterEndStep, ErrandKept DEF Local, dbVars, lockVars, otherVars
  <2>3. t \notin Internal /\ Alive(t)' => Alive(t) \/ registered'[t]
    BY <1>15, <1>0, UnregisterEndStep DEF Local, dbVars, lockVars, otherVars, Alive, Errand, DropPc
  <2>4. ASSUME NEW i \in Inst, WillTell(t, i) PROVE WillTell(t, i)' \/ Told(i)' \/ cut'[i]
    BY <1>15, <1>0, <2>4, UnregisterEndStep DEF Local, dbVars, lockVars, otherVars, WillTell, Outer, Told, DropPc, Errand
  <2>5. /\ Local(t) /\ \A i \in Inst : registered[i] => registered'[i]
        /\ \A i \in Inst : Told(i) \/ cut[i] => Told(i)' \/ cut'[i]
    BY <1>15, <1>0, UnregisterEndStep DEF Local, dbVars, lockVars, otherVars, Told
  <2>6. NoticeInv' BY <1>0, <2>3, <2>4, <2>5, NoticeKept
  <2> QED BY <2>2, <2>6 DEF TellInv
<1> QED BY <1>1, <1>2, <1>3, <1>4, <1>5, <1>6, <1>7, <1>8, <1>9, <1>10, <1>11, <1>12, <1>13, <1>14, <1>15 DEF Drop

LEMMA OwnerTell ==
  ASSUME TypeOK, LockInv, CoreInv, TellInv, NEW t \in Inst, Owner(t)
  PROVE  TellInv'
<1>0. /\ cur \in [Inst -> Inst] /\ parent \in [Inst -> Inst \cup {None}]
      /\ clients \in [Name -> Inst \cup {None}] /\ todo \in [Inst -> SUBSET Name]
      /\ NoticeInv /\ ErrandInv /\ Errand(t)
      /\ parent[t] # None => pc[t] \in DropPc /\ pc[t] \notin {"d_sec", "d_loop"}
      /\ AfterDrop(t) \in {"f_trig", "done", "ann_unreg", "u_end"}
      /\ AfterDrop(t) = "f_trig" => cont[t] = "force"
      /\ AfterDrop(t) \in {"u_end", "ann_unreg"} => cont[t] \notin {"force", "drop"}
      /\ cont[t] = "force" => AfterDrop(t) = "f_trig"
      /\ cont[t] = "evict" => AfterDrop(t) \in {"u_end", "ann_unreg"}
      /\ cont[t] \in {"none", "force", "finish", "evict", "api", "drop"}
  BY AfterDropOut DEF TypeOK, LockInv, NestInv, TellInv, ErrandInv, AfterDrop
<1>1. CASE RespondOk(t)
  <2>1. Errand(t)'
    BY <1>1, <1>0, RespondOkStep DEF Moves, Goes, Local, dbVars, lockVars, instVars, otherVars, Errand, Outer, DropPc
  <2>2. ErrandInv' BY <1>1, <1>0, <2>1, RespondOkStep, ErrandKept DEF Moves, Goes, dbVars, lockVars, instVars, otherVars
  <2>3. t \notin Internal /\ Alive(t)' => Alive(t) \/ registered'[t]
    BY <1>1, <1>0, RespondOkStep DEF Moves, Goes, Local, dbVars, lockVars, instVars, otherVars, Alive, Errand, DropPc
  <2>4. ASSUME NEW i \in Inst, WillTell(t, i) PROVE WillTell(t, i)' \/ Told(i)' \/ cut'[i]
    BY <1>1, <1>0, <2>4, RespondOkStep DEF Moves, Goes, Local, dbVars, lockVars, instVars, otherVars, WillTell, Outer, Told, DropPc, Errand
  <2>5. /\ Local(t) /\ \A i \in Inst : registered[i] => registered'[i]
        /\ \A i \in Inst : Told(i) \/ cut[i] => Told(i)' \/ cut'[i]
    BY <1>1, <1>0, RespondOkStep DEF Moves, Goes, dbVars, lockVars, instVars, otherVars, Told
  <2>6. NoticeInv' BY <1>0, <2>3, <2>4, <2>5, NoticeKept
  <2> QED BY <2>2, <2>6 DEF TellInv
<1>2. CASE RespondFail(t)
  <2>1. Errand(t)'
    BY <1>2, <1>0, RespondFailStep DEF Moves, Goes, Local, dbVars, lockVars, instVars, otherVars, Errand, Outer, DropPc
  <2>2. ErrandInv' BY <1>2, <1>0, <2>1, RespondFailStep, ErrandKept DEF Moves, Goes, dbVars, lockVars, instVars, otherVars
  <2>3. t \notin Internal /\ Alive(t)' => Alive(t) \/ registered'[t]
    BY <1>2, <1>0, RespondFailStep DEF Moves, Goes, Local, dbVars, lockVars, instVars, otherVars, Alive, Errand, DropPc
  <2>4. ASSUME NEW i \in Inst, WillTell(t, i) PROVE WillTell(t, i)' \/ Told(i)' \/ cut'[i]
    BY <1>2, <1>0, <2>4, RespondFailStep DEF Moves, Goes, Local, dbVars, lockVars, instVars, otherVars, WillTell, Outer, Told, DropPc, Errand
  <2>5. /\ Local(t) /\ \A i \in Inst : registered[i] => registered'[i]
        /\ \A i \in Inst : Told(i) \/ cut[i] => Told(i)' \/ cut'[i]
    BY <1>2, <1>0, RespondFailStep DEF Moves, Goes, dbVars, lockVars, instVars, otherVars, Told
  <2>6. NoticeInv' BY <1>0, <2>3, <2>4, <2>5, NoticeKept
  <2> QED BY <2>2, <2>6 DEF TellInv
<1>3. CASE Disconnect(t)
  <2>1. Errand(t)'
    BY <1>3, <1>0, DisconnectStep DEF Calls, Local, dbVars, lockVars, instVars, Errand, Outer, DropPc
  <2>2. ErrandInv' BY <1>3, <1>0, <2>1, DisconnectStep, ErrandKept DEF Calls, dbVars, lockVars, instVars
  <2>3. t \notin Internal /\ Alive(t)' => Alive(t) \/ registered'[t]
    BY <1>3, <1>0, DisconnectStep DEF Calls, Local, dbVars, lockVars, instVars, Alive, Errand, DropPc
  <2>4. ASSUME NEW i \in Inst, WillTell(t, i) PROVE WillTell(t, i)' \/ Told(i)' \/ cut'[i]
    BY <1>3, <1>0, <2>4, DisconnectStep DEF Calls, Local, dbVars, lockVars, instVars, WillTell, Outer, Told, DropPc, Errand
  <2>5. /\ Local(t) /\ \A i \in Inst : registered[i] => registered'[i]
        /\ \A i \in Inst : Told(i) \/ cut[i] => Told(i)' \/ cut'[i]
    BY <1>3, <1>0, DisconnectStep DEF Calls, dbVars, lockVars, instVars, Told
  <2>6. NoticeInv' BY <1>0, <2>3, <2>4, <2>5, NoticeKept
  <2> QED BY <2>2, <2>6 DEF TellInv
<1>4. CASE BrokerUnregister(t)
  <2>1. Errand(t)'
    BY <1>4, <1>0, BrokerUnregisterStep DEF Calls, Local, dbVars, lockVars, instVars, otherVars, Errand, Outer, DropPc
  <2>2. ErrandInv' BY <1>4, <1>0, <2>1, BrokerUnregisterStep, ErrandKept DEF Calls, dbVars, lockVars, instVars, otherVars
  <2>3. t \notin Internal /\ Alive(t)' => Alive(t) \/ registered'[t]
    BY <1>4, <1>0, BrokerUnregisterStep DEF Calls, Local, dbVars, lockVars, instVars, otherVars, Alive, Errand, DropPc
  <2>4. ASSUME NEW i \in Inst, WillTell(t, i) PROVE WillTell(t, i)' \/ Told(i)' \/ cut'[i]
    BY <1>4, <1>0, <2>4, BrokerUnregisterStep DEF Calls, Local, dbVars, lockVars, instVars, otherVars, WillTell, Outer, Told, DropPc, Errand
  <2>5. /\ Local(t) /\ \A i \in Inst : registered[i] => registered'[i]
        /\ \A i \in Inst : Told(i) \/ cut[i] => Told(i)' \/ cut'[i]
    BY <1>4, <1>0, BrokerUnregisterStep DEF Calls, dbVars, lockVars, instVars, otherVars, Told
  <2>6. NoticeInv' BY <1>0, <2>3, <2>4, <2>5, NoticeKept
  <2> QED BY <2>2, <2>6 DEF TellInv
<1>5. CASE ClientUnregister(t)
  <2>1. Errand(t)'
    BY <1>5, <1>0, ClientUnregisterStep DEF Local, dbVars, lockVars, otherVars, Errand, Outer, DropPc
  <2>2. ErrandInv' BY <1>5, <1>0, <2>1, ClientUnregisterStep, ErrandKept DEF Local, dbVars, lockVars, otherVars
  <2>a. /\ t \in Internal /\ pc[t] = "run" /\ Local(t)
        /\ triggered' = triggered /\ closed' = closed /\ cut' = cut
        /\ \A i \in Inst : i # t => registered'[i] = registered[i]
    BY <1>5, ClientUnregisterStep DEF otherVars
  <2>b. ASSUME NEW u \in Inst, NEW i \in Inst, WillTell(u, i) PROVE WillTell(u, i)'
    <3>1. u # t
      BY <2>a, <2>b DEF WillTell, DropPc
    <3>2. pc'[u] = pc[u] /\ cur'[u] = cur[u] /\ parent'[u] = parent[u] /\ cont'[u] = cont[u]
      BY <2>a, <3>1 DEF Local
    <3> QED BY <2>b, <3>2 DEF WillTell, Outer
  <2>c. ASSUME NEW i \in Inst, i # t, Alive(i)' PROVE Alive(i)
    BY <2>a, <2>c DEF Alive, Local
  <2>3. ASSUME NEW i \in Inst PROVE Notice(i)'
    BY <1>0, <2>a, <2>b, <2>c DEF NoticeInv, Notice, Told
  <2> QED BY <2>2, <2>3 DEF TellInv, NoticeInv
<1>6. CASE ClientDrop(t)
  <2>1. Errand(t)'
    BY <1>6, <1>0, ClientDropStep DEF Local, dbVars, lockVars, instVars, otherVars, Errand, Outer, DropPc
  <2>2. ErrandInv' BY <1>6, <1>0, <2>1, ClientDropStep, ErrandKept DEF Local, dbVars, lockVars, instVars, otherVars
  <2>3. t \notin Internal /\ Alive(t)' => Alive(t) \/ registered'[t]
    BY <1>6, <1>0, ClientDropStep DEF Local, dbVars, lockVars, instVars, otherVars, Alive, Errand, DropPc
  <2>4. ASSUME NEW i \in Inst, WillTell(t, i) PROVE WillTell(t, i)' \/ Told(i)' \/ cut'[i]
    BY <1>6, <1>0, <2>4, ClientDropStep DEF Local, dbVars, lockVars, instVars, otherVars, WillTell, Outer, Told, DropPc, Errand
  <2>5. /\ Local(t) /\ \A i \in Inst : registered[i] => registered'[i]
        /\ \A i \in Inst : Told(i) \/ cut[i] => Told(i)' \/ cut'[i]
    BY <1>6, <1>0, ClientDropStep DEF Local, dbVars, lockVars, instVars, otherVars, Told
  <2>6. NoticeInv' BY <1>0, <2>3, <2>4, <2>5, NoticeKept
  <2> QED BY <2>2, <2>6 DEF TellInv
<1>7. CASE Lookup(t)
  <2>1. Errand(t)'
    BY <1>7, <1>0, LookupStep DEF Local, dbVars, lockVars, instVars, otherVars, Errand, Outer, DropPc
  <2>2. ErrandInv' BY <1>7, <1>0, <2>1, LookupStep, ErrandKept DEF Local, dbVars, lockVars, instVars, otherVars
  <2>3. t \notin Internal /\ Alive(t)' => Alive(t) \/ registered'[t]
    BY <1>7, <1>0, LookupStep DEF Local, dbVars, lockVars, instVars, otherVars, Alive, Errand, DropPc
  <2>4. ASSUME NEW i \in Inst, WillTell(t, i) PROVE WillTell(t, i)' \/ Told(i)' \/ cut'[i]
    BY <1>7, <1>0, <2>4, LookupStep DEF Local, dbVars, lockVars, instVars, otherVars, WillTell, Outer, Told, DropPc, Errand
  <2>5. /\ Local(t) /\ \A i \in Inst : registered[i] => registered'[i]
        /\ \A i \in Inst : Told(i) \/ cut[i] => Told(i)' \/ cut'[i]
    BY <1>7, <1>0, LookupStep DEF Local, dbVars, lockVars, instVars, otherVars, Told
  <2>6. NoticeInv' BY <1>0, <2>3, <2>4, <2>5, NoticeKept
  <2> QED BY <2>2, <2>6 DEF TellInv
<1>8. CASE SendEnd(t) /\ pc[t] = "sending"
  <2>1. Errand(t)'
    BY <1>8, <1>0, SendEndStep DEF Local, dbVars, lockVars, instVars, otherVars, Errand, Outer, DropPc
  <2>2. ErrandInv' BY <1>8, <1>0, <2>1, SendEndStep, ErrandKept DEF Local, dbVars, lockVars, instVars, otherVars
  <2>3. t \notin Internal /\ Alive(t)' => Alive(t) \/ registered'[t]
    BY <1>8, <1>0, SendEndStep DEF Local, dbVars, lockVars, instVars, otherVars, Alive, Errand, DropPc
  <2>4. ASSUME NEW i \in Inst, WillTell(t, i) PROVE WillTell(t, i)' \/ Told(i)' \/ cut'[i]
    BY <1>8, <1>0, <2>4, SendEndStep DEF Local, dbVars, lockVars, instVars, otherVars, WillTell, Outer, Told, DropPc, Errand
  <2>5. /\ Local(t) /\ \A i \in Inst : registered[i] => registered'[i]
        /\ \A i \in Inst : Told(i) \/ cut[i] => Told(i)' \/ cut'[i]
    BY <1>8, <1>0, SendEndStep DEF Local, dbVars, lockVars, instVars, otherVars, Told
  <2>6. NoticeInv' BY <1>0, <2>3, <2>4, <2>5, NoticeKept
  <2> QED BY <2>2, <2>6 DEF TellInv
<1>9. CASE Evict(t)
  <2>1. Errand(t)'
    BY <1>9, <1>0, EvictStep DEF Calls, Local, dbVars, lockVars, instVars, otherVars, Errand, Outer, DropPc
  <2>2. ErrandInv' BY <1>9, <1>0, <2>1, EvictStep, ErrandKept DEF Calls, dbVars, lockVars, instVars, otherVars
  <2>3. t \notin Internal /\ Alive(t)' => Alive(t) \/ registered'[t]
    BY <1>9, <1>0, EvictStep DEF Calls, Local, dbVars, lockVars, instVars, otherVars, Alive, Errand, DropPc
  <2>4. ASSUME NEW i \in Inst, WillTell(t, i) PROVE WillTell(t, i)' \/ Told(i)' \/ cut'[i]
    BY <1>9, <1>0, <2>4, EvictStep DEF Calls, Local, dbVars, lockVars, instVars, otherVars, WillTell, Outer, Told, DropPc, Errand
  <2>5. /\ Local(t) /\ \A i \in Inst : registered[i] => registered'[i]
        /\ \A i \in Inst : Told(i) \/ cut[i] => Told(i)' \/ cut'[i]
    BY <1>9, <1>0, EvictStep DEF Calls, dbVars, lockVars, instVars, otherVars, Told
  <2>6. NoticeInv' BY <1>0, <2>3, <2>4, <2>5, NoticeKept
  <2> QED BY <2>2, <2>6 DEF TellInv
<1>10. ASSUME NEW x \in Topic, Subscribe(t, x) \/ Unsubscribe(t, x) PROVE TellInv'
  BY <1>10, SameTell DEF Subscribe, Unsubscribe, instVars, taskVars, otherVars
<1>11. CASE SendEnd(t) /\ PublishDropped(t)
  <2>1. Errand(t)'
    BY <1>11, <1>0, PublishDroppedStep DEF Local, dbVars, lockVars, instVars, otherVars, Errand, Outer, DropPc
  <2>2. ErrandInv' BY <1>11, <1>0, <2>1, PublishDroppedStep, ErrandKept DEF Local, dbVars, lockVars, instVars, otherVars
  <2>3. t \notin Internal /\ Alive(t)' => Alive(t) \/ registered'[t]
    BY <1>11, <1>0, PublishDroppedStep DEF Local, dbVars, lockVars, instVars, otherVars, Alive, Errand, DropPc
  <2>a. Core # None /\ parent[t] = None /\ cut[cur[t]]
    BY <1>11, <1>0, PublishDroppedStep DEF CoreInv, DropPc
  <2>4. ASSUME NEW i \in Inst, WillTell(t, i) PROVE cut'[i]
    BY <1>11, <2>4, <2>a, PublishDroppedStep DEF otherVars, WillTell, Outer
  <2>5. /\ Local(t) /\ \A i \in Inst : registered[i] => registered'[i]
        /\ \A i \in Inst : Told(i) \/ cut[i] => Told(i)' \/ cut'[i]
    BY <1>11, <1>0, PublishDroppedStep DEF Local, dbVars, lockVars, instVars, otherVars, Told
  <2>6. NoticeInv' BY <1>0, <2>3, <2>4, <2>5, NoticeKept
  <2> QED BY <2>2, <2>6 DEF TellInv
<1> QED BY <1>1, <1>2, <1>3, <1>4, <1>5, <1>6, <1>7, <1>8, <1>9, <1>10, <1>11 DEF Owner, SendEnd

LEMMA NextTell ==
  ASSUME TypeOK, LockInv, CoreInv, TellInv, [Next]_vars
  PROVE  TellInv'
<1>1. ASSUME NEW t \in Inst, Insert(t) PROVE TellInv' BY <1>1, InsertTell
<1>2. ASSUME NEW t \in Inst, Drop(t) PROVE TellInv' BY <1>2, DropTell
<1>3. ASSUME NEW t \in Inst, Owner(t) PROVE TellInv' BY <1>3, OwnerTell
<1>4. ASSUME NEW n \in Kicked, ForceDisconnect(n) PROVE TellInv'
  <2>1. /\ UNCHANGED <<registered, closed, cut, pc, cur, parent, cont>>
        /\ \A i \in Inst : triggered[i] => triggered'[i]
        /\ cur \in [Inst -> Inst]
    BY <1>4 DEF ForceDisconnect, TypeOK, taskVars, otherVars
  <2> QED BY <2>1 DEF TellInv, NoticeInv, ErrandInv, Notice, Errand, Told, Alive, WillTell, Outer
<1>6. CASE List
  BY <1>6, SameTell DEF List, ListLock, ListCount, ListEnd, instVars, taskVars, otherVars
<1>7. CASE UNCHANGED vars
  BY <1>7, SameTell DEF vars, instVars, taskVars, otherVars
<1>8. ASSUME NEW t \in Inst, AnnounceLock(t) PROVE TellInv'
  BY <1>8, SameTell DEF AnnounceLock, instVars, taskVars
<1> QED BY <1>1, <1>2, <1>3, <1>4, <1>6, <1>7, <1>8 DEF Next, Terminated

\* A connection that a displacement, an eviction or the drop of its primary has
\* unregistered is told to end by its trigger or by its closed queue, for any
\* number of workers, unless the eviction is suspended in its announce or was
\* cancelled there.
THEOREM EvictionsTold == Spec => []EvictedAreTold
<1>1. Init => TypeOK /\ LockInv /\ CoreInv /\ TellInv
  <2>1. Init => TellInv
    BY DEF Init, TellInv, NoticeInv, ErrandInv, Notice, Errand, Alive, DropPc
  <2> QED BY <2>1, InitType, InitLockInv, InitCore
<1>2. TypeOK /\ LockInv /\ CoreInv /\ TellInv /\ [Next]_vars =>
        (TypeOK /\ LockInv /\ CoreInv /\ TellInv)'
  BY NextType, NextLockInv, NextCore, NextTell
<1>3. TypeOK /\ LockInv /\ TellInv => EvictedAreTold
  <2> SUFFICES ASSUME TypeOK, LockInv, TellInv, Quiet, NEW i \in Inst \ Internal,
                      pc[i] \in {"resp", "run", "sending"}, ~registered[i], ~Told(i), ~cut[i]
               PROVE  \E t \in Inst : Evicting(t) /\ cur[t] = i
    BY DEF EvictedAreTold
  <2>1. \A u \in Inst : pc[u] \notin Section
    BY DEF Quiet, Busy
  <2>2. PICK u \in Inst : WillTell(u, i)
    BY DEF TellInv, NoticeInv, Notice, Alive
  <2>3. pc[u] = "ann_unreg" /\ cont[u] = "evict"
    BY <2>1, <2>2 DEF WillTell, Section
  <2>4. parent[u] = None
    BY <2>3 DEF LockInv, NestInv, DropPc
  <2> QED BY <2>2, <2>3, <2>4 DEF WillTell, Outer, Evicting
<1> QED BY <1>1, <1>2, <1>3, PTL DEF Spec

-----------------------------------------------------------------------------
(* One worker: the code between two awaits runs alone.                     *)

Alone == \A x, y \in Busy : x = y

\* Nobody but t is between two awaits.
Others(t) ==
  /\ \A u \in Inst : u # t => pc[u] \notin Section
  /\ clientsLock # Lister

\* With one worker there is room when nobody is between two awaits.
LEMMA RoomIsQuiet ==
  ASSUME Workers = 1, Alone, Room
  PROVE  Busy = {}
<1> SUFFICES ASSUME NEW x \in Busy PROVE FALSE
  OBVIOUS
<1>1. Busy = {x} BY DEF Alone
<1>2. Cardinality(Busy) = 1 BY <1>1, FS_Singleton
<1> QED BY <1>2 DEF Room

\* Whoever takes a step is alone.
LEMMA ActorIsAlone ==
  ASSUME Workers = 1, Alone, NEW t \in Inst, Insert(t) \/ Drop(t) \/ Owner(t)
  PROVE  Others(t)
<1>1. pc[t] \in Section \/ Room
  <2>1. CASE Insert(t)
    BY <2>1 DEF Insert, InsertNoPrimary, InsertBusy, InsertLock, InsertSecondary, InsertBroadcast,
      InsertSubscriptions, InsertEnd, AnnounceReg, AnnounceUnlock, ForceRemove, ForceVacant, ForceTrigger,
      AtInsert, Enter, Section, InsertLocked
  <2>2. CASE Drop(t)
    BY <2>2 DEF Drop, DropLoad, DropNotRegistered, DropStore, DropSubscriptions, DropBroadcast,
      DropClients, DropLockSecondaries, DropNextSecondary, DropMissingSecondary, DropSecondariesEnd,
      DropUnlinkLock, DropNoPrimary, DropUnlink, AnnounceUnreg, AnnounceUnlock, UnregisterEnd, Section, DropPc
  <2>3. CASE Owner(t)
    BY <2>3 DEF Owner, RespondOk, RespondFail, Disconnect, PublishDropped, BrokerUnregister, ClientUnregister,
      ClientDrop, Subscribe, Unsubscribe, Lookup, SendEnd, Evict, CallUnregister, Enter
  <2> QED BY <2>1, <2>2, <2>3
<1>2. CASE pc[t] \in Section
  <2>1. t \in Busy BY <1>2 DEF Busy
  <2>2. ASSUME NEW u \in Inst, pc[u] \in Section PROVE u = t
    BY <2>1, <2>2 DEF Busy, Alone
  <2>3. clientsLock # Lister
    BY <2>1 DEF Busy, Alone
  <2> QED BY <2>2, <2>3 DEF Others
<1>3. CASE Room
  BY <1>3, RoomIsQuiet DEF Busy, Others
<1> QED BY <1>1, <1>2, <1>3

LEMMA NextAlone ==
  ASSUME Workers = 1, TypeOK, Alone, [Next]_vars
  PROVE  Alone'
<1>1. ASSUME NEW t \in Inst, Insert(t) \/ Drop(t) \/ Owner(t) PROVE Alone'
  <2>1. Others(t) BY <1>1, ActorIsAlone
  <2>2. (\A u \in Inst : u # t => pc'[u] = pc[u]) /\ (clientsLock' \in {clientsLock, t, None})
    <3> USE DEF TypeOK, Goto, lockVars, taskVars
    <3>1. CASE Insert(t)
      BY <3>1 DEF Insert, InsertNoPrimary, InsertBusy, InsertLock, InsertSecondary, InsertBroadcast,
        InsertSubscriptions, InsertEnd, AnnounceReg, ForceRemove, ForceVacant, ForceTrigger
    <3>2. CASE Drop(t)
      BY <3>2 DEF Drop, DropLoad, DropNotRegistered, DropStore, DropSubscriptions, DropBroadcast,
        DropClients, DropLockSecondaries, DropNextSecondary, DropMissingSecondary, DropSecondariesEnd,
        DropUnlinkLock, DropNoPrimary, DropUnlink, AnnounceUnreg, UnregisterEnd, DropReturn
    <3>3. CASE Owner(t)
      BY <3>3 DEF Owner, RespondOk, RespondFail, Disconnect, PublishDropped, BrokerUnregister, ClientUnregister,
        ClientDrop, Subscribe, Unsubscribe, Lookup, SendEnd, Evict, CallUnregister
    <3> QED BY <1>1, <3>1, <3>2, <3>3
  <2>3. ASSUME NEW x \in Busy' PROVE x = t
    BY <2>1, <2>2 DEF Busy, Others
  <2> QED BY <2>3 DEF Alone
<1>2. ASSUME NEW n \in Kicked, ForceDisconnect(n) PROVE Alone'
  BY <1>2 DEF ForceDisconnect, Alone, Busy, lockVars, taskVars
<1>3. CASE ListLock
  <2>1. Busy = {} BY <1>3, RoomIsQuiet DEF ListLock
  <2> QED BY <1>3, <2>1 DEF ListLock, Alone, Busy, taskVars
<1>4. ASSUME NEW i \in Inst, ListCount(i) PROVE Alone'
  BY <1>4 DEF ListCount, Alone, Busy, lockVars, taskVars
<1>5. CASE ListEnd
  BY <1>5 DEF ListEnd, Alone, Busy, taskVars
<1>6. CASE UNCHANGED vars
  BY <1>6 DEF vars, Alone, Busy, lockVars, taskVars
<1>7. ASSUME NEW t \in Inst, AnnounceLock(t) PROVE Alone'
  BY <1>7 DEF AnnounceLock, Alone, Busy, lockVars, taskVars
<1> QED BY <1>1, <1>2, <1>3, <1>4, <1>5, <1>6, <1>7 DEF Next, List, Terminated

-----------------------------------------------------------------------------
(* The indexes agree, with one worker and no Client::unregister.           *)

\* The name is entered in all three indexes or in none.
Settled(n) == broadcasts[n] = clients[n] /\ (n \in subreg <=> clients[n] # None)
\* The flag says whether the client is listed.
Flagged(i) == registered[i] <=> clients[name[i]] = i

\* The task is at work on the entries of n, or on the flag of i.
Working(t, n) ==
  \/ pc[t] \in {"ins_sub", "ins_end"} /\ n = name[t]
  \/ pc[t] \in DropPc /\ n = name[cur[t]]
Dropped(t, i) == pc[t] \in DropPc /\ cur[t] = i

\* The client that is dropped was displaced: ForceRemove took it out of clients.
Displacing(t) == cont[t] = "force" /\ parent[t] = None

\* Where insert_client is with the entries of its client.
InsertWork(t) ==
  /\ pc[t] \in InsertLocked => clients[name[t]] = None
  /\ pc[t] \in {"ins_sub", "ins_end"} =>
       broadcasts[name[t]] = t /\ (name[t] \in subreg <=> pc[t] = "ins_end")

\* Where drop_client is with the entries of the client it drops.
DropWork(t) ==
  LET c == cur[t]  n == name[cur[t]] IN
  /\ pc[t] = "d_load" /\ Displacing(t) =>
       registered[c] /\ clients[n] = None /\ broadcasts[n] = c /\ n \in subreg
  /\ pc[t] = "d_load" /\ ~Displacing(t) =>
       Settled(n) /\ Flagged(c) /\ (parent[t] # None => clients[n] = c)
  /\ pc[t] \in {"d_store", "d_subs", "d_bcast", "d_clients"} =>
       /\ registered[c] <=> pc[t] = "d_store"
       /\ n \in subreg <=> pc[t] \in {"d_store", "d_subs"}
       /\ pc[t] = "d_clients" => broadcasts[n] = None
       /\ pc[t] # "d_clients" => broadcasts[n] = c
       /\ Displacing(t) => clients[n] = None
       /\ ~Displacing(t) => clients[n] = c
  /\ pc[t] \in {"d_sec", "d_loop", "d_unlink_lock", "d_unlink"} =>
       ~registered[c] /\ n \notin subreg /\ broadcasts[n] = None /\ clients[n] = None
  /\ pc[t] \in DropPc /\ parent[t] # None =>
       LET m == name[parent[t]] IN
       ~registered[parent[t]] /\ m \notin subreg /\ broadcasts[m] = None /\ clients[m] = None

\* What holds of the indexes while t is the only task between two awaits.
IndexAt(t) ==
  /\ \A n \in Name : Working(t, n) \/ Settled(n)
  /\ \A i \in Inst : Dropped(t, i) \/ Flagged(i)
  /\ InsertWork(t)
  /\ DropWork(t)

Idle == \A u \in Inst : pc[u] \notin Section
IndexCalm == (\A n \in Name : Settled(n)) /\ (\A i \in Inst : Flagged(i))
IndexInv ==
  /\ Idle => IndexCalm
  /\ \A t \in Inst : pc[t] \in Section => IndexAt(t)

\* The task that takes a step finds the indexes in order, or as it left them.
LEMMA IndexBefore ==
  ASSUME IndexInv, NEW t \in Inst, Others(t)
  PROVE  IndexAt(t)
<1>1. CASE pc[t] \in Section
  BY <1>1 DEF IndexInv
<1>2. CASE pc[t] \notin Section
  <2>1. IndexCalm BY <1>2 DEF IndexInv, Idle, Others
  <2> QED BY <1>2, <2>1 DEF IndexAt, IndexCalm, InsertWork, DropWork, Section, InsertLocked, DropPc
<1> QED BY <1>1, <1>2

\* When it reaches an await it leaves them in order.
LEMMA IndexAfter ==
  ASSUME NEW t \in Inst, Others(t), Local(t), IndexAt(t)'
  PROVE  IndexInv'
<1>1. \A u \in Inst : u # t => pc'[u] \notin Section
  BY DEF Others, Local
<1>2. \A u \in Inst : pc'[u] \in Section => IndexAt(u)'
  BY <1>1
<1>3. ASSUME pc'[t] \notin Section PROVE IndexCalm'
  BY <1>3 DEF IndexAt, IndexCalm, Working, Dropped, Section, InsertLocked
<1> QED BY <1>2, <1>3 DEF IndexInv, Idle

\* A secondary and a primary have different names.
LEMMA KindOfName ==
  ASSUME NEW i \in Inst, NEW j \in Inst, Primary(i), ~Primary(j)
  PROVE  name[i] # name[j]
BY DEF Primary

LEMMA SameIndex ==
  ASSUME IndexInv, UNCHANGED <<clients, broadcasts, subreg, registered, pc, cur, parent, cont>>
  PROVE  IndexInv'
<1>1. \A t \in Inst : IndexAt(t) => IndexAt(t)'
  BY DEF IndexAt, Working, Settled, Dropped, Flagged, InsertWork, DropWork, Displacing
<1>2. IndexCalm => IndexCalm'
  BY DEF IndexCalm, Settled, Flagged
<1> QED BY <1>1, <1>2 DEF IndexInv, Idle

LEMMA InsertIndex ==
  ASSUME TypeOK, LockInv, IndexInv, MayUnregister = {}, NEW t \in Inst, Others(t), Insert(t)
  PROVE  IndexInv'
<1>0. /\ clients \in [Name -> Inst \cup {None}] /\ broadcasts \in [Name -> Inst \cup {None}]
      /\ cur \in [Inst -> Inst] /\ parent \in [Inst -> Inst \cup {None}]
      /\ todo \in [Inst -> SUBSET Name] /\ subreg \subseteq Name
      /\ IndexAt(t)
      /\ \A n \in Name : clients[n] # None => name[clients[n]] = n
      /\ parent[t] # None => pc[t] \in DropPc /\ Primary(parent[t]) /\ ~Primary(cur[t])
      /\ pc[t] \in {"d_sec", "d_loop"} => Primary(cur[t])
      /\ AfterDrop(t) \in {"f_trig", "done", "ann_unreg", "u_end"}
  BY AfterDropOut, IndexBefore DEF TypeOK, LockInv, BornInv, NestInv
<1>i. /\ \A n \in Name : Working(t, n) \/ Settled(n)
      /\ \A i \in Inst : Dropped(t, i) \/ Flagged(i)
      /\ InsertWork(t) /\ DropWork(t)
  BY <1>0 DEF IndexAt
<1>1. CASE InsertNoPrimary(t)
  <2>1. (\A n \in Name : Working(t, n) \/ Settled(n))'
    BY <1>1, <1>0, <1>i, InsertNoPrimaryStep DEF Moves, Goes, Local, dbVars, lockVars, instVars, otherVars, DropPc, InsertLocked, Working, Settled, InsertWork, DropWork, Displacing
  <2>2. (\A i \in Inst : Dropped(t, i) \/ Flagged(i))'
    BY <1>1, <1>0, <1>i, InsertNoPrimaryStep DEF Moves, Goes, dbVars, instVars, DropPc, Dropped, Flagged
  <2>3. InsertWork(t)'
    BY <1>1, <1>0, <1>i, InsertNoPrimaryStep DEF Moves, Goes, Local, dbVars, lockVars, instVars, otherVars, DropPc, InsertLocked, Working, Settled, InsertWork
  <2>4. DropWork(t)'
    BY <1>1, <1>0, <1>i, InsertNoPrimaryStep DEF Moves, Goes, Local, dbVars, lockVars, instVars, otherVars, DropPc, InsertLocked, Working, Settled, Dropped, Flagged, DropWork, Displacing
  <2> QED BY <1>1, <2>1, <2>2, <2>3, <2>4, InsertNoPrimaryStep, IndexAfter DEF Moves, Goes, dbVars, lockVars, instVars, otherVars, IndexAt
<1>2. CASE InsertBusy(t)
  <2>1. (\A n \in Name : Working(t, n) \/ Settled(n))'
    BY <1>2, <1>0, <1>i, InsertBusyStep DEF Moves, Goes, Local, dbVars, lockVars, instVars, otherVars, DropPc, InsertLocked, Working, Settled, InsertWork, DropWork, Displacing
  <2>2. (\A i \in Inst : Dropped(t, i) \/ Flagged(i))'
    BY <1>2, <1>0, <1>i, InsertBusyStep DEF Moves, Goes, Local, dbVars, lockVars, instVars, otherVars, DropPc, InsertLocked, Dropped, Flagged, InsertWork, DropWork, Displacing
  <2>3. InsertWork(t)'
    BY <1>2, <1>0, <1>i, InsertBusyStep DEF Moves, Goes, Local, dbVars, lockVars, instVars, otherVars, DropPc, InsertLocked, Working, Settled, InsertWork
  <2>4. DropWork(t)'
    BY <1>2, <1>0, <1>i, InsertBusyStep DEF Moves, Goes, Local, dbVars, lockVars, instVars, otherVars, DropPc, InsertLocked, Working, Settled, Dropped, Flagged, DropWork, Displacing
  <2> QED BY <1>2, <2>1, <2>2, <2>3, <2>4, InsertBusyStep, IndexAfter DEF Moves, Goes, dbVars, lockVars, instVars, otherVars, IndexAt
<1>3. CASE InsertLock(t)
  <2>1. (\A n \in Name : Working(t, n) \/ Settled(n))'
    BY <1>3, <1>0, <1>i, InsertLockStep DEF Moves, Goes, Local, dbVars, instVars, otherVars, DropPc, InsertLocked, Working, Settled, InsertWork, DropWork, Displacing
  <2>2. (\A i \in Inst : Dropped(t, i) \/ Flagged(i))'
    BY <1>3, <1>0, <1>i, InsertLockStep DEF Moves, Goes, Local, dbVars, instVars, otherVars, DropPc, InsertLocked, Dropped, Flagged, InsertWork, DropWork, Displacing
  <2>3. InsertWork(t)'
    BY <1>3, <1>0, <1>i, InsertLockStep DEF Moves, Goes, Local, dbVars, instVars, otherVars, DropPc, InsertLocked, Working, Settled, InsertWork
  <2>4. DropWork(t)'
    BY <1>3, <1>0, <1>i, InsertLockStep DEF Moves, Goes, Local, dbVars, instVars, otherVars, DropPc, InsertLocked, Working, Settled, Dropped, Flagged, DropWork, Displacing
  <2> QED BY <1>3, <2>1, <2>2, <2>3, <2>4, InsertLockStep, IndexAfter DEF Moves, Goes, dbVars, instVars, otherVars, IndexAt
<1>4. CASE InsertSecondary(t)
  <2>1. (\A n \in Name : Working(t, n) \/ Settled(n))'
    BY <1>4, <1>0, <1>i, InsertSecondaryStep DEF Moves, Goes, Local, dbVars, lockVars, otherVars, DropPc, InsertLocked, Working, Settled, InsertWork, DropWork, Displacing
  <2>2. (\A i \in Inst : Dropped(t, i) \/ Flagged(i))'
    BY <1>4, <1>0, <1>i, InsertSecondaryStep DEF Moves, Goes, Local, dbVars, lockVars, otherVars, DropPc, InsertLocked, Dropped, Flagged, InsertWork, DropWork, Displacing
  <2>3. InsertWork(t)'
    BY <1>4, <1>0, <1>i, InsertSecondaryStep DEF Moves, Goes, Local, dbVars, lockVars, otherVars, DropPc, InsertLocked, Working, Settled, InsertWork
  <2>4. DropWork(t)'
    BY <1>4, <1>0, <1>i, InsertSecondaryStep DEF Moves, Goes, Local, dbVars, lockVars, otherVars, DropPc, InsertLocked, Working, Settled, Dropped, Flagged, DropWork, Displacing
  <2> QED BY <1>4, <2>1, <2>2, <2>3, <2>4, InsertSecondaryStep, IndexAfter DEF Moves, Goes, dbVars, lockVars, otherVars, IndexAt
<1>5. CASE InsertBroadcast(t)
  <2>1. (\A n \in Name : Working(t, n) \/ Settled(n))'
    BY <1>5, <1>0, <1>i, InsertBroadcastStep DEF Moves, Goes, Local, lockVars, instVars, otherVars, DropPc, InsertLocked, Working, Settled, InsertWork, DropWork, Displacing
  <2>2. (\A i \in Inst : Dropped(t, i) \/ Flagged(i))'
    BY <1>5, <1>0, <1>i, InsertBroadcastStep DEF Moves, Goes, Local, lockVars, instVars, otherVars, DropPc, InsertLocked, Dropped, Flagged, InsertWork, DropWork, Displacing
  <2>3. InsertWork(t)'
    BY <1>5, <1>0, <1>i, InsertBroadcastStep DEF Moves, Goes, Local, lockVars, instVars, otherVars, DropPc, InsertLocked, Working, Settled, InsertWork
  <2>4. DropWork(t)'
    BY <1>5, <1>0, <1>i, InsertBroadcastStep DEF Moves, Goes, Local, lockVars, instVars, otherVars, DropPc, InsertLocked, Working, Settled, Dropped, Flagged, DropWork, Displacing
  <2> QED BY <1>5, <2>1, <2>2, <2>3, <2>4, InsertBroadcastStep, IndexAfter DEF Moves, Goes, lockVars, instVars, otherVars, IndexAt
<1>6. CASE InsertSubscriptions(t)
  <2>1. (\A n \in Name : Working(t, n) \/ Settled(n))'
    BY <1>6, <1>0, <1>i, InsertSubscriptionsStep DEF Moves, Goes, Local, lockVars, instVars, otherVars, DropPc, InsertLocked, Working, Settled, InsertWork, DropWork, Displacing
  <2>2. (\A i \in Inst : Dropped(t, i) \/ Flagged(i))'
    BY <1>6, <1>0, <1>i, InsertSubscriptionsStep DEF Moves, Goes, Local, lockVars, instVars, otherVars, DropPc, InsertLocked, Dropped, Flagged, InsertWork, DropWork, Displacing
  <2>3. InsertWork(t)'
    BY <1>6, <1>0, <1>i, InsertSubscriptionsStep DEF Moves, Goes, Local, lockVars, instVars, otherVars, DropPc, InsertLocked, Working, Settled, InsertWork
  <2>4. DropWork(t)'
    BY <1>6, <1>0, <1>i, InsertSubscriptionsStep DEF Moves, Goes, Local, lockVars, instVars, otherVars, DropPc, InsertLocked, Working, Settled, Dropped, Flagged, DropWork, Displacing
  <2> QED BY <1>6, <2>1, <2>2, <2>3, <2>4, InsertSubscriptionsStep, IndexAfter DEF Moves, Goes, lockVars, instVars, otherVars, IndexAt
<1>7. CASE InsertEnd(t)
  <2>1. (\A n \in Name : Working(t, n) \/ Settled(n))'
    BY <1>7, <1>0, <1>i, InsertEndStep DEF Goes, Local, otherVars, DropPc, InsertLocked, Working, Settled, InsertWork, DropWork, Displacing
  <2>2. (\A i \in Inst : Dropped(t, i) \/ Flagged(i))'
    BY <1>7, <1>0, <1>i, InsertEndStep DEF Goes, Local, otherVars, DropPc, InsertLocked, Dropped, Flagged, InsertWork, DropWork, Displacing
  <2>3. InsertWork(t)'
    BY <1>7, <1>0, <1>i, InsertEndStep DEF Goes, Local, otherVars, DropPc, InsertLocked, Working, Settled, InsertWork
  <2>4. DropWork(t)'
    BY <1>7, <1>0, <1>i, InsertEndStep DEF Goes, Local, otherVars, DropPc, InsertLocked, Working, Settled, Dropped, Flagged, DropWork, Displacing
  <2> QED BY <1>7, <2>1, <2>2, <2>3, <2>4, InsertEndStep, IndexAfter DEF Goes, otherVars, IndexAt
<1>8. CASE AnnounceReg(t)
  <2>1. (\A n \in Name : Working(t, n) \/ Settled(n))'
    BY <1>8, <1>0, <1>i, AnnounceRegStep DEF Goes, Local, dbVars, lockVars, instVars, otherVars, DropPc, InsertLocked, Working, Settled, InsertWork, DropWork, Displacing
  <2>2. (\A i \in Inst : Dropped(t, i) \/ Flagged(i))'
    BY <1>8, <1>0, <1>i, AnnounceRegStep DEF Goes, Local, dbVars, lockVars, instVars, otherVars, DropPc, InsertLocked, Dropped, Flagged, InsertWork, DropWork, Displacing
  <2>3. InsertWork(t)'
    BY <1>8, <1>0, <1>i, AnnounceRegStep DEF Goes, Local, dbVars, lockVars, instVars, otherVars, DropPc, InsertLocked, Working, Settled, InsertWork
  <2>4. DropWork(t)'
    BY <1>8, <1>0, <1>i, AnnounceRegStep DEF Goes, Local, dbVars, lockVars, instVars, otherVars, DropPc, InsertLocked, Working, Settled, Dropped, Flagged, DropWork, Displacing
  <2> QED BY <1>8, <2>1, <2>2, <2>3, <2>4, AnnounceRegStep, IndexAfter DEF Goes, dbVars, lockVars, instVars, otherVars, IndexAt
<1>9. CASE ForceRemove(t)
  <2>1. (\A n \in Name : Working(t, n) \/ Settled(n))'
    BY <1>9, <1>0, <1>i, ForceRemoveStep DEF Local, lockVars, instVars, otherVars, DropPc, InsertLocked, Working, Settled, InsertWork, DropWork, Displacing
  <2>2. (\A i \in Inst : Dropped(t, i) \/ Flagged(i))'
    BY <1>9, <1>0, <1>i, ForceRemoveStep DEF Local, lockVars, instVars, otherVars, DropPc, InsertLocked, Dropped, Flagged, InsertWork, DropWork, Displacing
  <2>3. InsertWork(t)'
    BY <1>9, <1>0, <1>i, ForceRemoveStep DEF Local, lockVars, instVars, otherVars, DropPc, InsertLocked, Working, Settled, InsertWork
  <2>4. DropWork(t)'
    BY <1>9, <1>0, <1>i, ForceRemoveStep DEF Local, lockVars, instVars, otherVars, DropPc, InsertLocked, Working, Settled, Dropped, Flagged, DropWork, Displacing
  <2> QED BY <1>9, <2>1, <2>2, <2>3, <2>4, ForceRemoveStep, IndexAfter DEF Local, lockVars, instVars, otherVars, IndexAt
<1>10. CASE ForceVacant(t)
  <2>1. (\A n \in Name : Working(t, n) \/ Settled(n))'
    BY <1>10, <1>0, <1>i, ForceVacantStep DEF Moves, Goes, Local, dbVars, lockVars, instVars, otherVars, DropPc, InsertLocked, Working, Settled, InsertWork, DropWork, Displacing
  <2>2. (\A i \in Inst : Dropped(t, i) \/ Flagged(i))'
    BY <1>10, <1>0, <1>i, ForceVacantStep DEF Moves, Goes, Local, dbVars, lockVars, instVars, otherVars, DropPc, InsertLocked, Dropped, Flagged, InsertWork, DropWork, Displacing
  <2>3. InsertWork(t)'
    BY <1>10, <1>0, <1>i, ForceVacantStep DEF Moves, Goes, Local, dbVars, lockVars, instVars, otherVars, DropPc, InsertLocked, Working, Settled, InsertWork
  <2>4. DropWork(t)'
    BY <1>10, <1>0, <1>i, ForceVacantStep DEF Moves, Goes, Local, dbVars, lockVars, instVars, otherVars, DropPc, InsertLocked, Working, Settled, Dropped, Flagged, DropWork, Displacing
  <2> QED BY <1>10, <2>1, <2>2, <2>3, <2>4, ForceVacantStep, IndexAfter DEF Moves, Goes, dbVars, lockVars, instVars, otherVars, IndexAt
<1>11. CASE ForceTrigger(t)
  <2>1. (\A n \in Name : Working(t, n) \/ Settled(n))'
    BY <1>11, <1>0, <1>i, ForceTriggerStep DEF Local, dbVars, lockVars, otherVars, DropPc, InsertLocked, Working, Settled, InsertWork, DropWork, Displacing
  <2>2. (\A i \in Inst : Dropped(t, i) \/ Flagged(i))'
    BY <1>11, <1>0, <1>i, ForceTriggerStep DEF Local, dbVars, lockVars, otherVars, DropPc, InsertLocked, Dropped, Flagged, InsertWork, DropWork, Displacing
  <2>3. InsertWork(t)'
    BY <1>11, <1>0, <1>i, ForceTriggerStep DEF Local, dbVars, lockVars, otherVars, DropPc, InsertLocked, Working, Settled, InsertWork
  <2>4. DropWork(t)'
    BY <1>11, <1>0, <1>i, ForceTriggerStep DEF Local, dbVars, lockVars, otherVars, DropPc, InsertLocked, Working, Settled, Dropped, Flagged, DropWork, Displacing
  <2> QED BY <1>11, <2>1, <2>2, <2>3, <2>4, ForceTriggerStep, IndexAfter DEF Local, dbVars, lockVars, otherVars, IndexAt
<1> QED BY <1>1, <1>2, <1>3, <1>4, <1>5, <1>6, <1>7, <1>8, <1>9, <1>10, <1>11 DEF Insert

LEMMA DropIndex ==
  ASSUME TypeOK, LockInv, IndexInv, MayUnregister = {}, NEW t \in Inst, Others(t), Drop(t)
  PROVE  IndexInv'
<1>0. /\ clients \in [Name -> Inst \cup {None}] /\ broadcasts \in [Name -> Inst \cup {None}]
      /\ cur \in [Inst -> Inst] /\ parent \in [Inst -> Inst \cup {None}]
      /\ todo \in [Inst -> SUBSET Name] /\ subreg \subseteq Name
      /\ IndexAt(t)
      /\ \A n \in Name : clients[n] # None => name[clients[n]] = n
      /\ parent[t] # None => pc[t] \in DropPc /\ Primary(parent[t]) /\ ~Primary(cur[t])
      /\ pc[t] \in {"d_sec", "d_loop"} => Primary(cur[t])
      /\ AfterDrop(t) \in {"f_trig", "done", "ann_unreg", "u_end"}
  BY AfterDropOut, IndexBefore DEF TypeOK, LockInv, BornInv, NestInv
<1>i. /\ \A n \in Name : Working(t, n) \/ Settled(n)
      /\ \A i \in Inst : Dropped(t, i) \/ Flagged(i)
      /\ InsertWork(t) /\ DropWork(t)
  BY <1>0 DEF IndexAt
<1>1. CASE DropLoad(t)
  <2>1. (\A n \in Name : Working(t, n) \/ Settled(n))'
    BY <1>1, <1>0, <1>i, DropLoadStep DEF Moves, Goes, Local, dbVars, lockVars, instVars, otherVars, DropPc, InsertLocked, Working, Settled, InsertWork, DropWork, Displacing
  <2>2. (\A i \in Inst : Dropped(t, i) \/ Flagged(i))'
    BY <1>1, <1>0, <1>i, DropLoadStep DEF Moves, Goes, Local, dbVars, lockVars, instVars, otherVars, DropPc, InsertLocked, Dropped, Flagged, InsertWork, DropWork, Displacing
  <2>3. InsertWork(t)'
    BY <1>1, <1>0, <1>i, DropLoadStep DEF Moves, Goes, Local, dbVars, lockVars, instVars, otherVars, DropPc, InsertLocked, Working, Settled, InsertWork
  <2>4. DropWork(t)'
    BY <1>1, <1>0, <1>i, DropLoadStep DEF Moves, Goes, Local, dbVars, lockVars, instVars, otherVars, DropPc, InsertLocked, Working, Settled, Dropped, Flagged, DropWork, Displacing
  <2> QED BY <1>1, <2>1, <2>2, <2>3, <2>4, DropLoadStep, IndexAfter DEF Moves, Goes, dbVars, lockVars, instVars, otherVars, IndexAt
<1>2. CASE DropNotRegistered(t)
  <2>1. (\A n \in Name : Working(t, n) \/ Settled(n))'
    BY <1>2, <1>0, <1>i, DropNotRegisteredStep DEF Returns, Local, dbVars, lockVars, instVars, otherVars, DropPc, InsertLocked, Working, Settled, InsertWork, DropWork, Displacing
  <2>2. (\A i \in Inst : Dropped(t, i) \/ Flagged(i))'
    BY <1>2, <1>0, <1>i, DropNotRegisteredStep DEF Returns, Local, dbVars, lockVars, instVars, otherVars, DropPc, InsertLocked, Dropped, Flagged, InsertWork, DropWork, Displacing
  <2>3. InsertWork(t)'
    BY <1>2, <1>0, <1>i, DropNotRegisteredStep DEF Returns, Local, dbVars, lockVars, instVars, otherVars, DropPc, InsertLocked, Working, Settled, InsertWork
  <2>4. DropWork(t)'
    BY <1>2, <1>0, <1>i, DropNotRegisteredStep DEF Returns, Local, dbVars, lockVars, instVars, otherVars, DropPc, InsertLocked, Working, Settled, Dropped, Flagged, DropWork, Displacing
  <2> QED BY <1>2, <2>1, <2>2, <2>3, <2>4, DropNotRegisteredStep, IndexAfter DEF Returns, dbVars, lockVars, instVars, otherVars, IndexAt
<1>3. CASE DropStore(t)
  <2>1. (\A n \in Name : Working(t, n) \/ Settled(n))'
    BY <1>3, <1>0, <1>i, DropStoreStep DEF Moves, Goes, Local, dbVars, lockVars, otherVars, DropPc, InsertLocked, Working, Settled, InsertWork, DropWork, Displacing
  <2>2. (\A i \in Inst : Dropped(t, i) \/ Flagged(i))'
    BY <1>3, <1>0, <1>i, DropStoreStep DEF Moves, Goes, dbVars, DropPc, Dropped, Flagged
  <2>3. InsertWork(t)'
    BY <1>3, <1>0, <1>i, DropStoreStep DEF Moves, Goes, Local, dbVars, lockVars, otherVars, DropPc, InsertLocked, Working, Settled, InsertWork
  <2>4. DropWork(t)'
    BY <1>3, <1>0, <1>i, DropStoreStep DEF Moves, Goes, Local, dbVars, lockVars, otherVars, DropPc, InsertLocked, Working, Settled, Dropped, Flagged, DropWork, Displacing
  <2> QED BY <1>3, <2>1, <2>2, <2>3, <2>4, DropStoreStep, IndexAfter DEF Moves, Goes, dbVars, lockVars, otherVars, IndexAt
<1>4. CASE DropSubscriptions(t)
  <2>1. (\A n \in Name : Working(t, n) \/ Settled(n))'
    BY <1>4, <1>0, <1>i, DropSubscriptionsStep DEF Moves, Goes, Local, lockVars, instVars, otherVars, DropPc, InsertLocked, Working, Settled, InsertWork, DropWork, Displacing
  <2>2. (\A i \in Inst : Dropped(t, i) \/ Flagged(i))'
    BY <1>4, <1>0, <1>i, DropSubscriptionsStep DEF Moves, Goes, Local, lockVars, instVars, otherVars, DropPc, InsertLocked, Dropped, Flagged, InsertWork, DropWork, Displacing
  <2>3. InsertWork(t)'
    BY <1>4, <1>0, <1>i, DropSubscriptionsStep DEF Moves, Goes, Local, lockVars, instVars, otherVars, DropPc, InsertLocked, Working, Settled, InsertWork
  <2>4. DropWork(t)'
    BY <1>4, <1>0, <1>i, DropSubscriptionsStep DEF Moves, Goes, Local, lockVars, instVars, otherVars, DropPc, InsertLocked, Working, Settled, Dropped, Flagged, DropWork, Displacing
  <2> QED BY <1>4, <2>1, <2>2, <2>3, <2>4, DropSubscriptionsStep, IndexAfter DEF Moves, Goes, lockVars, instVars, otherVars, IndexAt
<1>5. CASE DropBroadcast(t)
  <2>1. (\A n \in Name : Working(t, n) \/ Settled(n))'
    BY <1>5, <1>0, <1>i, DropBroadcastStep DEF Moves, Goes, Local, lockVars, instVars, otherVars, DropPc, InsertLocked, Working, Settled, InsertWork, DropWork, Displacing
  <2>2. (\A i \in Inst : Dropped(t, i) \/ Flagged(i))'
    BY <1>5, <1>0, <1>i, DropBroadcastStep DEF Moves, Goes, Local, lockVars, instVars, otherVars, DropPc, InsertLocked, Dropped, Flagged, InsertWork, DropWork, Displacing
  <2>3. InsertWork(t)'
    BY <1>5, <1>0, <1>i, DropBroadcastStep DEF Moves, Goes, Local, lockVars, instVars, otherVars, DropPc, InsertLocked, Working, Settled, InsertWork
  <2>4. DropWork(t)'
    BY <1>5, <1>0, <1>i, DropBroadcastStep DEF Moves, Goes, Local, lockVars, instVars, otherVars, DropPc, InsertLocked, Working, Settled, Dropped, Flagged, DropWork, Displacing
  <2> QED BY <1>5, <2>1, <2>2, <2>3, <2>4, DropBroadcastStep, IndexAfter DEF Moves, Goes, lockVars, instVars, otherVars, IndexAt
<1>6. CASE DropClients(t)
  <2>1. (\A n \in Name : Working(t, n) \/ Settled(n))'
    BY <1>6, <1>0, <1>i, DropClientsStep DEF Moves, Goes, Local, lockVars, instVars, otherVars, DropPc, InsertLocked, Working, Settled, InsertWork, DropWork, Displacing
  <2>2. (\A i \in Inst : Dropped(t, i) \/ Flagged(i))'
    BY <1>6, <1>0, <1>i, DropClientsStep DEF Moves, Goes, Local, lockVars, instVars, otherVars, DropPc, InsertLocked, Dropped, Flagged, InsertWork, DropWork, Displacing
  <2>3. InsertWork(t)'
    BY <1>6, <1>0, <1>i, DropClientsStep DEF Moves, Goes, Local, lockVars, instVars, otherVars, DropPc, InsertLocked, Working, Settled, InsertWork
  <2>4. DropWork(t)'
    BY <1>6, <1>0, <1>i, DropClientsStep DEF Moves, Goes, Local, lockVars, instVars, otherVars, DropPc, InsertLocked, Working, Settled, Dropped, Flagged, DropWork, Displacing
  <2> QED BY <1>6, <2>1, <2>2, <2>3, <2>4, DropClientsStep, IndexAfter DEF Moves, Goes, lockVars, instVars, otherVars, IndexAt
<1>7. CASE DropLockSecondaries(t)
  <2>1. (\A n \in Name : Working(t, n) \/ Settled(n))'
    BY <1>7, <1>0, <1>i, DropLockSecondariesStep DEF Local, dbVars, instVars, otherVars, DropPc, InsertLocked, Working, Settled, InsertWork, DropWork, Displacing
  <2>2. (\A i \in Inst : Dropped(t, i) \/ Flagged(i))'
    BY <1>7, <1>0, <1>i, DropLockSecondariesStep DEF Local, dbVars, instVars, otherVars, DropPc, InsertLocked, Dropped, Flagged, InsertWork, DropWork, Displacing
  <2>3. InsertWork(t)'
    BY <1>7, <1>0, <1>i, DropLockSecondariesStep DEF Local, dbVars, instVars, otherVars, DropPc, InsertLocked, Working, Settled, InsertWork
  <2>4. DropWork(t)'
    BY <1>7, <1>0, <1>i, DropLockSecondariesStep DEF Local, dbVars, instVars, otherVars, DropPc, InsertLocked, Working, Settled, Dropped, Flagged, DropWork, Displacing
  <2> QED BY <1>7, <2>1, <2>2, <2>3, <2>4, DropLockSecondariesStep, IndexAfter DEF Local, dbVars, instVars, otherVars, IndexAt
<1>8. CASE DropNextSecondary(t)
  <2>1. (\A n \in Name : Working(t, n) \/ Settled(n))'
    BY <1>8, <1>0, <1>i, DropNextSecondaryStep DEF Local, dbVars, lockVars, otherVars, DropPc, InsertLocked, Working, Settled, InsertWork, DropWork, Displacing
  <2>2. (\A i \in Inst : Dropped(t, i) \/ Flagged(i))'
    BY <1>8, <1>0, <1>i, DropNextSecondaryStep DEF Local, dbVars, lockVars, otherVars, DropPc, InsertLocked, Dropped, Flagged, InsertWork, DropWork, Displacing
  <2>3. InsertWork(t)'
    BY <1>8, <1>0, <1>i, DropNextSecondaryStep DEF Local, dbVars, lockVars, otherVars, DropPc, InsertLocked, Working, Settled, InsertWork
  <2>4. DropWork(t)'
    BY <1>8, <1>0, <1>i, DropNextSecondaryStep DEF Local, dbVars, lockVars, otherVars, DropPc, InsertLocked, Working, Settled, Dropped, Flagged, DropWork, Displacing
  <2> QED BY <1>8, <2>1, <2>2, <2>3, <2>4, DropNextSecondaryStep, IndexAfter DEF Local, dbVars, lockVars, otherVars, IndexAt
<1>9. CASE DropMissingSecondary(t)
  <2>1. (\A n \in Name : Working(t, n) \/ Settled(n))'
    BY <1>9, <1>0, <1>i, DropMissingSecondaryStep DEF Local, dbVars, lockVars, instVars, otherVars, DropPc, InsertLocked, Working, Settled, InsertWork, DropWork, Displacing
  <2>2. (\A i \in Inst : Dropped(t, i) \/ Flagged(i))'
    BY <1>9, <1>0, <1>i, DropMissingSecondaryStep DEF Local, dbVars, lockVars, instVars, otherVars, DropPc, InsertLocked, Dropped, Flagged, InsertWork, DropWork, Displacing
  <2>3. InsertWork(t)'
    BY <1>9, <1>0, <1>i, DropMissingSecondaryStep DEF Local, dbVars, lockVars, instVars, otherVars, DropPc, InsertLocked, Working, Settled, InsertWork
  <2>4. DropWork(t)'
    BY <1>9, <1>0, <1>i, DropMissingSecondaryStep DEF Local, dbVars, lockVars, instVars, otherVars, DropPc, InsertLocked, Working, Settled, Dropped, Flagged, DropWork, Displacing
  <2> QED BY <1>9, <2>1, <2>2, <2>3, <2>4, DropMissingSecondaryStep, IndexAfter DEF Local, dbVars, lockVars, instVars, otherVars, IndexAt
<1>10. CASE DropSecondariesEnd(t)
  <2>1. (\A n \in Name : Working(t, n) \/ Settled(n))'
    BY <1>10, <1>0, <1>i, DropSecondariesEndStep DEF Returns, Local, dbVars, otherVars, DropPc, InsertLocked, Working, Settled, InsertWork, DropWork, Displacing
  <2>2. (\A i \in Inst : Dropped(t, i) \/ Flagged(i))'
    BY <1>10, <1>0, <1>i, DropSecondariesEndStep DEF Returns, Local, dbVars, otherVars, DropPc, InsertLocked, Dropped, Flagged, InsertWork, DropWork, Displacing
  <2>3. InsertWork(t)'
    BY <1>10, <1>0, <1>i, DropSecondariesEndStep DEF Returns, Local, dbVars, otherVars, DropPc, InsertLocked, Working, Settled, InsertWork
  <2>4. DropWork(t)'
    BY <1>10, <1>0, <1>i, DropSecondariesEndStep DEF Returns, Local, dbVars, otherVars, DropPc, InsertLocked, Working, Settled, Dropped, Flagged, DropWork, Displacing
  <2> QED BY <1>10, <2>1, <2>2, <2>3, <2>4, DropSecondariesEndStep, IndexAfter DEF Returns, dbVars, otherVars, IndexAt
<1>11. CASE DropUnlinkLock(t)
  <2>1. (\A n \in Name : Working(t, n) \/ Settled(n))'
    BY <1>11, <1>0, <1>i, DropUnlinkLockStep DEF Moves, Goes, Local, dbVars, instVars, otherVars, DropPc, InsertLocked, Working, Settled, InsertWork, DropWork, Displacing
  <2>2. (\A i \in Inst : Dropped(t, i) \/ Flagged(i))'
    BY <1>11, <1>0, <1>i, DropUnlinkLockStep DEF Moves, Goes, Local, dbVars, instVars, otherVars, DropPc, InsertLocked, Dropped, Flagged, InsertWork, DropWork, Displacing
  <2>3. InsertWork(t)'
    BY <1>11, <1>0, <1>i, DropUnlinkLockStep DEF Moves, Goes, Local, dbVars, instVars, otherVars, DropPc, InsertLocked, Working, Settled, InsertWork
  <2>4. DropWork(t)'
    BY <1>11, <1>0, <1>i, DropUnlinkLockStep DEF Moves, Goes, Local, dbVars, instVars, otherVars, DropPc, InsertLocked, Working, Settled, Dropped, Flagged, DropWork, Displacing
  <2> QED BY <1>11, <2>1, <2>2, <2>3, <2>4, DropUnlinkLockStep, IndexAfter DEF Moves, Goes, dbVars, instVars, otherVars, IndexAt
<1>12. CASE DropNoPrimary(t)
  <2>1. (\A n \in Name : Working(t, n) \/ Settled(n))'
    BY <1>12, <1>0, <1>i, DropNoPrimaryStep DEF Returns, Local, dbVars, lockVars, instVars, otherVars, DropPc, InsertLocked, Working, Settled, InsertWork, DropWork, Displacing
  <2>2. (\A i \in Inst : Dropped(t, i) \/ Flagged(i))'
    BY <1>12, <1>0, <1>i, DropNoPrimaryStep DEF Returns, Local, dbVars, lockVars, instVars, otherVars, DropPc, InsertLocked, Dropped, Flagged, InsertWork, DropWork, Displacing
  <2>3. InsertWork(t)'
    BY <1>12, <1>0, <1>i, DropNoPrimaryStep DEF Returns, Local, dbVars, lockVars, instVars, otherVars, DropPc, InsertLocked, Working, Settled, InsertWork
  <2>4. DropWork(t)'
    BY <1>12, <1>0, <1>i, DropNoPrimaryStep DEF Returns, Local, dbVars, lockVars, instVars, otherVars, DropPc, InsertLocked, Working, Settled, Dropped, Flagged, DropWork, Displacing
  <2> QED BY <1>12, <2>1, <2>2, <2>3, <2>4, DropNoPrimaryStep, IndexAfter DEF Returns, dbVars, lockVars, instVars, otherVars, IndexAt
<1>13. CASE DropUnlink(t)
  <2>1. (\A n \in Name : Working(t, n) \/ Settled(n))'
    BY <1>13, <1>0, <1>i, DropUnlinkStep DEF Returns, Local, dbVars, otherVars, DropPc, InsertLocked, Working, Settled, InsertWork, DropWork, Displacing
  <2>2. (\A i \in Inst : Dropped(t, i) \/ Flagged(i))'
    BY <1>13, <1>0, <1>i, DropUnlinkStep DEF Returns, Local, dbVars, otherVars, DropPc, InsertLocked, Dropped, Flagged, InsertWork, DropWork, Displacing
  <2>3. InsertWork(t)'
    BY <1>13, <1>0, <1>i, DropUnlinkStep DEF Returns, Local, dbVars, otherVars, DropPc, InsertLocked, Working, Settled, InsertWork
  <2>4. DropWork(t)'
    BY <1>13, <1>0, <1>i, DropUnlinkStep DEF Returns, Local, dbVars, otherVars, DropPc, InsertLocked, Working, Settled, Dropped, Flagged, DropWork, Displacing
  <2> QED BY <1>13, <2>1, <2>2, <2>3, <2>4, DropUnlinkStep, IndexAfter DEF Returns, dbVars, otherVars, IndexAt
<1>14. CASE AnnounceUnreg(t)
  <2>1. (\A n \in Name : Working(t, n) \/ Settled(n))'
    BY <1>14, <1>0, <1>i, AnnounceUnregStep DEF Moves, Goes, Local, dbVars, lockVars, instVars, DropPc, InsertLocked, Working, Settled, InsertWork, DropWork, Displacing
  <2>2. (\A i \in Inst : Dropped(t, i) \/ Flagged(i))'
    BY <1>14, <1>0, <1>i, AnnounceUnregStep DEF Moves, Goes, Local, dbVars, lockVars, instVars, DropPc, InsertLocked, Dropped, Flagged, InsertWork, DropWork, Displacing
  <2>3. InsertWork(t)'
    BY <1>14, <1>0, <1>i, AnnounceUnregStep DEF Moves, Goes, Local, dbVars, lockVars, instVars, DropPc, InsertLocked, Working, Settled, InsertWork
  <2>4. DropWork(t)'
    BY <1>14, <1>0, <1>i, AnnounceUnregStep DEF Moves, Goes, Local, dbVars, lockVars, instVars, DropPc, InsertLocked, Working, Settled, Dropped, Flagged, DropWork, Displacing
  <2> QED BY <1>14, <2>1, <2>2, <2>3, <2>4, AnnounceUnregStep, IndexAfter DEF Moves, Goes, dbVars, lockVars, instVars, IndexAt
<1>15. CASE UnregisterEnd(t)
  <2>1. (\A n \in Name : Working(t, n) \/ Settled(n))'
    BY <1>15, <1>0, <1>i, UnregisterEndStep DEF Local, dbVars, lockVars, otherVars, DropPc, InsertLocked, Working, Settled, InsertWork, DropWork, Displacing
  <2>2. (\A i \in Inst : Dropped(t, i) \/ Flagged(i))'
    BY <1>15, <1>0, <1>i, UnregisterEndStep DEF Local, dbVars, lockVars, otherVars, DropPc, InsertLocked, Dropped, Flagged, InsertWork, DropWork, Displacing
  <2>3. InsertWork(t)'
    BY <1>15, <1>0, <1>i, UnregisterEndStep DEF Local, dbVars, lockVars, otherVars, DropPc, InsertLocked, Working, Settled, InsertWork
  <2>4. DropWork(t)'
    BY <1>15, <1>0, <1>i, UnregisterEndStep DEF Local, dbVars, lockVars, otherVars, DropPc, InsertLocked, Working, Settled, Dropped, Flagged, DropWork, Displacing
  <2> QED BY <1>15, <2>1, <2>2, <2>3, <2>4, UnregisterEndStep, IndexAfter DEF Local, dbVars, lockVars, otherVars, IndexAt
<1> QED BY <1>1, <1>2, <1>3, <1>4, <1>5, <1>6, <1>7, <1>8, <1>9, <1>10, <1>11, <1>12, <1>13, <1>14, <1>15 DEF Drop

LEMMA OwnerIndex ==
  ASSUME TypeOK, LockInv, IndexInv, MayUnregister = {}, NEW t \in Inst, Others(t), Owner(t)
  PROVE  IndexInv'
<1>0. /\ clients \in [Name -> Inst \cup {None}] /\ broadcasts \in [Name -> Inst \cup {None}]
      /\ cur \in [Inst -> Inst] /\ parent \in [Inst -> Inst \cup {None}]
      /\ todo \in [Inst -> SUBSET Name] /\ subreg \subseteq Name
      /\ IndexAt(t)
      /\ \A n \in Name : clients[n] # None => name[clients[n]] = n
      /\ parent[t] # None => pc[t] \in DropPc /\ Primary(parent[t]) /\ ~Primary(cur[t])
      /\ pc[t] \in {"d_sec", "d_loop"} => Primary(cur[t])
      /\ AfterDrop(t) \in {"f_trig", "done", "ann_unreg", "u_end"}
  BY AfterDropOut, IndexBefore DEF TypeOK, LockInv, BornInv, NestInv
<1>i. /\ \A n \in Name : Working(t, n) \/ Settled(n)
      /\ \A i \in Inst : Dropped(t, i) \/ Flagged(i)
      /\ InsertWork(t) /\ DropWork(t)
  BY <1>0 DEF IndexAt
<1>1. CASE RespondOk(t)
  <2>1. (\A n \in Name : Working(t, n) \/ Settled(n))'
    BY <1>1, <1>0, <1>i, RespondOkStep DEF Moves, Goes, Local, dbVars, lockVars, instVars, otherVars, DropPc, InsertLocked, Working, Settled, InsertWork, DropWork, Displacing
  <2>2. (\A i \in Inst : Dropped(t, i) \/ Flagged(i))'
    BY <1>1, <1>0, <1>i, RespondOkStep DEF Moves, Goes, Local, dbVars, lockVars, instVars, otherVars, DropPc, InsertLocked, Dropped, Flagged, InsertWork, DropWork, Displacing
  <2>3. InsertWork(t)'
    BY <1>1, <1>0, <1>i, RespondOkStep DEF Moves, Goes, Local, dbVars, lockVars, instVars, otherVars, DropPc, InsertLocked, Working, Settled, InsertWork
  <2>4. DropWork(t)'
    BY <1>1, <1>0, <1>i, RespondOkStep DEF Moves, Goes, Local, dbVars, lockVars, instVars, otherVars, DropPc, InsertLocked, Working, Settled, Dropped, Flagged, DropWork, Displacing
  <2> QED BY <1>1, <2>1, <2>2, <2>3, <2>4, RespondOkStep, IndexAfter DEF Moves, Goes, dbVars, lockVars, instVars, otherVars, IndexAt
<1>2. CASE RespondFail(t)
  <2>1. (\A n \in Name : Working(t, n) \/ Settled(n))'
    BY <1>2, <1>0, <1>i, RespondFailStep DEF Moves, Goes, Local, dbVars, lockVars, instVars, otherVars, DropPc, InsertLocked, Working, Settled, InsertWork, DropWork, Displacing
  <2>2. (\A i \in Inst : Dropped(t, i) \/ Flagged(i))'
    BY <1>2, <1>0, <1>i, RespondFailStep DEF Moves, Goes, Local, dbVars, lockVars, instVars, otherVars, DropPc, InsertLocked, Dropped, Flagged, InsertWork, DropWork, Displacing
  <2>3. InsertWork(t)'
    BY <1>2, <1>0, <1>i, RespondFailStep DEF Moves, Goes, Local, dbVars, lockVars, instVars, otherVars, DropPc, InsertLocked, Working, Settled, InsertWork
  <2>4. DropWork(t)'
    BY <1>2, <1>0, <1>i, RespondFailStep DEF Moves, Goes, Local, dbVars, lockVars, instVars, otherVars, DropPc, InsertLocked, Working, Settled, Dropped, Flagged, DropWork, Displacing
  <2> QED BY <1>2, <2>1, <2>2, <2>3, <2>4, RespondFailStep, IndexAfter DEF Moves, Goes, dbVars, lockVars, instVars, otherVars, IndexAt
<1>3. CASE Disconnect(t)
  <2>1. (\A n \in Name : Working(t, n) \/ Settled(n))'
    BY <1>3, <1>0, <1>i, DisconnectStep DEF Calls, Local, dbVars, lockVars, instVars, DropPc, InsertLocked, Working, Settled, InsertWork, DropWork, Displacing
  <2>2. (\A i \in Inst : Dropped(t, i) \/ Flagged(i))'
    BY <1>3, <1>0, <1>i, DisconnectStep DEF Calls, Local, dbVars, lockVars, instVars, DropPc, InsertLocked, Dropped, Flagged, InsertWork, DropWork, Displacing
  <2>3. InsertWork(t)'
    BY <1>3, <1>0, <1>i, DisconnectStep DEF Calls, Local, dbVars, lockVars, instVars, DropPc, InsertLocked, Working, Settled, InsertWork
  <2>4. DropWork(t)'
    BY <1>3, <1>0, <1>i, DisconnectStep DEF Calls, Local, dbVars, lockVars, instVars, DropPc, InsertLocked, Working, Settled, Dropped, Flagged, DropWork, Displacing
  <2> QED BY <1>3, <2>1, <2>2, <2>3, <2>4, DisconnectStep, IndexAfter DEF Calls, dbVars, lockVars, instVars, IndexAt
<1>4. CASE BrokerUnregister(t)
  <2>1. (\A n \in Name : Working(t, n) \/ Settled(n))'
    BY <1>4, <1>0, <1>i, BrokerUnregisterStep DEF Calls, Local, dbVars, lockVars, instVars, otherVars, DropPc, InsertLocked, Working, Settled, InsertWork, DropWork, Displacing
  <2>2. (\A i \in Inst : Dropped(t, i) \/ Flagged(i))'
    BY <1>4, <1>0, <1>i, BrokerUnregisterStep DEF Calls, Local, dbVars, lockVars, instVars, otherVars, DropPc, InsertLocked, Dropped, Flagged, InsertWork, DropWork, Displacing
  <2>3. InsertWork(t)'
    BY <1>4, <1>0, <1>i, BrokerUnregisterStep DEF Calls, Local, dbVars, lockVars, instVars, otherVars, DropPc, InsertLocked, Working, Settled, InsertWork
  <2>4. DropWork(t)'
    BY <1>4, <1>0, <1>i, BrokerUnregisterStep DEF Calls, Local, dbVars, lockVars, instVars, otherVars, DropPc, InsertLocked, Working, Settled, Dropped, Flagged, DropWork, Displacing
  <2> QED BY <1>4, <2>1, <2>2, <2>3, <2>4, BrokerUnregisterStep, IndexAfter DEF Calls, dbVars, lockVars, instVars, otherVars, IndexAt
<1>5. CASE ClientUnregister(t)
  BY <1>5 DEF ClientUnregister
<1>6. CASE ClientDrop(t)
  <2>1. (\A n \in Name : Working(t, n) \/ Settled(n))'
    BY <1>6, <1>0, <1>i, ClientDropStep DEF Local, dbVars, lockVars, instVars, otherVars, DropPc, InsertLocked, Working, Settled, InsertWork, DropWork, Displacing
  <2>2. (\A i \in Inst : Dropped(t, i) \/ Flagged(i))'
    BY <1>6, <1>0, <1>i, ClientDropStep DEF Local, dbVars, lockVars, instVars, otherVars, DropPc, InsertLocked, Dropped, Flagged, InsertWork, DropWork, Displacing
  <2>3. InsertWork(t)'
    BY <1>6, <1>0, <1>i, ClientDropStep DEF Local, dbVars, lockVars, instVars, otherVars, DropPc, InsertLocked, Working, Settled, InsertWork
  <2>4. DropWork(t)'
    BY <1>6, <1>0, <1>i, ClientDropStep DEF Local, dbVars, lockVars, instVars, otherVars, DropPc, InsertLocked, Working, Settled, Dropped, Flagged, DropWork, Displacing
  <2> QED BY <1>6, <2>1, <2>2, <2>3, <2>4, ClientDropStep, IndexAfter DEF Local, dbVars, lockVars, instVars, otherVars, IndexAt
<1>7. CASE Lookup(t)
  <2>1. (\A n \in Name : Working(t, n) \/ Settled(n))'
    BY <1>7, <1>0, <1>i, LookupStep DEF Local, dbVars, lockVars, instVars, otherVars, DropPc, InsertLocked, Working, Settled, InsertWork, DropWork, Displacing
  <2>2. (\A i \in Inst : Dropped(t, i) \/ Flagged(i))'
    BY <1>7, <1>0, <1>i, LookupStep DEF Local, dbVars, lockVars, instVars, otherVars, DropPc, InsertLocked, Dropped, Flagged, InsertWork, DropWork, Displacing
  <2>3. InsertWork(t)'
    BY <1>7, <1>0, <1>i, LookupStep DEF Local, dbVars, lockVars, instVars, otherVars, DropPc, InsertLocked, Working, Settled, InsertWork
  <2>4. DropWork(t)'
    BY <1>7, <1>0, <1>i, LookupStep DEF Local, dbVars, lockVars, instVars, otherVars, DropPc, InsertLocked, Working, Settled, Dropped, Flagged, DropWork, Displacing
  <2> QED BY <1>7, <2>1, <2>2, <2>3, <2>4, LookupStep, IndexAfter DEF Local, dbVars, lockVars, instVars, otherVars, IndexAt
<1>8. CASE SendEnd(t) /\ pc[t] = "sending"
  <2>1. (\A n \in Name : Working(t, n) \/ Settled(n))'
    BY <1>8, <1>0, <1>i, SendEndStep DEF Local, dbVars, lockVars, instVars, otherVars, DropPc, InsertLocked, Working, Settled, InsertWork, DropWork, Displacing
  <2>2. (\A i \in Inst : Dropped(t, i) \/ Flagged(i))'
    BY <1>8, <1>0, <1>i, SendEndStep DEF Local, dbVars, lockVars, instVars, otherVars, DropPc, InsertLocked, Dropped, Flagged, InsertWork, DropWork, Displacing
  <2>3. InsertWork(t)'
    BY <1>8, <1>0, <1>i, SendEndStep DEF Local, dbVars, lockVars, instVars, otherVars, DropPc, InsertLocked, Working, Settled, InsertWork
  <2>4. DropWork(t)'
    BY <1>8, <1>0, <1>i, SendEndStep DEF Local, dbVars, lockVars, instVars, otherVars, DropPc, InsertLocked, Working, Settled, Dropped, Flagged, DropWork, Displacing
  <2> QED BY <1>8, <2>1, <2>2, <2>3, <2>4, SendEndStep, IndexAfter DEF Local, dbVars, lockVars, instVars, otherVars, IndexAt
<1>9. CASE Evict(t)
  <2>1. (\A n \in Name : Working(t, n) \/ Settled(n))'
    BY <1>9, <1>0, <1>i, EvictStep DEF Calls, Local, dbVars, lockVars, instVars, otherVars, DropPc, InsertLocked, Working, Settled, InsertWork, DropWork, Displacing
  <2>2. (\A i \in Inst : Dropped(t, i) \/ Flagged(i))'
    BY <1>9, <1>0, <1>i, EvictStep DEF Calls, Local, dbVars, lockVars, instVars, otherVars, DropPc, InsertLocked, Dropped, Flagged, InsertWork, DropWork, Displacing
  <2>3. InsertWork(t)'
    BY <1>9, <1>0, <1>i, EvictStep DEF Calls, Local, dbVars, lockVars, instVars, otherVars, DropPc, InsertLocked, Working, Settled, InsertWork
  <2>4. DropWork(t)'
    BY <1>9, <1>0, <1>i, EvictStep DEF Calls, Local, dbVars, lockVars, instVars, otherVars, DropPc, InsertLocked, Working, Settled, Dropped, Flagged, DropWork, Displacing
  <2> QED BY <1>9, <2>1, <2>2, <2>3, <2>4, EvictStep, IndexAfter DEF Calls, dbVars, lockVars, instVars, otherVars, IndexAt
<1>10. ASSUME NEW x \in Topic, Subscribe(t, x) \/ Unsubscribe(t, x) PROVE IndexInv'
  BY <1>10, SameIndex DEF Subscribe, Unsubscribe, instVars, taskVars
<1>11. CASE SendEnd(t) /\ PublishDropped(t)
  <2>1. (\A n \in Name : Working(t, n) \/ Settled(n))'
    BY <1>11, <1>0, <1>i, PublishDroppedStep DEF Local, dbVars, lockVars, instVars, otherVars, DropPc, InsertLocked, Working, Settled, InsertWork, DropWork, Displacing
  <2>2. (\A i \in Inst : Dropped(t, i) \/ Flagged(i))'
    BY <1>11, <1>0, <1>i, PublishDroppedStep DEF Local, dbVars, lockVars, instVars, otherVars, DropPc, InsertLocked, Dropped, Flagged, InsertWork, DropWork, Displacing
  <2>3. InsertWork(t)'
    BY <1>11, <1>0, <1>i, PublishDroppedStep DEF Local, dbVars, lockVars, instVars, otherVars, DropPc, InsertLocked, Working, Settled, InsertWork
  <2>4. DropWork(t)'
    BY <1>11, <1>0, <1>i, PublishDroppedStep DEF Local, dbVars, lockVars, instVars, otherVars, DropPc, InsertLocked, Working, Settled, Dropped, Flagged, DropWork, Displacing
  <2> QED BY <1>11, <2>1, <2>2, <2>3, <2>4, PublishDroppedStep, IndexAfter DEF Local, dbVars, lockVars, instVars, otherVars, IndexAt
<1> QED BY <1>1, <1>2, <1>3, <1>4, <1>5, <1>6, <1>7, <1>8, <1>9, <1>10, <1>11 DEF Owner, SendEnd

LEMMA NextIndex ==
  ASSUME TypeOK, LockInv, Alone, IndexInv, Workers = 1, MayUnregister = {}, [Next]_vars
  PROVE  IndexInv'
<1>1. ASSUME NEW t \in Inst, Insert(t) PROVE IndexInv' BY <1>1, ActorIsAlone, InsertIndex
<1>2. ASSUME NEW t \in Inst, Drop(t) PROVE IndexInv' BY <1>2, ActorIsAlone, DropIndex
<1>3. ASSUME NEW t \in Inst, Owner(t) PROVE IndexInv' BY <1>3, ActorIsAlone, OwnerIndex
<1>4. ASSUME NEW n \in Kicked, ForceDisconnect(n) PROVE IndexInv'
  BY <1>4, SameIndex DEF ForceDisconnect, dbVars, taskVars
<1>5. CASE List
  BY <1>5, SameIndex DEF List, ListLock, ListCount, ListEnd, dbVars, instVars, taskVars
<1>6. CASE UNCHANGED vars
  BY <1>6, SameIndex DEF vars, dbVars, instVars, taskVars
<1>7. ASSUME NEW t \in Inst, AnnounceLock(t) PROVE IndexInv'
  BY <1>7, SameIndex DEF AnnounceLock, dbVars, instVars, taskVars
<1> QED BY <1>1, <1>2, <1>3, <1>4, <1>5, <1>6, <1>7 DEF Next, Terminated

LEMMA InitIndex == Init => Alone /\ IndexInv
<1>1. Init => Alone
  BY DEF Init, Alone, Busy, Section, InsertLocked, DropPc
<1>2. Init => IndexInv
  BY DEF Init, IndexInv, Idle, IndexCalm, Settled, Flagged, Section, InsertLocked, DropPc
<1> QED BY <1>1, <1>2

\* With one worker and no Client::unregister the indexes of BrokerDb list the
\* same clients whenever no task is between two awaits.
THEOREM IndexesInStep ==
  ASSUME Workers = 1, MayUnregister = {}
  PROVE  Spec => []IndexesAgree
<1>1. Init => TypeOK /\ LockInv /\ Alone /\ IndexInv
  BY InitType, InitLockInv, InitIndex
<1>2. TypeOK /\ LockInv /\ Alone /\ IndexInv /\ [Next]_vars => (TypeOK /\ LockInv /\ Alone /\ IndexInv)'
  BY NextType, NextLockInv, NextAlone, NextIndex
<1>3. IndexInv => IndexesAgree
  BY DEF IndexInv, Idle, IndexCalm, Settled, IndexesAgree, Quiet, Busy
<1> QED BY <1>1, <1>2, <1>3, PTL DEF Spec

\* Under the same conditions the flag of a client says whether it is listed.
THEOREM FlagsInStep ==
  ASSUME Workers = 1, MayUnregister = {}
  PROVE  Spec => []RegisteredIsListed
<1>1. Init => TypeOK /\ LockInv /\ Alone /\ IndexInv
  BY InitType, InitLockInv, InitIndex
<1>2. TypeOK /\ LockInv /\ Alone /\ IndexInv /\ [Next]_vars => (TypeOK /\ LockInv /\ Alone /\ IndexInv)'
  BY NextType, NextLockInv, NextAlone, NextIndex
<1>3. IndexInv => RegisteredIsListed
  BY DEF IndexInv, Idle, IndexCalm, Flagged, RegisteredIsListed, Quiet, Busy
<1> QED BY <1>1, <1>2, <1>3, PTL DEF Spec

-----------------------------------------------------------------------------
(* Primaries and secondaries, with one worker and no Client::unregister.   *)

\* s is a secondary of the primary p.
Sec(s, p) == ~Primary(s) /\ primary_name[s] = name[p]

\* A client counts names of its secondaries, and none before it is inserted.
CountInv ==
  \A p \in Inst :
    /\ \A n \in secondaries[p] : \E s \in Inst : Sec(s, p) /\ name[s] = n
    /\ ~Born(p) => secondaries[p] = {}

\* Only a primary displaces another; only a secondary is unlinked.
Kind(u) ==
  /\ pc[u] = "f_remove" => Primary(u)
  /\ pc[u] \in DropPc /\ cont[u] = "force" => Primary(Outer(u))
  /\ pc[u] \in {"d_unlink_lock", "d_unlink"} => ~Primary(cur[u])
KindInv == \A u \in Inst : Kind(u)

\* The task drops a primary that is listed no more, and has still to drop the
\* secondaries named in Left.
Dropping(t) ==
  /\ pc[t] \in DropPc /\ Primary(Outer(t))
  /\ parent[t] # None \/ cont[t] = "force" \/ pc[t] \in {"d_sec", "d_loop"}
Left(t) ==
  IF parent[t] # None THEN todo[t] \cup {name[cur[t]]}
  ELSE IF pc[t] = "d_loop" THEN todo[t] ELSE secondaries[cur[t]]

\* The name is counted and not yet listed, or not listed and still counted.
Linking(t, n) ==
  \/ pc[t] \in {"ins_bc", "ins_sub", "ins_end"} /\ n = name[t]
  \/ pc[t] \in {"d_unlink_lock", "d_unlink"} /\ n = name[cur[t]]

\* A listed secondary has a listed primary, or one whose secondaries are
\* being dropped.
HasPrimary(t) ==
  \A s \in Inst : clients[name[s]] = s /\ ~Primary(s) =>
    clients[primary_name[s]] # None \/ (Dropping(t) /\ Sec(s, Outer(t)))

\* A listed primary counts its listed secondaries.
Counted(t) ==
  \A p, s \in Inst : clients[name[p]] = p /\ Primary(p) /\ Sec(s, p) =>
    /\ clients[name[s]] # None => name[s] \in secondaries[p]
    /\ name[s] \in secondaries[p] => clients[name[s]] # None \/ Linking(t, name[s])

\* drop_client visits every listed secondary.
NoneMissed(t) ==
  Dropping(t) => \A s \in Inst :
    Sec(s, Outer(t)) /\ clients[name[s]] # None => name[s] \in Left(t)

\* insert_client has found the primary of a secondary, and counts it there.
InsertLink(t) ==
  /\ pc[t] \in InsertLocked /\ ~Primary(t) => clients[primary_name[t]] # None
  /\ pc[t] \in {"ins_bc", "ins_sub", "ins_end"} /\ ~Primary(t) =>
       name[t] \in secondaries[clients[primary_name[t]]]

LinkAt(t) == HasPrimary(t) /\ Counted(t) /\ NoneMissed(t) /\ InsertLink(t)
LinkCalm ==
  /\ \A s \in Inst : clients[name[s]] = s /\ ~Primary(s) => clients[primary_name[s]] # None
  /\ \A p, s \in Inst : clients[name[p]] = p /\ Primary(p) /\ Sec(s, p) =>
       (clients[name[s]] # None <=> name[s] \in secondaries[p])
LinkInv ==
  /\ CountInv /\ KindInv
  /\ Idle => LinkCalm
  /\ \A t \in Inst : pc[t] \in Section => LinkAt(t)

LEMMA LinkBefore ==
  ASSUME LinkInv, NEW t \in Inst, Others(t)
  PROVE  LinkAt(t)
<1>1. CASE pc[t] \in Section
  BY <1>1 DEF LinkInv
<1>2. CASE pc[t] \notin Section
  <2>1. LinkCalm BY <1>2 DEF LinkInv, Idle, Others
  <2> QED BY <1>2, <2>1 DEF LinkAt, LinkCalm, HasPrimary, Counted, NoneMissed, InsertLink,
            Dropping, Linking, Section, InsertLocked, DropPc
<1> QED BY <1>1, <1>2

LEMMA LinkAfter ==
  ASSUME NEW t \in Inst, Others(t), Local(t), LinkAt(t)', CountInv', KindInv'
  PROVE  LinkInv'
<1>1. \A u \in Inst : u # t => pc'[u] \notin Section
  BY DEF Others, Local
<1>2. \A u \in Inst : pc'[u] \in Section => LinkAt(u)'
  BY <1>1
<1>3. ASSUME pc'[t] \notin Section PROVE LinkCalm'
  BY <1>3 DEF LinkAt, LinkCalm, HasPrimary, Counted, Dropping, Linking, Section, InsertLocked, DropPc
<1> QED BY <1>2, <1>3 DEF LinkInv, Idle

LEMMA KindKept ==
  ASSUME KindInv, NEW t \in Inst, Local(t), Kind(t)'
  PROVE  KindInv'
<1> SUFFICES ASSUME NEW u \in Inst, u # t PROVE Kind(u)'
  BY DEF KindInv
<1>1. pc'[u] = pc[u] /\ cur'[u] = cur[u] /\ parent'[u] = parent[u] /\ cont'[u] = cont[u] /\ Kind(u)
  BY DEF Local, KindInv
<1> QED BY <1>1 DEF Kind, Outer

LEMMA SameLink ==
  ASSUME LinkInv, UNCHANGED <<clients, secondaries, pc, cur, parent, todo, cont>>
  PROVE  LinkInv'
<1>1. \A t \in Inst : LinkAt(t) => LinkAt(t)'
  BY DEF LinkAt, HasPrimary, Counted, NoneMissed, InsertLink, Dropping, Linking, Left, Outer
<1>2. LinkCalm => LinkCalm'
  BY DEF LinkCalm
<1>3. CountInv' /\ KindInv'
  BY DEF LinkInv, CountInv, KindInv, Kind, Born, Outer
<1> QED BY <1>1, <1>2, <1>3 DEF LinkInv, Idle

\* Names determine whether a client is a secondary, and of whom.
LEMMA SecOfName ==
  ASSUME NEW i \in Inst, NEW j \in Inst, name[i] = name[j], NEW p \in Inst
  PROVE  (Primary(i) <=> Primary(j)) /\ (Sec(i, p) <=> Sec(j, p))
BY DEF Primary, Sec

\* A step that changes neither clients nor the secondaries leaves the links,
\* if it goes on with what it was doing.
LEMMA HasPrimaryKept ==
  ASSUME NEW t \in Inst, HasPrimary(t), clients' = clients,
         Dropping(t) => Dropping(t)' /\ Outer(t)' = Outer(t)
  PROVE  HasPrimary(t)'
BY DEF HasPrimary, Sec

LEMMA CountedKept ==
  ASSUME NEW t \in Inst, Counted(t), clients' = clients, secondaries' = secondaries,
         \A n \in Name : Linking(t, n) => Linking(t, n)'
  PROVE  Counted(t)'
BY DEF Counted

LEMMA InsertLinkInv ==
  ASSUME TypeOK, LockInv, IndexInv, LinkInv, MayUnregister = {}, NEW t \in Inst, Others(t), Insert(t)
  PROVE  LinkInv'
<1>0. /\ clients \in [Name -> Inst \cup {None}] /\ secondaries \in [Inst -> SUBSET Name]
      /\ cur \in [Inst -> Inst] /\ parent \in [Inst -> Inst \cup {None}]
      /\ todo \in [Inst -> SUBSET Name]
      /\ \A n \in Name : clients[n] # None => name[clients[n]] = n /\ Born(clients[n])
      /\ parent[t] # None => pc[t] \in DropPc /\ Primary(parent[t]) /\ ~Primary(cur[t])
      /\ pc[t] \in {"d_sec", "d_loop"} => Primary(cur[t])
      /\ pc[t] = "ins_sec" => ~Primary(t)
      /\ AfterDrop(t) \in {"f_trig", "done", "ann_unreg", "u_end"}
      /\ \A i \in Inst : Born(i) => Born(i)'
  BY AfterDropOut, InsertBorn DEF TypeOK, LockInv, BornInv, NestInv
<1>i. /\ InsertWork(t) /\ DropWork(t)
      /\ CountInv /\ KindInv /\ Kind(t)
      /\ HasPrimary(t) /\ Counted(t) /\ NoneMissed(t) /\ InsertLink(t)
  BY IndexBefore, LinkBefore DEF IndexAt, LinkAt, LinkInv, KindInv
<1>n. \A i, j, p \in Inst : name[i] = name[j] => (Primary(i) <=> Primary(j)) /\ (Sec(i, p) <=> Sec(j, p))
  BY SecOfName
<1>1. CASE InsertNoPrimary(t)
  <2>1. HasPrimary(t)'
    <3>1. Dropping(t) => Dropping(t)' /\ Outer(t)' = Outer(t)
      BY <1>1, <1>0, <1>i, InsertNoPrimaryStep DEF Moves, Goes, Local, dbVars, lockVars, instVars, otherVars, DropPc, InsertLocked, Dropping, Outer, Kind
    <3> QED BY <1>1, <1>i, <3>1, InsertNoPrimaryStep, HasPrimaryKept DEF Moves, Goes, dbVars, lockVars, instVars, otherVars
  <2>2. Counted(t)'
    <3>1. \A n \in Name : Linking(t, n) => Linking(t, n)'
      BY <1>1, <1>0, <1>i, InsertNoPrimaryStep DEF Moves, Goes, Local, dbVars, lockVars, instVars, otherVars, DropPc, InsertLocked, Linking
    <3> QED BY <1>1, <1>i, <3>1, InsertNoPrimaryStep, CountedKept DEF Moves, Goes, dbVars, lockVars, instVars, otherVars
  <2>3. NoneMissed(t)'
    BY <1>1, <1>0, <1>i, <1>n, InsertNoPrimaryStep DEF Moves, Goes, Local, dbVars, lockVars, instVars, otherVars, DropPc, InsertLocked, NoneMissed, Dropping, Outer, Left, DropWork
  <2>4. InsertLink(t)'
    BY <1>1, <1>0, <1>i, <1>n, InsertNoPrimaryStep DEF Moves, Goes, Local, dbVars, lockVars, instVars, otherVars, DropPc, InsertLocked, InsertLink, PrimaryMissing
  <2>5. Kind(t)'
    BY <1>1, <1>0, <1>i, <1>n, InsertNoPrimaryStep DEF Moves, Goes, Local, dbVars, lockVars, instVars, otherVars, DropPc, InsertLocked, Kind, Outer
  <2>6. CountInv'
    BY <1>1, <1>0, <1>i, <1>n, InsertNoPrimaryStep DEF Moves, Goes, Local, dbVars, lockVars, instVars, otherVars, DropPc, InsertLocked, CountInv
  <2>7. KindInv' BY <1>1, <1>i, <2>5, InsertNoPrimaryStep, KindKept DEF Moves, Goes, dbVars, lockVars, instVars, otherVars
  <2> QED BY <1>1, <2>1, <2>2, <2>3, <2>4, <2>6, <2>7, InsertNoPrimaryStep, LinkAfter DEF Moves, Goes, dbVars, lockVars, instVars, otherVars, LinkAt
<1>2. CASE InsertBusy(t)
  <2>1. HasPrimary(t)'
    <3>1. Dropping(t) => Dropping(t)' /\ Outer(t)' = Outer(t)
      BY <1>2, <1>0, <1>i, InsertBusyStep DEF Moves, Goes, Local, dbVars, lockVars, instVars, otherVars, DropPc, InsertLocked, Dropping, Outer, Kind
    <3> QED BY <1>2, <1>i, <3>1, InsertBusyStep, HasPrimaryKept DEF Moves, Goes, dbVars, lockVars, instVars, otherVars
  <2>2. Counted(t)'
    <3>1. \A n \in Name : Linking(t, n) => Linking(t, n)'
      BY <1>2, <1>0, <1>i, InsertBusyStep DEF Moves, Goes, Local, dbVars, lockVars, instVars, otherVars, DropPc, InsertLocked, Linking
    <3> QED BY <1>2, <1>i, <3>1, InsertBusyStep, CountedKept DEF Moves, Goes, dbVars, lockVars, instVars, otherVars
  <2>3. NoneMissed(t)'
    BY <1>2, <1>0, <1>i, <1>n, InsertBusyStep DEF Moves, Goes, Local, dbVars, lockVars, instVars, otherVars, DropPc, InsertLocked, NoneMissed, Dropping, Outer, Left, DropWork
  <2>4. InsertLink(t)'
    BY <1>2, <1>0, <1>i, <1>n, InsertBusyStep DEF Moves, Goes, Local, dbVars, lockVars, instVars, otherVars, DropPc, InsertLocked, InsertLink, PrimaryMissing
  <2>5. Kind(t)'
    BY <1>2, <1>0, <1>i, <1>n, InsertBusyStep DEF Moves, Goes, Local, dbVars, lockVars, instVars, otherVars, DropPc, InsertLocked, Kind, Outer
  <2>6. CountInv'
    BY <1>2, <1>0, <1>i, <1>n, InsertBusyStep DEF Moves, Goes, Local, dbVars, lockVars, instVars, otherVars, DropPc, InsertLocked, CountInv
  <2>7. KindInv' BY <1>2, <1>i, <2>5, InsertBusyStep, KindKept DEF Moves, Goes, dbVars, lockVars, instVars, otherVars
  <2> QED BY <1>2, <2>1, <2>2, <2>3, <2>4, <2>6, <2>7, InsertBusyStep, LinkAfter DEF Moves, Goes, dbVars, lockVars, instVars, otherVars, LinkAt
<1>3. CASE InsertLock(t)
  <2>1. HasPrimary(t)'
    <3>1. Dropping(t) => Dropping(t)' /\ Outer(t)' = Outer(t)
      BY <1>3, <1>0, <1>i, InsertLockStep DEF Moves, Goes, Local, dbVars, instVars, otherVars, DropPc, InsertLocked, Dropping, Outer, Kind
    <3> QED BY <1>3, <1>i, <3>1, InsertLockStep, HasPrimaryKept DEF Moves, Goes, dbVars, instVars, otherVars
  <2>2. Counted(t)'
    <3>1. \A n \in Name : Linking(t, n) => Linking(t, n)'
      BY <1>3, <1>0, <1>i, InsertLockStep DEF Moves, Goes, Local, dbVars, instVars, otherVars, DropPc, InsertLocked, Linking
    <3> QED BY <1>3, <1>i, <3>1, InsertLockStep, CountedKept DEF Moves, Goes, dbVars, instVars, otherVars
  <2>3. NoneMissed(t)'
    BY <1>3, <1>0, <1>i, <1>n, InsertLockStep DEF Moves, Goes, Local, dbVars, instVars, otherVars, DropPc, InsertLocked, NoneMissed, Dropping, Outer, Left, DropWork
  <2>4. InsertLink(t)'
    BY <1>3, <1>0, <1>i, <1>n, InsertLockStep DEF Moves, Goes, Local, dbVars, instVars, otherVars, DropPc, InsertLocked, InsertLink, PrimaryMissing
  <2>5. Kind(t)'
    BY <1>3, <1>0, <1>i, <1>n, InsertLockStep DEF Moves, Goes, Local, dbVars, instVars, otherVars, DropPc, InsertLocked, Kind, Outer
  <2>6. CountInv'
    BY <1>3, <1>0, <1>i, <1>n, InsertLockStep DEF Moves, Goes, Local, dbVars, instVars, otherVars, DropPc, InsertLocked, CountInv
  <2>7. KindInv' BY <1>3, <1>i, <2>5, InsertLockStep, KindKept DEF Moves, Goes, dbVars, instVars, otherVars
  <2> QED BY <1>3, <2>1, <2>2, <2>3, <2>4, <2>6, <2>7, InsertLockStep, LinkAfter DEF Moves, Goes, dbVars, instVars, otherVars, LinkAt
<1>4. CASE InsertSecondary(t)
  <2>1. HasPrimary(t)'
    <3>1. Dropping(t) => Dropping(t)' /\ Outer(t)' = Outer(t)
      BY <1>4, <1>0, <1>i, InsertSecondaryStep DEF Moves, Goes, Local, dbVars, lockVars, otherVars, DropPc, InsertLocked, Dropping, Outer, Kind
    <3> QED BY <1>4, <1>i, <3>1, InsertSecondaryStep, HasPrimaryKept DEF Moves, Goes, dbVars, lockVars, otherVars
  <2>2. Counted(t)'
    <3> DEFINE p0 == clients[primary_name[t]]
    <3>1. /\ pc[t] = "ins_sec" /\ pc'[t] = "ins_bc" /\ clients' = clients
          /\ \A i \in Inst : secondaries'[i] = IF i = p0 THEN secondaries[i] \cup {name[t]} ELSE secondaries[i]
      BY <1>4, InsertSecondaryStep DEF Moves, dbVars
    <3> SUFFICES ASSUME NEW p \in Inst, NEW s \in Inst, clients[name[p]] = p, Primary(p), Sec(s, p)
                 PROVE  /\ clients[name[s]] # None => name[s] \in secondaries'[p]
                        /\ name[s] \in secondaries'[p] => clients[name[s]] # None \/ Linking(t, name[s])'
      BY <3>1 DEF Counted
    <3>2. clients[name[s]] # None => name[s] \in secondaries'[p]
      BY <1>i, <3>1 DEF Counted
    <3>3. CASE name[s] \in secondaries[p]
      BY <1>i, <3>1, <3>3 DEF Counted, Linking
    <3>4. CASE name[s] \notin secondaries[p]
      <4>1. ASSUME name[s] \in secondaries'[p] PROVE name[s] = name[t]
        <5>1. CASE p = p0
          <6>1. secondaries'[p] = secondaries[p] \cup {name[t]} BY <3>1, <5>1
          <6> QED BY <3>4, <4>1, <6>1
        <5>2. CASE p # p0
          <6>1. secondaries'[p] = secondaries[p] BY <3>1, <5>2
          <6> QED BY <3>4, <4>1, <6>1
        <5> QED BY <5>1, <5>2
      <4> QED BY <3>1, <3>2, <4>1 DEF Linking
    <3> QED BY <3>2, <3>3, <3>4
  <2>3. NoneMissed(t)'
    BY <1>4, <1>0, <1>i, <1>n, InsertSecondaryStep DEF Moves, Goes, Local, dbVars, lockVars, otherVars, DropPc, InsertLocked, NoneMissed, Dropping, Outer, Left, DropWork
  <2>4. InsertLink(t)'
    <3>1. clients[primary_name[t]] \in Inst
      BY <1>4, <1>0, <1>i, InsertSecondaryStep DEF InsertLink, InsertLocked
    <3>2. pc'[t] = "ins_bc" /\ clients' = clients
      BY <1>4, InsertSecondaryStep DEF Moves, dbVars
    <3>3. secondaries'[clients[primary_name[t]]] = secondaries[clients[primary_name[t]]] \cup {name[t]}
      BY <1>4, <3>1, InsertSecondaryStep
    <3>4. name[t] \in secondaries'[clients[primary_name[t]]]
      BY <3>3
    <3> QED BY <3>1, <3>2, <3>4 DEF InsertLink
  <2>5. Kind(t)'
    BY <1>4, <1>0, <1>i, <1>n, InsertSecondaryStep DEF Moves, Goes, Local, dbVars, lockVars, otherVars, DropPc, InsertLocked, Kind, Outer
  <2>6. CountInv'
    <3> DEFINE p0 == clients[primary_name[t]]
    <3>0. /\ pc[t] = "ins_sec"
          /\ \A i \in Inst : secondaries'[i] = IF i = p0 THEN secondaries[i] \cup {name[t]} ELSE secondaries[i]
      BY <1>4, InsertSecondaryStep
    <3>a. p0 # None
      BY <1>0, <1>i, <3>0 DEF InsertLink, InsertLocked
    <3>b. p0 \in Inst /\ name[p0] = primary_name[t] /\ Born(p0)
      BY <1>0, <3>a
    <3>1. Sec(t, p0)
      BY <1>0, <3>0, <3>b DEF Sec
    <3> HIDE DEF p0
    <3>2. ASSUME NEW p \in Inst, NEW n \in secondaries'[p] PROVE \E s \in Inst : Sec(s, p) /\ name[s] = n
      <4>1. CASE p = p0
        <5>1. n \in secondaries[p] \/ n = name[t] BY <3>0, <3>2, <4>1
        <5> QED BY <1>i, <3>1, <4>1, <5>1 DEF CountInv
      <4>2. CASE p # p0
        <5>1. n \in secondaries[p] BY <3>0, <3>2, <4>2
        <5> QED BY <1>i, <5>1 DEF CountInv
      <4> QED BY <4>1, <4>2
    <3>3. ASSUME NEW p \in Inst, ~Born(p)' PROVE secondaries'[p] = {}
      <4>1. ~Born(p) BY <1>0, <3>3
      <4>2. secondaries'[p] = secondaries[p] BY <3>0, <3>b, <4>1
      <4> QED BY <1>i, <4>1, <4>2 DEF CountInv
    <3> QED BY <3>2, <3>3 DEF CountInv, Sec
  <2>7. KindInv' BY <1>4, <1>i, <2>5, InsertSecondaryStep, KindKept DEF Moves, Goes, dbVars, lockVars, otherVars
  <2> QED BY <1>4, <2>1, <2>2, <2>3, <2>4, <2>6, <2>7, InsertSecondaryStep, LinkAfter DEF Moves, Goes, dbVars, lockVars, otherVars, LinkAt
<1>5. CASE InsertBroadcast(t)
  <2>1. HasPrimary(t)'
    <3>1. Dropping(t) => Dropping(t)' /\ Outer(t)' = Outer(t)
      BY <1>5, <1>0, <1>i, InsertBroadcastStep DEF Moves, Goes, Local, lockVars, instVars, otherVars, DropPc, InsertLocked, Dropping, Outer, Kind
    <3> QED BY <1>5, <1>i, <3>1, InsertBroadcastStep, HasPrimaryKept DEF Moves, Goes, lockVars, instVars, otherVars
  <2>2. Counted(t)'
    <3>1. \A n \in Name : Linking(t, n) => Linking(t, n)'
      BY <1>5, <1>0, <1>i, InsertBroadcastStep DEF Moves, Goes, Local, lockVars, instVars, otherVars, DropPc, InsertLocked, Linking
    <3> QED BY <1>5, <1>i, <3>1, InsertBroadcastStep, CountedKept DEF Moves, Goes, lockVars, instVars, otherVars
  <2>3. NoneMissed(t)'
    BY <1>5, <1>0, <1>i, <1>n, InsertBroadcastStep DEF Moves, Goes, Local, lockVars, instVars, otherVars, DropPc, InsertLocked, NoneMissed, Dropping, Outer, Left, DropWork
  <2>4. InsertLink(t)'
    BY <1>5, <1>0, <1>i, <1>n, InsertBroadcastStep DEF Moves, Goes, Local, lockVars, instVars, otherVars, DropPc, InsertLocked, InsertLink, PrimaryMissing
  <2>5. Kind(t)'
    BY <1>5, <1>0, <1>i, <1>n, InsertBroadcastStep DEF Moves, Goes, Local, lockVars, instVars, otherVars, DropPc, InsertLocked, Kind, Outer
  <2>6. CountInv'
    BY <1>5, <1>0, <1>i, <1>n, InsertBroadcastStep DEF Moves, Goes, Local, lockVars, instVars, otherVars, DropPc, InsertLocked, CountInv
  <2>7. KindInv' BY <1>5, <1>i, <2>5, InsertBroadcastStep, KindKept DEF Moves, Goes, lockVars, instVars, otherVars
  <2> QED BY <1>5, <2>1, <2>2, <2>3, <2>4, <2>6, <2>7, InsertBroadcastStep, LinkAfter DEF Moves, Goes, lockVars, instVars, otherVars, LinkAt
<1>6. CASE InsertSubscriptions(t)
  <2>1. HasPrimary(t)'
    <3>1. Dropping(t) => Dropping(t)' /\ Outer(t)' = Outer(t)
      BY <1>6, <1>0, <1>i, InsertSubscriptionsStep DEF Moves, Goes, Local, lockVars, instVars, otherVars, DropPc, InsertLocked, Dropping, Outer, Kind
    <3> QED BY <1>6, <1>i, <3>1, InsertSubscriptionsStep, HasPrimaryKept DEF Moves, Goes, lockVars, instVars, otherVars
  <2>2. Counted(t)'
    <3>1. \A n \in Name : Linking(t, n) => Linking(t, n)'
      BY <1>6, <1>0, <1>i, InsertSubscriptionsStep DEF Moves, Goes, Local, lockVars, instVars, otherVars, DropPc, InsertLocked, Linking
    <3> QED BY <1>6, <1>i, <3>1, InsertSubscriptionsStep, CountedKept DEF Moves, Goes, lockVars, instVars, otherVars
  <2>3. NoneMissed(t)'
    BY <1>6, <1>0, <1>i, <1>n, InsertSubscriptionsStep DEF Moves, Goes, Local, lockVars, instVars, otherVars, DropPc, InsertLocked, NoneMissed, Dropping, Outer, Left, DropWork
  <2>4. InsertLink(t)'
    BY <1>6, <1>0, <1>i, <1>n, InsertSubscriptionsStep DEF Moves, Goes, Local, lockVars, instVars, otherVars, DropPc, InsertLocked, InsertLink, PrimaryMissing
  <2>5. Kind(t)'
    BY <1>6, <1>0, <1>i, <1>n, InsertSubscriptionsStep DEF Moves, Goes, Local, lockVars, instVars, otherVars, DropPc, InsertLocked, Kind, Outer
  <2>6. CountInv'
    BY <1>6, <1>0, <1>i, <1>n, InsertSubscriptionsStep DEF Moves, Goes, Local, lockVars, instVars, otherVars, DropPc, InsertLocked, CountInv
  <2>7. KindInv' BY <1>6, <1>i, <2>5, InsertSubscriptionsStep, KindKept DEF Moves, Goes, lockVars, instVars, otherVars
  <2> QED BY <1>6, <2>1, <2>2, <2>3, <2>4, <2>6, <2>7, InsertSubscriptionsStep, LinkAfter DEF Moves, Goes, lockVars, instVars, otherVars, LinkAt
<1>7. CASE InsertEnd(t)
  <2>1. HasPrimary(t)'
    <3>1. /\ pc[t] = "ins_end" /\ \A n \in Name : clients'[n] = IF n = name[t] THEN t ELSE clients[n]
      BY <1>7, InsertEndStep
    <3> SUFFICES ASSUME NEW s \in Inst, clients'[name[s]] = s, ~Primary(s)
                 PROVE  clients'[primary_name[s]] # None
      BY DEF HasPrimary
    <3>2. CASE s = t
      BY <1>i, <3>1, <3>2 DEF InsertLink, InsertLocked
    <3>3. CASE s # t
      <4>1. clients[name[s]] = s BY <3>1, <3>3
      <4> QED BY <1>i, <3>1, <4>1 DEF HasPrimary, Dropping, DropPc
    <3> QED BY <3>2, <3>3
  <2>2. Counted(t)'
    <3>1. /\ pc[t] = "ins_end" /\ secondaries' = secondaries
          /\ \A n \in Name : clients'[n] = IF n = name[t] THEN t ELSE clients[n]
      BY <1>7, InsertEndStep
    <3>2. clients[name[t]] = None /\ secondaries[t] = {}
      BY <1>i, <3>1 DEF InsertWork, CountInv, Born, InsertLocked
    <3> SUFFICES ASSUME NEW p \in Inst, NEW s \in Inst, clients'[name[p]] = p, Primary(p), Sec(s, p)
                 PROVE  clients'[name[s]] # None <=> name[s] \in secondaries[p]
      BY <3>1 DEF Counted
    <3>3. CASE p = t
      <4>1. name[s] # name[t]
        BY <1>n, <3>3 DEF Sec
      <4>2. ASSUME clients[name[s]] # None PROVE FALSE
        <5>1. PICK q \in Inst : q = clients[name[s]] /\ name[q] = name[s]
          BY <1>0, <4>2
        <5>2. Sec(q, t) /\ clients[name[q]] = q
          BY <1>n, <3>3, <5>1
        <5> QED BY <1>i, <3>1, <3>2, <5>2 DEF HasPrimary, Sec, Dropping, DropPc
      <4> QED BY <3>1, <3>2, <3>3, <4>1, <4>2
    <3>4. CASE p # t
      <4>1. clients[name[p]] = p
        BY <3>1, <3>4
      <4>2. CASE name[s] = name[t]
        <5>1. Sec(t, p)
          BY <1>n, <4>2
        <5>2. ~Primary(t) /\ clients[primary_name[t]] = p
          BY <4>1, <5>1 DEF Sec
        <5> QED BY <1>i, <3>1, <4>2, <5>2 DEF InsertLink
      <4>3. CASE name[s] # name[t]
        BY <1>i, <3>1, <4>1, <4>3 DEF Counted, Linking
      <4> QED BY <4>2, <4>3
    <3> QED BY <3>3, <3>4
  <2>3. NoneMissed(t)'
    BY <1>7, <1>0, <1>i, <1>n, InsertEndStep DEF Goes, Local, otherVars, DropPc, InsertLocked, NoneMissed, Dropping, Outer, Left, DropWork
  <2>4. InsertLink(t)'
    BY <1>7, <1>0, <1>i, <1>n, InsertEndStep DEF Goes, Local, otherVars, DropPc, InsertLocked, InsertLink, PrimaryMissing
  <2>5. Kind(t)'
    BY <1>7, <1>0, <1>i, <1>n, InsertEndStep DEF Goes, Local, otherVars, DropPc, InsertLocked, Kind, Outer
  <2>6. CountInv'
    BY <1>7, <1>0, <1>i, <1>n, InsertEndStep DEF Goes, Local, otherVars, DropPc, InsertLocked, CountInv
  <2>7. KindInv' BY <1>7, <1>i, <2>5, InsertEndStep, KindKept DEF Goes, otherVars
  <2> QED BY <1>7, <2>1, <2>2, <2>3, <2>4, <2>6, <2>7, InsertEndStep, LinkAfter DEF Goes, otherVars, LinkAt
<1>8. CASE AnnounceReg(t)
  <2>1. HasPrimary(t)'
    <3>1. Dropping(t) => Dropping(t)' /\ Outer(t)' = Outer(t)
      BY <1>8, <1>0, <1>i, AnnounceRegStep DEF Goes, Local, dbVars, lockVars, instVars, otherVars, DropPc, InsertLocked, Dropping, Outer, Kind
    <3> QED BY <1>8, <1>i, <3>1, AnnounceRegStep, HasPrimaryKept DEF Goes, dbVars, lockVars, instVars, otherVars
  <2>2. Counted(t)'
    <3>1. \A n \in Name : Linking(t, n) => Linking(t, n)'
      BY <1>8, <1>0, <1>i, AnnounceRegStep DEF Goes, Local, dbVars, lockVars, instVars, otherVars, DropPc, InsertLocked, Linking
    <3> QED BY <1>8, <1>i, <3>1, AnnounceRegStep, CountedKept DEF Goes, dbVars, lockVars, instVars, otherVars
  <2>3. NoneMissed(t)'
    BY <1>8, <1>0, <1>i, <1>n, AnnounceRegStep DEF Goes, Local, dbVars, lockVars, instVars, otherVars, DropPc, InsertLocked, NoneMissed, Dropping, Outer, Left, DropWork
  <2>4. InsertLink(t)'
    BY <1>8, <1>0, <1>i, <1>n, AnnounceRegStep DEF Goes, Local, dbVars, lockVars, instVars, otherVars, DropPc, InsertLocked, InsertLink, PrimaryMissing
  <2>5. Kind(t)'
    BY <1>8, <1>0, <1>i, <1>n, AnnounceRegStep DEF Goes, Local, dbVars, lockVars, instVars, otherVars, DropPc, InsertLocked, Kind, Outer
  <2>6. CountInv'
    BY <1>8, <1>0, <1>i, <1>n, AnnounceRegStep DEF Goes, Local, dbVars, lockVars, instVars, otherVars, DropPc, InsertLocked, CountInv
  <2>7. KindInv' BY <1>8, <1>i, <2>5, AnnounceRegStep, KindKept DEF Goes, dbVars, lockVars, instVars, otherVars
  <2> QED BY <1>8, <2>1, <2>2, <2>3, <2>4, <2>6, <2>7, AnnounceRegStep, LinkAfter DEF Goes, dbVars, lockVars, instVars, otherVars, LinkAt
<1>9. CASE ForceRemove(t)
  <2>1. HasPrimary(t)'
    <3>1. /\ pc[t] = "f_remove" /\ pc'[t] = "d_load" /\ cur'[t] = clients[name[t]] /\ cont'[t] = "force"
          /\ parent'[t] = None /\ clients[name[t]] # None /\ Primary(t)
          /\ \A n \in Name : clients'[n] = IF n = name[t] THEN None ELSE clients[n]
      BY <1>9, <1>0, <1>i, ForceRemoveStep DEF DropPc, Kind
    <3>2. /\ cur'[t] \in Inst /\ name[cur'[t]] = name[t] /\ Primary(cur'[t])
      BY <1>0, <1>n, <3>1
    <3>3. Dropping(t)' /\ Outer(t)' = cur'[t]
      BY <3>1, <3>2 DEF Dropping, Outer, DropPc
    <3>4. ASSUME NEW s \in Inst, clients'[name[s]] = s, ~Primary(s), clients'[primary_name[s]] = None
          PROVE  Sec(s, cur'[t])
      <4>1. clients[name[s]] = s
        BY <3>1, <3>4
      <4>2. clients[primary_name[s]] # None
        BY <1>i, <3>1, <3>4, <4>1 DEF HasPrimary, Dropping, DropPc
      <4> QED BY <3>1, <3>2, <3>4, <4>2 DEF Sec
    <3> QED BY <3>3, <3>4 DEF HasPrimary, Sec
  <2>2. Counted(t)'
    <3>1. /\ pc[t] = "f_remove" /\ secondaries' = secondaries /\ Primary(t)
          /\ \A n \in Name : clients'[n] = IF n = name[t] THEN None ELSE clients[n]
      BY <1>9, <1>i, ForceRemoveStep DEF Kind, instVars
    <3> SUFFICES ASSUME NEW p \in Inst, NEW s \in Inst, clients'[name[p]] = p, Primary(p), Sec(s, p)
                 PROVE  clients'[name[s]] # None <=> name[s] \in secondaries[p]
      BY <3>1 DEF Counted
    <3>2. clients[name[p]] = p /\ name[s] # name[t]
      BY <1>n, <3>1 DEF Sec
    <3> QED BY <1>i, <3>1, <3>2 DEF Counted, Linking
  <2>3. NoneMissed(t)'
    <3>1. /\ pc[t] = "f_remove" /\ pc'[t] = "d_load" /\ cur'[t] = clients[name[t]]
          /\ parent'[t] = None /\ clients[name[t]] # None /\ Primary(t) /\ secondaries' = secondaries
          /\ \A n \in Name : clients'[n] = IF n = name[t] THEN None ELSE clients[n]
      BY <1>9, <1>0, <1>i, ForceRemoveStep DEF DropPc, Kind, instVars
    <3>2. PICK p \in Inst : p = clients[name[t]] /\ name[p] = name[t] /\ Primary(p)
      BY <1>0, <1>n, <3>1
    <3>3. Outer(t)' = p /\ Left(t)' = secondaries[p]
      BY <3>1, <3>2 DEF Outer, Left
    <3>4. ASSUME NEW s \in Inst, Sec(s, p), clients'[name[s]] # None PROVE name[s] \in secondaries[p]
      BY <1>i, <3>1, <3>2, <3>4 DEF Counted
    <3> QED BY <3>3, <3>4 DEF NoneMissed, Sec
  <2>4. InsertLink(t)'
    BY <1>9, <1>0, <1>i, <1>n, ForceRemoveStep DEF Local, lockVars, instVars, otherVars, DropPc, InsertLocked, InsertLink, PrimaryMissing
  <2>5. Kind(t)'
    BY <1>9, <1>0, <1>i, <1>n, ForceRemoveStep DEF Local, lockVars, instVars, otherVars, DropPc, InsertLocked, Kind, Outer
  <2>6. CountInv'
    BY <1>9, <1>0, <1>i, <1>n, ForceRemoveStep DEF Local, lockVars, instVars, otherVars, DropPc, InsertLocked, CountInv
  <2>7. KindInv' BY <1>9, <1>i, <2>5, ForceRemoveStep, KindKept DEF Local, lockVars, instVars, otherVars
  <2> QED BY <1>9, <2>1, <2>2, <2>3, <2>4, <2>6, <2>7, ForceRemoveStep, LinkAfter DEF Local, lockVars, instVars, otherVars, LinkAt
<1>10. CASE ForceVacant(t)
  <2>1. HasPrimary(t)'
    <3>1. Dropping(t) => Dropping(t)' /\ Outer(t)' = Outer(t)
      BY <1>10, <1>0, <1>i, ForceVacantStep DEF Moves, Goes, Local, dbVars, lockVars, instVars, otherVars, DropPc, InsertLocked, Dropping, Outer, Kind
    <3> QED BY <1>10, <1>i, <3>1, ForceVacantStep, HasPrimaryKept DEF Moves, Goes, dbVars, lockVars, instVars, otherVars
  <2>2. Counted(t)'
    <3>1. \A n \in Name : Linking(t, n) => Linking(t, n)'
      BY <1>10, <1>0, <1>i, ForceVacantStep DEF Moves, Goes, Local, dbVars, lockVars, instVars, otherVars, DropPc, InsertLocked, Linking
    <3> QED BY <1>10, <1>i, <3>1, ForceVacantStep, CountedKept DEF Moves, Goes, dbVars, lockVars, instVars, otherVars
  <2>3. NoneMissed(t)'
    BY <1>10, <1>0, <1>i, <1>n, ForceVacantStep DEF Moves, Goes, Local, dbVars, lockVars, instVars, otherVars, DropPc, InsertLocked, NoneMissed, Dropping, Outer, Left, DropWork
  <2>4. InsertLink(t)'
    BY <1>10, <1>0, <1>i, <1>n, ForceVacantStep DEF Moves, Goes, Local, dbVars, lockVars, instVars, otherVars, DropPc, InsertLocked, InsertLink, PrimaryMissing
  <2>5. Kind(t)'
    BY <1>10, <1>0, <1>i, <1>n, ForceVacantStep DEF Moves, Goes, Local, dbVars, lockVars, instVars, otherVars, DropPc, InsertLocked, Kind, Outer
  <2>6. CountInv'
    BY <1>10, <1>0, <1>i, <1>n, ForceVacantStep DEF Moves, Goes, Local, dbVars, lockVars, instVars, otherVars, DropPc, InsertLocked, CountInv
  <2>7. KindInv' BY <1>10, <1>i, <2>5, ForceVacantStep, KindKept DEF Moves, Goes, dbVars, lockVars, instVars, otherVars
  <2> QED BY <1>10, <2>1, <2>2, <2>3, <2>4, <2>6, <2>7, ForceVacantStep, LinkAfter DEF Moves, Goes, dbVars, lockVars, instVars, otherVars, LinkAt
<1>11. CASE ForceTrigger(t)
  <2>1. HasPrimary(t)'
    <3>1. Dropping(t) => Dropping(t)' /\ Outer(t)' = Outer(t)
      BY <1>11, <1>0, <1>i, ForceTriggerStep DEF Local, dbVars, lockVars, otherVars, DropPc, InsertLocked, Dropping, Outer, Kind
    <3> QED BY <1>11, <1>i, <3>1, ForceTriggerStep, HasPrimaryKept DEF Local, dbVars, lockVars, otherVars
  <2>2. Counted(t)'
    <3>1. \A n \in Name : Linking(t, n) => Linking(t, n)'
      BY <1>11, <1>0, <1>i, ForceTriggerStep DEF Local, dbVars, lockVars, otherVars, DropPc, InsertLocked, Linking
    <3> QED BY <1>11, <1>i, <3>1, ForceTriggerStep, CountedKept DEF Local, dbVars, lockVars, otherVars
  <2>3. NoneMissed(t)'
    BY <1>11, <1>0, <1>i, <1>n, ForceTriggerStep DEF Local, dbVars, lockVars, otherVars, DropPc, InsertLocked, NoneMissed, Dropping, Outer, Left, DropWork
  <2>4. InsertLink(t)'
    BY <1>11, <1>0, <1>i, <1>n, ForceTriggerStep DEF Local, dbVars, lockVars, otherVars, DropPc, InsertLocked, InsertLink, PrimaryMissing
  <2>5. Kind(t)'
    BY <1>11, <1>0, <1>i, <1>n, ForceTriggerStep DEF Local, dbVars, lockVars, otherVars, DropPc, InsertLocked, Kind, Outer
  <2>6. CountInv'
    BY <1>11, <1>0, <1>i, <1>n, ForceTriggerStep DEF Local, dbVars, lockVars, otherVars, DropPc, InsertLocked, CountInv
  <2>7. KindInv' BY <1>11, <1>i, <2>5, ForceTriggerStep, KindKept DEF Local, dbVars, lockVars, otherVars
  <2> QED BY <1>11, <2>1, <2>2, <2>3, <2>4, <2>6, <2>7, ForceTriggerStep, LinkAfter DEF Local, dbVars, lockVars, otherVars, LinkAt
<1> QED BY <1>1, <1>2, <1>3, <1>4, <1>5, <1>6, <1>7, <1>8, <1>9, <1>10, <1>11 DEF Insert

LEMMA DropLinkInv ==
  ASSUME TypeOK, LockInv, IndexInv, LinkInv, MayUnregister = {}, NEW t \in Inst, Others(t), Drop(t)
  PROVE  LinkInv'
<1>0. /\ clients \in [Name -> Inst \cup {None}] /\ secondaries \in [Inst -> SUBSET Name]
      /\ cur \in [Inst -> Inst] /\ parent \in [Inst -> Inst \cup {None}]
      /\ todo \in [Inst -> SUBSET Name]
      /\ \A n \in Name : clients[n] # None => name[clients[n]] = n /\ Born(clients[n])
      /\ parent[t] # None => pc[t] \in DropPc /\ Primary(parent[t]) /\ ~Primary(cur[t])
      /\ pc[t] \in {"d_sec", "d_loop"} => Primary(cur[t])
      /\ pc[t] = "ins_sec" => ~Primary(t)
      /\ AfterDrop(t) \in {"f_trig", "done", "ann_unreg", "u_end"}
      /\ \A i \in Inst : Born(i) => Born(i)'
  BY AfterDropOut, DropBorn DEF TypeOK, LockInv, BornInv, NestInv
<1>i. /\ InsertWork(t) /\ DropWork(t)
      /\ CountInv /\ KindInv /\ Kind(t)
      /\ HasPrimary(t) /\ Counted(t) /\ NoneMissed(t) /\ InsertLink(t)
  BY IndexBefore, LinkBefore DEF IndexAt, LinkAt, LinkInv, KindInv
<1>n. \A i, j, p \in Inst : name[i] = name[j] => (Primary(i) <=> Primary(j)) /\ (Sec(i, p) <=> Sec(j, p))
  BY SecOfName
<1>1. CASE DropLoad(t)
  <2>1. HasPrimary(t)'
    <3>1. Dropping(t) => Dropping(t)' /\ Outer(t)' = Outer(t)
      BY <1>1, <1>0, <1>i, DropLoadStep DEF Moves, Goes, Local, dbVars, lockVars, instVars, otherVars, DropPc, InsertLocked, Dropping, Outer, Kind
    <3> QED BY <1>1, <1>i, <3>1, DropLoadStep, HasPrimaryKept DEF Moves, Goes, dbVars, lockVars, instVars, otherVars
  <2>2. Counted(t)'
    <3>1. \A n \in Name : Linking(t, n) => Linking(t, n)'
      BY <1>1, <1>0, <1>i, DropLoadStep DEF Moves, Goes, Local, dbVars, lockVars, instVars, otherVars, DropPc, InsertLocked, Linking
    <3> QED BY <1>1, <1>i, <3>1, DropLoadStep, CountedKept DEF Moves, Goes, dbVars, lockVars, instVars, otherVars
  <2>3. NoneMissed(t)'
    BY <1>1, <1>0, <1>i, <1>n, DropLoadStep DEF Moves, Goes, Local, dbVars, lockVars, instVars, otherVars, DropPc, InsertLocked, NoneMissed, Dropping, Outer, Left, DropWork
  <2>4. InsertLink(t)'
    BY <1>1, <1>0, <1>i, <1>n, DropLoadStep DEF Moves, Goes, Local, dbVars, lockVars, instVars, otherVars, DropPc, InsertLocked, InsertLink, PrimaryMissing
  <2>5. Kind(t)'
    BY <1>1, <1>0, <1>i, <1>n, DropLoadStep DEF Moves, Goes, Local, dbVars, lockVars, instVars, otherVars, DropPc, InsertLocked, Kind, Outer
  <2>6. CountInv'
    BY <1>1, <1>0, <1>i, <1>n, DropLoadStep DEF Moves, Goes, Local, dbVars, lockVars, instVars, otherVars, DropPc, InsertLocked, CountInv
  <2>7. KindInv' BY <1>1, <1>i, <2>5, DropLoadStep, KindKept DEF Moves, Goes, dbVars, lockVars, instVars, otherVars
  <2> QED BY <1>1, <2>1, <2>2, <2>3, <2>4, <2>6, <2>7, DropLoadStep, LinkAfter DEF Moves, Goes, dbVars, lockVars, instVars, otherVars, LinkAt
<1>2. CASE DropNotRegistered(t)
  <2>1. HasPrimary(t)'
    <3>1. Dropping(t) => Dropping(t)' /\ Outer(t)' = Outer(t)
      BY <1>2, <1>0, <1>i, DropNotRegisteredStep DEF Returns, Local, dbVars, lockVars, instVars, otherVars, DropPc, InsertLocked, Dropping, Outer, Kind, DropWork, Displacing, Flagged
    <3> QED BY <1>2, <1>i, <3>1, DropNotRegisteredStep, HasPrimaryKept DEF Returns, dbVars, lockVars, instVars, otherVars
  <2>2. Counted(t)'
    <3>1. \A n \in Name : Linking(t, n) => Linking(t, n)'
      BY <1>2, <1>0, <1>i, DropNotRegisteredStep DEF Returns, Local, dbVars, lockVars, instVars, otherVars, DropPc, InsertLocked, Linking
    <3> QED BY <1>2, <1>i, <3>1, DropNotRegisteredStep, CountedKept DEF Returns, dbVars, lockVars, instVars, otherVars
  <2>3. NoneMissed(t)'
    <3>1. ~Dropping(t)
      BY <1>2, <1>0, <1>i, DropNotRegisteredStep DEF Returns, Local, dbVars, lockVars, instVars, otherVars, DropPc, InsertLocked, Dropping, Outer, Kind, DropWork, Displacing, Flagged
    <3> QED BY <1>2, <1>0, <1>i, <3>1, DropNotRegisteredStep DEF Returns, Local, dbVars, lockVars, instVars, otherVars, DropPc, InsertLocked, NoneMissed, Dropping, Outer
  <2>4. InsertLink(t)'
    BY <1>2, <1>0, <1>i, <1>n, DropNotRegisteredStep DEF Returns, Local, dbVars, lockVars, instVars, otherVars, DropPc, InsertLocked, InsertLink, PrimaryMissing
  <2>5. Kind(t)'
    BY <1>2, <1>0, <1>i, <1>n, DropNotRegisteredStep DEF Returns, Local, dbVars, lockVars, instVars, otherVars, DropPc, InsertLocked, Kind, Outer
  <2>6. CountInv'
    BY <1>2, <1>0, <1>i, <1>n, DropNotRegisteredStep DEF Returns, Local, dbVars, lockVars, instVars, otherVars, DropPc, InsertLocked, CountInv
  <2>7. KindInv' BY <1>2, <1>i, <2>5, DropNotRegisteredStep, KindKept DEF Returns, dbVars, lockVars, instVars, otherVars
  <2> QED BY <1>2, <2>1, <2>2, <2>3, <2>4, <2>6, <2>7, DropNotRegisteredStep, LinkAfter DEF Returns, dbVars, lockVars, instVars, otherVars, LinkAt
<1>3. CASE DropStore(t)
  <2>1. HasPrimary(t)'
    <3>1. Dropping(t) => Dropping(t)' /\ Outer(t)' = Outer(t)
      BY <1>3, <1>0, <1>i, DropStoreStep DEF Moves, Goes, Local, dbVars, lockVars, otherVars, DropPc, InsertLocked, Dropping, Outer, Kind
    <3> QED BY <1>3, <1>i, <3>1, DropStoreStep, HasPrimaryKept DEF Moves, Goes, dbVars, lockVars, otherVars
  <2>2. Counted(t)'
    <3>1. \A n \in Name : Linking(t, n) => Linking(t, n)'
      BY <1>3, <1>0, <1>i, DropStoreStep DEF Moves, Goes, Local, dbVars, lockVars, otherVars, DropPc, InsertLocked, Linking
    <3> QED BY <1>3, <1>i, <3>1, DropStoreStep, CountedKept DEF Moves, Goes, dbVars, lockVars, otherVars
  <2>3. NoneMissed(t)'
    BY <1>3, <1>0, <1>i, <1>n, DropStoreStep DEF Moves, Goes, Local, dbVars, lockVars, otherVars, DropPc, InsertLocked, NoneMissed, Dropping, Outer, Left, DropWork
  <2>4. InsertLink(t)'
    BY <1>3, <1>0, <1>i, <1>n, DropStoreStep DEF Moves, Goes, Local, dbVars, lockVars, otherVars, DropPc, InsertLocked, InsertLink, PrimaryMissing
  <2>5. Kind(t)'
    BY <1>3, <1>0, <1>i, <1>n, DropStoreStep DEF Moves, Goes, Local, dbVars, lockVars, otherVars, DropPc, InsertLocked, Kind, Outer
  <2>6. CountInv'
    BY <1>3, <1>0, <1>i, <1>n, DropStoreStep DEF Moves, Goes, Local, dbVars, lockVars, otherVars, DropPc, InsertLocked, CountInv
  <2>7. KindInv' BY <1>3, <1>i, <2>5, DropStoreStep, KindKept DEF Moves, Goes, dbVars, lockVars, otherVars
  <2> QED BY <1>3, <2>1, <2>2, <2>3, <2>4, <2>6, <2>7, DropStoreStep, LinkAfter DEF Moves, Goes, dbVars, lockVars, otherVars, LinkAt
<1>4. CASE DropSubscriptions(t)
  <2>1. HasPrimary(t)'
    <3>1. Dropping(t) => Dropping(t)' /\ Outer(t)' = Outer(t)
      BY <1>4, <1>0, <1>i, DropSubscriptionsStep DEF Moves, Goes, Local, lockVars, instVars, otherVars, DropPc, InsertLocked, Dropping, Outer, Kind
    <3> QED BY <1>4, <1>i, <3>1, DropSubscriptionsStep, HasPrimaryKept DEF Moves, Goes, lockVars, instVars, otherVars
  <2>2. Counted(t)'
    <3>1. \A n \in Name : Linking(t, n) => Linking(t, n)'
      BY <1>4, <1>0, <1>i, DropSubscriptionsStep DEF Moves, Goes, Local, lockVars, instVars, otherVars, DropPc, InsertLocked, Linking
    <3> QED BY <1>4, <1>i, <3>1, DropSubscriptionsStep, CountedKept DEF Moves, Goes, lockVars, instVars, otherVars
  <2>3. NoneMissed(t)'
    BY <1>4, <1>0, <1>i, <1>n, DropSubscriptionsStep DEF Moves, Goes, Local, lockVars, instVars, otherVars, DropPc, InsertLocked, NoneMissed, Dropping, Outer, Left, DropWork
  <2>4. InsertLink(t)'
    BY <1>4, <1>0, <1>i, <1>n, DropSubscriptionsStep DEF Moves, Goes, Local, lockVars, instVars, otherVars, DropPc, InsertLocked, InsertLink, PrimaryMissing
  <2>5. Kind(t)'
    BY <1>4, <1>0, <1>i, <1>n, DropSubscriptionsStep DEF Moves, Goes, Local, lockVars, instVars, otherVars, DropPc, InsertLocked, Kind, Outer
  <2>6. CountInv'
    BY <1>4, <1>0, <1>i, <1>n, DropSubscriptionsStep DEF Moves, Goes, Local, lockVars, instVars, otherVars, DropPc, InsertLocked, CountInv
  <2>7. KindInv' BY <1>4, <1>i, <2>5, DropSubscriptionsStep, KindKept DEF Moves, Goes, lockVars, instVars, otherVars
  <2> QED BY <1>4, <2>1, <2>2, <2>3, <2>4, <2>6, <2>7, DropSubscriptionsStep, LinkAfter DEF Moves, Goes, lockVars, instVars, otherVars, LinkAt
<1>5. CASE DropBroadcast(t)
  <2>1. HasPrimary(t)'
    <3>1. Dropping(t) => Dropping(t)' /\ Outer(t)' = Outer(t)
      BY <1>5, <1>0, <1>i, DropBroadcastStep DEF Moves, Goes, Local, lockVars, instVars, otherVars, DropPc, InsertLocked, Dropping, Outer, Kind
    <3> QED BY <1>5, <1>i, <3>1, DropBroadcastStep, HasPrimaryKept DEF Moves, Goes, lockVars, instVars, otherVars
  <2>2. Counted(t)'
    <3>1. \A n \in Name : Linking(t, n) => Linking(t, n)'
      BY <1>5, <1>0, <1>i, DropBroadcastStep DEF Moves, Goes, Local, lockVars, instVars, otherVars, DropPc, InsertLocked, Linking
    <3> QED BY <1>5, <1>i, <3>1, DropBroadcastStep, CountedKept DEF Moves, Goes, lockVars, instVars, otherVars
  <2>3. NoneMissed(t)'
    BY <1>5, <1>0, <1>i, <1>n, DropBroadcastStep DEF Moves, Goes, Local, lockVars, instVars, otherVars, DropPc, InsertLocked, NoneMissed, Dropping, Outer, Left, DropWork
  <2>4. InsertLink(t)'
    BY <1>5, <1>0, <1>i, <1>n, DropBroadcastStep DEF Moves, Goes, Local, lockVars, instVars, otherVars, DropPc, InsertLocked, InsertLink, PrimaryMissing
  <2>5. Kind(t)'
    BY <1>5, <1>0, <1>i, <1>n, DropBroadcastStep DEF Moves, Goes, Local, lockVars, instVars, otherVars, DropPc, InsertLocked, Kind, Outer
  <2>6. CountInv'
    BY <1>5, <1>0, <1>i, <1>n, DropBroadcastStep DEF Moves, Goes, Local, lockVars, instVars, otherVars, DropPc, InsertLocked, CountInv
  <2>7. KindInv' BY <1>5, <1>i, <2>5, DropBroadcastStep, KindKept DEF Moves, Goes, lockVars, instVars, otherVars
  <2> QED BY <1>5, <2>1, <2>2, <2>3, <2>4, <2>6, <2>7, DropBroadcastStep, LinkAfter DEF Moves, Goes, lockVars, instVars, otherVars, LinkAt
<1>6. CASE DropClients(t)
  <2>1. HasPrimary(t)'
    <3>1. /\ pc[t] = "d_clients" /\ cur'[t] = cur[t] /\ parent'[t] = parent[t] /\ cont'[t] = cont[t]
          /\ pc'[t] = IF Primary(cur[t]) THEN "d_sec" ELSE "d_unlink_lock"
          /\ \A n \in Name : clients'[n] = IF n = name[cur[t]] THEN None ELSE clients[n]
      BY <1>6, DropClientsStep DEF Moves, Goes
    <3>2. Outer(t)' = Outer(t) /\ (Dropping(t) => Dropping(t)')
      BY <1>0, <1>i, <3>1 DEF Outer, Dropping, DropPc, Kind
    <3>3. ASSUME NEW s \in Inst, clients'[name[s]] = s, ~Primary(s), clients'[primary_name[s]] = None
          PROVE  Dropping(t)' /\ Sec(s, Outer(t))
      <4>1. clients[name[s]] = s
        BY <3>1, <3>3
      <4>2. CASE clients[primary_name[s]] # None
        <5>0. primary_name[s] = name[cur[t]]
          BY <3>1, <3>3, <4>2
        <5>1. primary_name[s] = name[cur[t]] /\ Primary(cur[t])
          BY <1>0, <5>0
        <5>2. parent[t] = None
          BY <1>0, <5>1
        <5> QED BY <3>1, <3>3, <5>1, <5>2 DEF Dropping, Outer, Sec, DropPc
      <4>3. CASE clients[primary_name[s]] = None
        BY <1>i, <3>2, <3>3, <4>1, <4>3 DEF HasPrimary
      <4> QED BY <4>2, <4>3
    <3> QED BY <3>2, <3>3 DEF HasPrimary, Sec
  <2>2. Counted(t)'
    <3>1. /\ pc[t] = "d_clients" /\ cur'[t] = cur[t] /\ secondaries' = secondaries
          /\ pc'[t] = IF Primary(cur[t]) THEN "d_sec" ELSE "d_unlink_lock"
          /\ \A n \in Name : clients'[n] = IF n = name[cur[t]] THEN None ELSE clients[n]
      BY <1>6, DropClientsStep DEF Moves, Goes, instVars
    <3> SUFFICES ASSUME NEW p \in Inst, NEW s \in Inst, clients'[name[p]] = p, Primary(p), Sec(s, p)
                 PROVE  /\ clients'[name[s]] # None => name[s] \in secondaries[p]
                        /\ name[s] \in secondaries[p] => clients'[name[s]] # None \/ Linking(t, name[s])'
      BY <3>1 DEF Counted
    <3>2. clients[name[p]] = p
      BY <3>1
    <3>3. CASE name[s] = name[cur[t]]
      <4>1. ~Primary(cur[t])
        BY <1>0, <1>n, <3>3 DEF Sec
      <4> QED BY <3>1, <3>3, <4>1 DEF Linking
    <3>4. CASE name[s] # name[cur[t]]
      BY <1>i, <3>1, <3>2, <3>4 DEF Counted, Linking
    <3> QED BY <3>3, <3>4
  <2>3. NoneMissed(t)'
    <3>1. /\ pc[t] = "d_clients" /\ cur'[t] = cur[t] /\ parent'[t] = parent[t] /\ cont'[t] = cont[t]
          /\ pc'[t] = IF Primary(cur[t]) THEN "d_sec" ELSE "d_unlink_lock"
          /\ secondaries' = secondaries /\ todo'[t] = todo[t]
          /\ \A n \in Name : clients'[n] = IF n = name[cur[t]] THEN None ELSE clients[n]
      BY <1>6, DropClientsStep DEF Moves, Goes, instVars
    <3>2. Outer(t)' = Outer(t) /\ Left(t)' = Left(t)
      BY <3>1 DEF Outer, Left
    <3>3. CASE Dropping(t)
      BY <1>i, <3>1, <3>2, <3>3 DEF NoneMissed, Sec
    <3>4. CASE ~Dropping(t) /\ Dropping(t)'
      <4>1. parent[t] = None /\ cont[t] # "force" /\ Primary(cur[t]) /\ Outer(t) = cur[t] /\ Left(t) = secondaries[cur[t]]
        BY <3>1, <3>4 DEF Dropping, Outer, Left, DropPc
      <4>2. clients[name[cur[t]]] = cur[t]
        BY <1>i, <3>1, <4>1 DEF DropWork, Displacing
      <4>3. ASSUME NEW s \in Inst, Sec(s, cur[t]), clients'[name[s]] # None PROVE name[s] \in secondaries[cur[t]]
        BY <1>0, <1>i, <3>1, <4>1, <4>2, <4>3 DEF Counted
      <4> QED BY <3>2, <4>1, <4>3 DEF NoneMissed, Sec
    <3>5. CASE ~Dropping(t)'
      BY <3>5 DEF NoneMissed
    <3> QED BY <3>3, <3>4, <3>5
  <2>4. InsertLink(t)'
    BY <1>6, <1>0, <1>i, <1>n, DropClientsStep DEF Moves, Goes, Local, lockVars, instVars, otherVars, DropPc, InsertLocked, InsertLink, PrimaryMissing
  <2>5. Kind(t)'
    BY <1>6, <1>0, <1>i, <1>n, DropClientsStep DEF Moves, Goes, Local, lockVars, instVars, otherVars, DropPc, InsertLocked, Kind, Outer
  <2>6. CountInv'
    BY <1>6, <1>0, <1>i, <1>n, DropClientsStep DEF Moves, Goes, Local, lockVars, instVars, otherVars, DropPc, InsertLocked, CountInv
  <2>7. KindInv' BY <1>6, <1>i, <2>5, DropClientsStep, KindKept DEF Moves, Goes, lockVars, instVars, otherVars
  <2> QED BY <1>6, <2>1, <2>2, <2>3, <2>4, <2>6, <2>7, DropClientsStep, LinkAfter DEF Moves, Goes, lockVars, instVars, otherVars, LinkAt
<1>7. CASE DropLockSecondaries(t)
  <2>1. HasPrimary(t)'
    <3>1. Dropping(t) => Dropping(t)' /\ Outer(t)' = Outer(t)
      BY <1>7, <1>0, <1>i, DropLockSecondariesStep DEF Local, dbVars, instVars, otherVars, DropPc, InsertLocked, Dropping, Outer, Kind
    <3> QED BY <1>7, <1>i, <3>1, DropLockSecondariesStep, HasPrimaryKept DEF Local, dbVars, instVars, otherVars
  <2>2. Counted(t)'
    <3>1. \A n \in Name : Linking(t, n) => Linking(t, n)'
      BY <1>7, <1>0, <1>i, DropLockSecondariesStep DEF Local, dbVars, instVars, otherVars, DropPc, InsertLocked, Linking
    <3> QED BY <1>7, <1>i, <3>1, DropLockSecondariesStep, CountedKept DEF Local, dbVars, instVars, otherVars
  <2>3. NoneMissed(t)'
    BY <1>7, <1>0, <1>i, <1>n, DropLockSecondariesStep DEF Local, dbVars, instVars, otherVars, DropPc, InsertLocked, NoneMissed, Dropping, Outer, Left, DropWork
  <2>4. InsertLink(t)'
    BY <1>7, <1>0, <1>i, <1>n, DropLockSecondariesStep DEF Local, dbVars, instVars, otherVars, DropPc, InsertLocked, InsertLink, PrimaryMissing
  <2>5. Kind(t)'
    BY <1>7, <1>0, <1>i, <1>n, DropLockSecondariesStep DEF Local, dbVars, instVars, otherVars, DropPc, InsertLocked, Kind, Outer
  <2>6. CountInv'
    BY <1>7, <1>0, <1>i, <1>n, DropLockSecondariesStep DEF Local, dbVars, instVars, otherVars, DropPc, InsertLocked, CountInv
  <2>7. KindInv' BY <1>7, <1>i, <2>5, DropLockSecondariesStep, KindKept DEF Local, dbVars, instVars, otherVars
  <2> QED BY <1>7, <2>1, <2>2, <2>3, <2>4, <2>6, <2>7, DropLockSecondariesStep, LinkAfter DEF Local, dbVars, instVars, otherVars, LinkAt
<1>8. CASE DropNextSecondary(t)
  <2>1. HasPrimary(t)'
    <3>1. Dropping(t) => Dropping(t)' /\ Outer(t)' = Outer(t)
      BY <1>8, <1>0, <1>i, DropNextSecondaryStep DEF Local, dbVars, lockVars, otherVars, DropPc, InsertLocked, Dropping, Outer, Kind
    <3> QED BY <1>8, <1>i, <3>1, DropNextSecondaryStep, HasPrimaryKept DEF Local, dbVars, lockVars, otherVars
  <2>2. Counted(t)'
    <3>1. \A n \in Name : Linking(t, n) => Linking(t, n)'
      BY <1>8, <1>0, <1>i, DropNextSecondaryStep DEF Local, dbVars, lockVars, otherVars, DropPc, InsertLocked, Linking
    <3> QED BY <1>8, <1>i, <3>1, DropNextSecondaryStep, CountedKept DEF Local, dbVars, lockVars, otherVars
  <2>3. NoneMissed(t)'
    BY <1>8, <1>0, <1>i, <1>n, DropNextSecondaryStep DEF Local, dbVars, lockVars, otherVars, DropPc, InsertLocked, NoneMissed, Dropping, Outer, Left, DropWork
  <2>4. InsertLink(t)'
    BY <1>8, <1>0, <1>i, <1>n, DropNextSecondaryStep DEF Local, dbVars, lockVars, otherVars, DropPc, InsertLocked, InsertLink, PrimaryMissing
  <2>5. Kind(t)'
    BY <1>8, <1>0, <1>i, <1>n, DropNextSecondaryStep DEF Local, dbVars, lockVars, otherVars, DropPc, InsertLocked, Kind, Outer
  <2>6. CountInv'
    BY <1>8, <1>0, <1>i, <1>n, DropNextSecondaryStep DEF Local, dbVars, lockVars, otherVars, DropPc, InsertLocked, CountInv
  <2>7. KindInv' BY <1>8, <1>i, <2>5, DropNextSecondaryStep, KindKept DEF Local, dbVars, lockVars, otherVars
  <2> QED BY <1>8, <2>1, <2>2, <2>3, <2>4, <2>6, <2>7, DropNextSecondaryStep, LinkAfter DEF Local, dbVars, lockVars, otherVars, LinkAt
<1>9. CASE DropMissingSecondary(t)
  <2>1. HasPrimary(t)'
    <3>1. Dropping(t) => Dropping(t)' /\ Outer(t)' = Outer(t)
      BY <1>9, <1>0, <1>i, DropMissingSecondaryStep DEF Local, dbVars, lockVars, instVars, otherVars, DropPc, InsertLocked, Dropping, Outer, Kind
    <3> QED BY <1>9, <1>i, <3>1, DropMissingSecondaryStep, HasPrimaryKept DEF Local, dbVars, lockVars, instVars, otherVars
  <2>2. Counted(t)'
    <3>1. \A n \in Name : Linking(t, n) => Linking(t, n)'
      BY <1>9, <1>0, <1>i, DropMissingSecondaryStep DEF Local, dbVars, lockVars, instVars, otherVars, DropPc, InsertLocked, Linking
    <3> QED BY <1>9, <1>i, <3>1, DropMissingSecondaryStep, CountedKept DEF Local, dbVars, lockVars, instVars, otherVars
  <2>3. NoneMissed(t)'
    BY <1>9, <1>0, <1>i, <1>n, DropMissingSecondaryStep DEF Local, dbVars, lockVars, instVars, otherVars, DropPc, InsertLocked, NoneMissed, Dropping, Outer, Left, DropWork
  <2>4. InsertLink(t)'
    BY <1>9, <1>0, <1>i, <1>n, DropMissingSecondaryStep DEF Local, dbVars, lockVars, instVars, otherVars, DropPc, InsertLocked, InsertLink, PrimaryMissing
  <2>5. Kind(t)'
    BY <1>9, <1>0, <1>i, <1>n, DropMissingSecondaryStep DEF Local, dbVars, lockVars, instVars, otherVars, DropPc, InsertLocked, Kind, Outer
  <2>6. CountInv'
    BY <1>9, <1>0, <1>i, <1>n, DropMissingSecondaryStep DEF Local, dbVars, lockVars, instVars, otherVars, DropPc, InsertLocked, CountInv
  <2>7. KindInv' BY <1>9, <1>i, <2>5, DropMissingSecondaryStep, KindKept DEF Local, dbVars, lockVars, instVars, otherVars
  <2> QED BY <1>9, <2>1, <2>2, <2>3, <2>4, <2>6, <2>7, DropMissingSecondaryStep, LinkAfter DEF Local, dbVars, lockVars, instVars, otherVars, LinkAt
<1>10. CASE DropSecondariesEnd(t)
  <2>1. HasPrimary(t)'
    <3>1. /\ pc[t] = "d_loop" /\ todo[t] = {} /\ parent[t] = None /\ Primary(cur[t]) /\ clients' = clients
      BY <1>10, <1>0, DropSecondariesEndStep DEF dbVars
    <3>2. Dropping(t) /\ Outer(t) = cur[t] /\ Left(t) = {}
      BY <3>1 DEF Dropping, Outer, Left, DropPc
    <3>3. ASSUME NEW s \in Inst, clients[name[s]] = s, ~Primary(s) PROVE clients[primary_name[s]] # None
      BY <1>i, <3>2, <3>3 DEF HasPrimary, NoneMissed
    <3> QED BY <3>1, <3>3 DEF HasPrimary
  <2>2. Counted(t)'
    <3>1. /\ pc[t] = "d_loop" /\ clients' = clients
          /\ \A i \in Inst : secondaries'[i] = IF i = cur[t] THEN {} ELSE secondaries[i]
      BY <1>10, DropSecondariesEndStep DEF dbVars
    <3>2. clients[name[cur[t]]] # cur[t]
      BY <1>0, <1>i, <3>1 DEF DropWork
    <3>3. ASSUME NEW p \in Inst, NEW s \in Inst, clients[name[p]] = p, Primary(p), Sec(s, p)
          PROVE  clients[name[s]] # None <=> name[s] \in secondaries'[p]
      BY <1>i, <3>1, <3>2, <3>3 DEF Counted, Linking
    <3> QED BY <3>1, <3>3 DEF Counted
  <2>3. NoneMissed(t)'
    BY <1>10, <1>0, <1>i, <1>n, DropSecondariesEndStep DEF Returns, Local, dbVars, otherVars, DropPc, InsertLocked, NoneMissed, Dropping, Outer, Left, DropWork
  <2>4. InsertLink(t)'
    BY <1>10, <1>0, <1>i, <1>n, DropSecondariesEndStep DEF Returns, Local, dbVars, otherVars, DropPc, InsertLocked, InsertLink, PrimaryMissing
  <2>5. Kind(t)'
    BY <1>10, <1>0, <1>i, <1>n, DropSecondariesEndStep DEF Returns, Local, dbVars, otherVars, DropPc, InsertLocked, Kind, Outer
  <2>6. CountInv'
    BY <1>10, <1>0, <1>i, <1>n, DropSecondariesEndStep DEF Returns, Local, dbVars, otherVars, DropPc, InsertLocked, CountInv
  <2>7. KindInv' BY <1>10, <1>i, <2>5, DropSecondariesEndStep, KindKept DEF Returns, dbVars, otherVars
  <2> QED BY <1>10, <2>1, <2>2, <2>3, <2>4, <2>6, <2>7, DropSecondariesEndStep, LinkAfter DEF Returns, dbVars, otherVars, LinkAt
<1>11. CASE DropUnlinkLock(t)
  <2>1. HasPrimary(t)'
    <3>1. Dropping(t) => Dropping(t)' /\ Outer(t)' = Outer(t)
      BY <1>11, <1>0, <1>i, DropUnlinkLockStep DEF Moves, Goes, Local, dbVars, instVars, otherVars, DropPc, InsertLocked, Dropping, Outer, Kind
    <3> QED BY <1>11, <1>i, <3>1, DropUnlinkLockStep, HasPrimaryKept DEF Moves, Goes, dbVars, instVars, otherVars
  <2>2. Counted(t)'
    <3>1. \A n \in Name : Linking(t, n) => Linking(t, n)'
      BY <1>11, <1>0, <1>i, DropUnlinkLockStep DEF Moves, Goes, Local, dbVars, instVars, otherVars, DropPc, InsertLocked, Linking
    <3> QED BY <1>11, <1>i, <3>1, DropUnlinkLockStep, CountedKept DEF Moves, Goes, dbVars, instVars, otherVars
  <2>3. NoneMissed(t)'
    BY <1>11, <1>0, <1>i, <1>n, DropUnlinkLockStep DEF Moves, Goes, Local, dbVars, instVars, otherVars, DropPc, InsertLocked, NoneMissed, Dropping, Outer, Left, DropWork
  <2>4. InsertLink(t)'
    BY <1>11, <1>0, <1>i, <1>n, DropUnlinkLockStep DEF Moves, Goes, Local, dbVars, instVars, otherVars, DropPc, InsertLocked, InsertLink, PrimaryMissing
  <2>5. Kind(t)'
    BY <1>11, <1>0, <1>i, <1>n, DropUnlinkLockStep DEF Moves, Goes, Local, dbVars, instVars, otherVars, DropPc, InsertLocked, Kind, Outer
  <2>6. CountInv'
    BY <1>11, <1>0, <1>i, <1>n, DropUnlinkLockStep DEF Moves, Goes, Local, dbVars, instVars, otherVars, DropPc, InsertLocked, CountInv
  <2>7. KindInv' BY <1>11, <1>i, <2>5, DropUnlinkLockStep, KindKept DEF Moves, Goes, dbVars, instVars, otherVars
  <2> QED BY <1>11, <2>1, <2>2, <2>3, <2>4, <2>6, <2>7, DropUnlinkLockStep, LinkAfter DEF Moves, Goes, dbVars, instVars, otherVars, LinkAt
<1>12. CASE DropNoPrimary(t)
  <2>1. HasPrimary(t)'
    <3>1. Dropping(t) => Dropping(t)' /\ Outer(t)' = Outer(t)
      BY <1>12, <1>0, <1>i, DropNoPrimaryStep DEF Returns, Local, dbVars, lockVars, instVars, otherVars, DropPc, InsertLocked, Dropping, Outer, Kind
    <3> QED BY <1>12, <1>i, <3>1, DropNoPrimaryStep, HasPrimaryKept DEF Returns, dbVars, lockVars, instVars, otherVars
  <2>2. Counted(t)'
    <3>1. /\ pc[t] = "d_unlink_lock" /\ clients[primary_name[cur[t]]] = None
          /\ clients' = clients /\ secondaries' = secondaries
      BY <1>12, DropNoPrimaryStep DEF dbVars, instVars
    <3>2. ASSUME NEW p \in Inst, NEW s \in Inst, clients[name[p]] = p, Primary(p), Sec(s, p)
          PROVE  clients[name[s]] # None <=> name[s] \in secondaries[p]
      <4>1. name[s] # name[cur[t]]
        <5> SUFFICES ASSUME name[s] = name[cur[t]] PROVE FALSE
          OBVIOUS
        <5>1. Sec(cur[t], p)
          BY <1>0, <1>n, <3>2
        <5> QED BY <3>1, <3>2, <5>1 DEF Sec
      <4> QED BY <1>i, <3>1, <3>2, <4>1 DEF Counted, Linking
    <3> QED BY <3>1, <3>2 DEF Counted
  <2>3. NoneMissed(t)'
    BY <1>12, <1>0, <1>i, <1>n, DropNoPrimaryStep DEF Returns, Local, dbVars, lockVars, instVars, otherVars, DropPc, InsertLocked, NoneMissed, Dropping, Outer, Left, DropWork
  <2>4. InsertLink(t)'
    BY <1>12, <1>0, <1>i, <1>n, DropNoPrimaryStep DEF Returns, Local, dbVars, lockVars, instVars, otherVars, DropPc, InsertLocked, InsertLink, PrimaryMissing
  <2>5. Kind(t)'
    BY <1>12, <1>0, <1>i, <1>n, DropNoPrimaryStep DEF Returns, Local, dbVars, lockVars, instVars, otherVars, DropPc, InsertLocked, Kind, Outer
  <2>6. CountInv'
    BY <1>12, <1>0, <1>i, <1>n, DropNoPrimaryStep DEF Returns, Local, dbVars, lockVars, instVars, otherVars, DropPc, InsertLocked, CountInv
  <2>7. KindInv' BY <1>12, <1>i, <2>5, DropNoPrimaryStep, KindKept DEF Returns, dbVars, lockVars, instVars, otherVars
  <2> QED BY <1>12, <2>1, <2>2, <2>3, <2>4, <2>6, <2>7, DropNoPrimaryStep, LinkAfter DEF Returns, dbVars, lockVars, instVars, otherVars, LinkAt
<1>13. CASE DropUnlink(t)
  <2>1. HasPrimary(t)'
    <3>1. Dropping(t) => Dropping(t)' /\ Outer(t)' = Outer(t)
      BY <1>13, <1>0, <1>i, DropUnlinkStep DEF Returns, Local, dbVars, otherVars, DropPc, InsertLocked, Dropping, Outer, Kind
    <3> QED BY <1>13, <1>i, <3>1, DropUnlinkStep, HasPrimaryKept DEF Returns, dbVars, otherVars
  <2>2. Counted(t)'
    <3>1. /\ pc[t] = "d_unlink" /\ clients' = clients
          /\ \A i \in Inst : secondaries'[i] = IF i = clients[primary_name[cur[t]]]
                                               THEN secondaries[i] \ {name[cur[t]]} ELSE secondaries[i]
      BY <1>13, DropUnlinkStep DEF dbVars
    <3>2. clients[name[cur[t]]] = None
      BY <1>i, <3>1 DEF DropWork
    <3>3. ASSUME NEW p \in Inst, NEW s \in Inst, clients[name[p]] = p, Primary(p), Sec(s, p)
          PROVE  clients[name[s]] # None <=> name[s] \in secondaries'[p]
      <4>1. CASE name[s] = name[cur[t]]
        <5>1. Sec(cur[t], p)
          BY <1>0, <1>n, <3>3, <4>1
        <5>2. clients[primary_name[cur[t]]] = p
          BY <3>3, <5>1 DEF Sec
        <5> QED BY <3>1, <3>2, <4>1, <5>2
      <4>2. CASE name[s] # name[cur[t]]
        <5>1. clients[name[s]] # None <=> name[s] \in secondaries[p]
          BY <1>i, <3>1, <3>3, <4>2 DEF Counted, Linking
        <5> QED BY <3>1, <4>2, <5>1
      <4> QED BY <4>1, <4>2
    <3> QED BY <3>1, <3>3 DEF Counted
  <2>3. NoneMissed(t)'
    BY <1>13, <1>0, <1>i, <1>n, DropUnlinkStep DEF Returns, Local, dbVars, otherVars, DropPc, InsertLocked, NoneMissed, Dropping, Outer, Left, DropWork
  <2>4. InsertLink(t)'
    BY <1>13, <1>0, <1>i, <1>n, DropUnlinkStep DEF Returns, Local, dbVars, otherVars, DropPc, InsertLocked, InsertLink, PrimaryMissing
  <2>5. Kind(t)'
    BY <1>13, <1>0, <1>i, <1>n, DropUnlinkStep DEF Returns, Local, dbVars, otherVars, DropPc, InsertLocked, Kind, Outer
  <2>6. CountInv'
    <3>1. \A i \in Inst : secondaries'[i] \subseteq secondaries[i]
      BY <1>13, DropUnlinkStep
    <3> QED BY <1>0, <1>i, <3>1 DEF CountInv, Sec
  <2>7. KindInv' BY <1>13, <1>i, <2>5, DropUnlinkStep, KindKept DEF Returns, dbVars, otherVars
  <2> QED BY <1>13, <2>1, <2>2, <2>3, <2>4, <2>6, <2>7, DropUnlinkStep, LinkAfter DEF Returns, dbVars, otherVars, LinkAt
<1>14. CASE AnnounceUnreg(t)
  <2>1. HasPrimary(t)'
    <3>1. Dropping(t) => Dropping(t)' /\ Outer(t)' = Outer(t)
      BY <1>14, <1>0, <1>i, AnnounceUnregStep DEF Moves, Goes, Local, dbVars, lockVars, instVars, DropPc, InsertLocked, Dropping, Outer, Kind
    <3> QED BY <1>14, <1>i, <3>1, AnnounceUnregStep, HasPrimaryKept DEF Moves, Goes, dbVars, lockVars, instVars
  <2>2. Counted(t)'
    <3>1. \A n \in Name : Linking(t, n) => Linking(t, n)'
      BY <1>14, <1>0, <1>i, AnnounceUnregStep DEF Moves, Goes, Local, dbVars, lockVars, instVars, DropPc, InsertLocked, Linking
    <3> QED BY <1>14, <1>i, <3>1, AnnounceUnregStep, CountedKept DEF Moves, Goes, dbVars, lockVars, instVars
  <2>3. NoneMissed(t)'
    BY <1>14, <1>0, <1>i, <1>n, AnnounceUnregStep DEF Moves, Goes, Local, dbVars, lockVars, instVars, DropPc, InsertLocked, NoneMissed, Dropping, Outer, Left, DropWork
  <2>4. InsertLink(t)'
    BY <1>14, <1>0, <1>i, <1>n, AnnounceUnregStep DEF Moves, Goes, Local, dbVars, lockVars, instVars, DropPc, InsertLocked, InsertLink, PrimaryMissing
  <2>5. Kind(t)'
    BY <1>14, <1>0, <1>i, <1>n, AnnounceUnregStep DEF Moves, Goes, Local, dbVars, lockVars, instVars, DropPc, InsertLocked, Kind, Outer
  <2>6. CountInv'
    BY <1>14, <1>0, <1>i, <1>n, AnnounceUnregStep DEF Moves, Goes, Local, dbVars, lockVars, instVars, DropPc, InsertLocked, CountInv
  <2>7. KindInv' BY <1>14, <1>i, <2>5, AnnounceUnregStep, KindKept DEF Moves, Goes, dbVars, lockVars, instVars
  <2> QED BY <1>14, <2>1, <2>2, <2>3, <2>4, <2>6, <2>7, AnnounceUnregStep, LinkAfter DEF Moves, Goes, dbVars, lockVars, instVars, LinkAt
<1>15. CASE UnregisterEnd(t)
  <2>1. HasPrimary(t)'
    <3>1. Dropping(t) => Dropping(t)' /\ Outer(t)' = Outer(t)
      BY <1>15, <1>0, <1>i, UnregisterEndStep DEF Local, dbVars, lockVars, otherVars, DropPc, InsertLocked, Dropping, Outer, Kind
    <3> QED BY <1>15, <1>i, <3>1, UnregisterEndStep, HasPrimaryKept DEF Local, dbVars, lockVars, otherVars
  <2>2. Counted(t)'
    <3>1. \A n \in Name : Linking(t, n) => Linking(t, n)'
      BY <1>15, <1>0, <1>i, UnregisterEndStep DEF Local, dbVars, lockVars, otherVars, DropPc, InsertLocked, Linking
    <3> QED BY <1>15, <1>i, <3>1, UnregisterEndStep, CountedKept DEF Local, dbVars, lockVars, otherVars
  <2>3. NoneMissed(t)'
    BY <1>15, <1>0, <1>i, <1>n, UnregisterEndStep DEF Local, dbVars, lockVars, otherVars, DropPc, InsertLocked, NoneMissed, Dropping, Outer, Left, DropWork
  <2>4. InsertLink(t)'
    BY <1>15, <1>0, <1>i, <1>n, UnregisterEndStep DEF Local, dbVars, lockVars, otherVars, DropPc, InsertLocked, InsertLink, PrimaryMissing
  <2>5. Kind(t)'
    BY <1>15, <1>0, <1>i, <1>n, UnregisterEndStep DEF Local, dbVars, lockVars, otherVars, DropPc, InsertLocked, Kind, Outer
  <2>6. CountInv'
    BY <1>15, <1>0, <1>i, <1>n, UnregisterEndStep DEF Local, dbVars, lockVars, otherVars, DropPc, InsertLocked, CountInv
  <2>7. KindInv' BY <1>15, <1>i, <2>5, UnregisterEndStep, KindKept DEF Local, dbVars, lockVars, otherVars
  <2> QED BY <1>15, <2>1, <2>2, <2>3, <2>4, <2>6, <2>7, UnregisterEndStep, LinkAfter DEF Local, dbVars, lockVars, otherVars, LinkAt
<1> QED BY <1>1, <1>2, <1>3, <1>4, <1>5, <1>6, <1>7, <1>8, <1>9, <1>10, <1>11, <1>12, <1>13, <1>14, <1>15 DEF Drop

LEMMA OwnerLinkInv ==
  ASSUME TypeOK, LockInv, IndexInv, LinkInv, MayUnregister = {}, NEW t \in Inst, Others(t), Owner(t)
  PROVE  LinkInv'
<1>0. /\ clients \in [Name -> Inst \cup {None}] /\ secondaries \in [Inst -> SUBSET Name]
      /\ cur \in [Inst -> Inst] /\ parent \in [Inst -> Inst \cup {None}]
      /\ todo \in [Inst -> SUBSET Name]
      /\ \A n \in Name : clients[n] # None => name[clients[n]] = n /\ Born(clients[n])
      /\ parent[t] # None => pc[t] \in DropPc /\ Primary(parent[t]) /\ ~Primary(cur[t])
      /\ pc[t] \in {"d_sec", "d_loop"} => Primary(cur[t])
      /\ pc[t] = "ins_sec" => ~Primary(t)
      /\ AfterDrop(t) \in {"f_trig", "done", "ann_unreg", "u_end"}
      /\ \A i \in Inst : Born(i) => Born(i)'
  BY AfterDropOut, OwnerBorn DEF TypeOK, LockInv, BornInv, NestInv
<1>i. /\ InsertWork(t) /\ DropWork(t)
      /\ CountInv /\ KindInv /\ Kind(t)
      /\ HasPrimary(t) /\ Counted(t) /\ NoneMissed(t) /\ InsertLink(t)
  BY IndexBefore, LinkBefore DEF IndexAt, LinkAt, LinkInv, KindInv
<1>n. \A i, j, p \in Inst : name[i] = name[j] => (Primary(i) <=> Primary(j)) /\ (Sec(i, p) <=> Sec(j, p))
  BY SecOfName
<1>1. CASE RespondOk(t)
  <2>1. HasPrimary(t)'
    <3>1. Dropping(t) => Dropping(t)' /\ Outer(t)' = Outer(t)
      BY <1>1, <1>0, <1>i, RespondOkStep DEF Moves, Goes, Local, dbVars, lockVars, instVars, otherVars, DropPc, InsertLocked, Dropping, Outer, Kind
    <3> QED BY <1>1, <1>i, <3>1, RespondOkStep, HasPrimaryKept DEF Moves, Goes, dbVars, lockVars, instVars, otherVars
  <2>2. Counted(t)'
    <3>1. \A n \in Name : Linking(t, n) => Linking(t, n)'
      BY <1>1, <1>0, <1>i, RespondOkStep DEF Moves, Goes, Local, dbVars, lockVars, instVars, otherVars, DropPc, InsertLocked, Linking
    <3> QED BY <1>1, <1>i, <3>1, RespondOkStep, CountedKept DEF Moves, Goes, dbVars, lockVars, instVars, otherVars
  <2>3. NoneMissed(t)'
    BY <1>1, <1>0, <1>i, <1>n, RespondOkStep DEF Moves, Goes, Local, dbVars, lockVars, instVars, otherVars, DropPc, InsertLocked, NoneMissed, Dropping, Outer, Left, DropWork
  <2>4. InsertLink(t)'
    BY <1>1, <1>0, <1>i, <1>n, RespondOkStep DEF Moves, Goes, Local, dbVars, lockVars, instVars, otherVars, DropPc, InsertLocked, InsertLink, PrimaryMissing
  <2>5. Kind(t)'
    BY <1>1, <1>0, <1>i, <1>n, RespondOkStep DEF Moves, Goes, Local, dbVars, lockVars, instVars, otherVars, DropPc, InsertLocked, Kind, Outer
  <2>6. CountInv'
    BY <1>1, <1>0, <1>i, <1>n, RespondOkStep DEF Moves, Goes, Local, dbVars, lockVars, instVars, otherVars, DropPc, InsertLocked, CountInv
  <2>7. KindInv' BY <1>1, <1>i, <2>5, RespondOkStep, KindKept DEF Moves, Goes, dbVars, lockVars, instVars, otherVars
  <2> QED BY <1>1, <2>1, <2>2, <2>3, <2>4, <2>6, <2>7, RespondOkStep, LinkAfter DEF Moves, Goes, dbVars, lockVars, instVars, otherVars, LinkAt
<1>2. CASE RespondFail(t)
  <2>1. HasPrimary(t)'
    <3>1. Dropping(t) => Dropping(t)' /\ Outer(t)' = Outer(t)
      BY <1>2, <1>0, <1>i, RespondFailStep DEF Moves, Goes, Local, dbVars, lockVars, instVars, otherVars, DropPc, InsertLocked, Dropping, Outer, Kind
    <3> QED BY <1>2, <1>i, <3>1, RespondFailStep, HasPrimaryKept DEF Moves, Goes, dbVars, lockVars, instVars, otherVars
  <2>2. Counted(t)'
    <3>1. \A n \in Name : Linking(t, n) => Linking(t, n)'
      BY <1>2, <1>0, <1>i, RespondFailStep DEF Moves, Goes, Local, dbVars, lockVars, instVars, otherVars, DropPc, InsertLocked, Linking
    <3> QED BY <1>2, <1>i, <3>1, RespondFailStep, CountedKept DEF Moves, Goes, dbVars, lockVars, instVars, otherVars
  <2>3. NoneMissed(t)'
    BY <1>2, <1>0, <1>i, <1>n, RespondFailStep DEF Moves, Goes, Local, dbVars, lockVars, instVars, otherVars, DropPc, InsertLocked, NoneMissed, Dropping, Outer, Left, DropWork
  <2>4. InsertLink(t)'
    BY <1>2, <1>0, <1>i, <1>n, RespondFailStep DEF Moves, Goes, Local, dbVars, lockVars, instVars, otherVars, DropPc, InsertLocked, InsertLink, PrimaryMissing
  <2>5. Kind(t)'
    BY <1>2, <1>0, <1>i, <1>n, RespondFailStep DEF Moves, Goes, Local, dbVars, lockVars, instVars, otherVars, DropPc, InsertLocked, Kind, Outer
  <2>6. CountInv'
    BY <1>2, <1>0, <1>i, <1>n, RespondFailStep DEF Moves, Goes, Local, dbVars, lockVars, instVars, otherVars, DropPc, InsertLocked, CountInv
  <2>7. KindInv' BY <1>2, <1>i, <2>5, RespondFailStep, KindKept DEF Moves, Goes, dbVars, lockVars, instVars, otherVars
  <2> QED BY <1>2, <2>1, <2>2, <2>3, <2>4, <2>6, <2>7, RespondFailStep, LinkAfter DEF Moves, Goes, dbVars, lockVars, instVars, otherVars, LinkAt
<1>3. CASE Disconnect(t)
  <2>1. HasPrimary(t)'
    <3>1. Dropping(t) => Dropping(t)' /\ Outer(t)' = Outer(t)
      BY <1>3, <1>0, <1>i, DisconnectStep DEF Calls, Local, dbVars, lockVars, instVars, DropPc, InsertLocked, Dropping, Outer, Kind
    <3> QED BY <1>3, <1>i, <3>1, DisconnectStep, HasPrimaryKept DEF Calls, dbVars, lockVars, instVars
  <2>2. Counted(t)'
    <3>1. \A n \in Name : Linking(t, n) => Linking(t, n)'
      BY <1>3, <1>0, <1>i, DisconnectStep DEF Calls, Local, dbVars, lockVars, instVars, DropPc, InsertLocked, Linking
    <3> QED BY <1>3, <1>i, <3>1, DisconnectStep, CountedKept DEF Calls, dbVars, lockVars, instVars
  <2>3. NoneMissed(t)'
    BY <1>3, <1>0, <1>i, <1>n, DisconnectStep DEF Calls, Local, dbVars, lockVars, instVars, DropPc, InsertLocked, NoneMissed, Dropping, Outer, Left, DropWork
  <2>4. InsertLink(t)'
    BY <1>3, <1>0, <1>i, <1>n, DisconnectStep DEF Calls, Local, dbVars, lockVars, instVars, DropPc, InsertLocked, InsertLink, PrimaryMissing
  <2>5. Kind(t)'
    BY <1>3, <1>0, <1>i, <1>n, DisconnectStep DEF Calls, Local, dbVars, lockVars, instVars, DropPc, InsertLocked, Kind, Outer
  <2>6. CountInv'
    BY <1>3, <1>0, <1>i, <1>n, DisconnectStep DEF Calls, Local, dbVars, lockVars, instVars, DropPc, InsertLocked, CountInv
  <2>7. KindInv' BY <1>3, <1>i, <2>5, DisconnectStep, KindKept DEF Calls, dbVars, lockVars, instVars
  <2> QED BY <1>3, <2>1, <2>2, <2>3, <2>4, <2>6, <2>7, DisconnectStep, LinkAfter DEF Calls, dbVars, lockVars, instVars, LinkAt
<1>4. CASE BrokerUnregister(t)
  <2>1. HasPrimary(t)'
    <3>1. Dropping(t) => Dropping(t)' /\ Outer(t)' = Outer(t)
      BY <1>4, <1>0, <1>i, BrokerUnregisterStep DEF Calls, Local, dbVars, lockVars, instVars, otherVars, DropPc, InsertLocked, Dropping, Outer, Kind
    <3> QED BY <1>4, <1>i, <3>1, BrokerUnregisterStep, HasPrimaryKept DEF Calls, dbVars, lockVars, instVars, otherVars
  <2>2. Counted(t)'
    <3>1. \A n \in Name : Linking(t, n) => Linking(t, n)'
      BY <1>4, <1>0, <1>i, BrokerUnregisterStep DEF Calls, Local, dbVars, lockVars, instVars, otherVars, DropPc, InsertLocked, Linking
    <3> QED BY <1>4, <1>i, <3>1, BrokerUnregisterStep, CountedKept DEF Calls, dbVars, lockVars, instVars, otherVars
  <2>3. NoneMissed(t)'
    BY <1>4, <1>0, <1>i, <1>n, BrokerUnregisterStep DEF Calls, Local, dbVars, lockVars, instVars, otherVars, DropPc, InsertLocked, NoneMissed, Dropping, Outer, Left, DropWork
  <2>4. InsertLink(t)'
    BY <1>4, <1>0, <1>i, <1>n, BrokerUnregisterStep DEF Calls, Local, dbVars, lockVars, instVars, otherVars, DropPc, InsertLocked, InsertLink, PrimaryMissing
  <2>5. Kind(t)'
    BY <1>4, <1>0, <1>i, <1>n, BrokerUnregisterStep DEF Calls, Local, dbVars, lockVars, instVars, otherVars, DropPc, InsertLocked, Kind, Outer
  <2>6. CountInv'
    BY <1>4, <1>0, <1>i, <1>n, BrokerUnregisterStep DEF Calls, Local, dbVars, lockVars, instVars, otherVars, DropPc, InsertLocked, CountInv
  <2>7. KindInv' BY <1>4, <1>i, <2>5, BrokerUnregisterStep, KindKept DEF Calls, dbVars, lockVars, instVars, otherVars
  <2> QED BY <1>4, <2>1, <2>2, <2>3, <2>4, <2>6, <2>7, BrokerUnregisterStep, LinkAfter DEF Calls, dbVars, lockVars, instVars, otherVars, LinkAt
<1>5. CASE ClientUnregister(t)
  BY <1>5 DEF ClientUnregister
<1>6. CASE ClientDrop(t)
  <2>1. HasPrimary(t)'
    <3>1. Dropping(t) => Dropping(t)' /\ Outer(t)' = Outer(t)
      BY <1>6, <1>0, <1>i, ClientDropStep DEF Local, dbVars, lockVars, instVars, otherVars, DropPc, InsertLocked, Dropping, Outer, Kind
    <3> QED BY <1>6, <1>i, <3>1, ClientDropStep, HasPrimaryKept DEF Local, dbVars, lockVars, instVars, otherVars
  <2>2. Counted(t)'
    <3>1. \A n \in Name : Linking(t, n) => Linking(t, n)'
      BY <1>6, <1>0, <1>i, ClientDropStep DEF Local, dbVars, lockVars, instVars, otherVars, DropPc, InsertLocked, Linking
    <3> QED BY <1>6, <1>i, <3>1, ClientDropStep, CountedKept DEF Local, dbVars, lockVars, instVars, otherVars
  <2>3. NoneMissed(t)'
    BY <1>6, <1>0, <1>i, <1>n, ClientDropStep DEF Local, dbVars, lockVars, instVars, otherVars, DropPc, InsertLocked, NoneMissed, Dropping, Outer, Left, DropWork
  <2>4. InsertLink(t)'
    BY <1>6, <1>0, <1>i, <1>n, ClientDropStep DEF Local, dbVars, lockVars, instVars, otherVars, DropPc, InsertLocked, InsertLink, PrimaryMissing
  <2>5. Kind(t)'
    BY <1>6, <1>0, <1>i, <1>n, ClientDropStep DEF Local, dbVars, lockVars, instVars, otherVars, DropPc, InsertLocked, Kind, Outer
  <2>6. CountInv'
    BY <1>6, <1>0, <1>i, <1>n, ClientDropStep DEF Local, dbVars, lockVars, instVars, otherVars, DropPc, InsertLocked, CountInv
  <2>7. KindInv' BY <1>6, <1>i, <2>5, ClientDropStep, KindKept DEF Local, dbVars, lockVars, instVars, otherVars
  <2> QED BY <1>6, <2>1, <2>2, <2>3, <2>4, <2>6, <2>7, ClientDropStep, LinkAfter DEF Local, dbVars, lockVars, instVars, otherVars, LinkAt
<1>7. CASE Lookup(t)
  <2>1. HasPrimary(t)'
    <3>1. Dropping(t) => Dropping(t)' /\ Outer(t)' = Outer(t)
      BY <1>7, <1>0, <1>i, LookupStep DEF Local, dbVars, lockVars, instVars, otherVars, DropPc, InsertLocked, Dropping, Outer, Kind
    <3> QED BY <1>7, <1>i, <3>1, LookupStep, HasPrimaryKept DEF Local, dbVars, lockVars, instVars, otherVars
  <2>2. Counted(t)'
    <3>1. \A n \in Name : Linking(t, n) => Linking(t, n)'
      BY <1>7, <1>0, <1>i, LookupStep DEF Local, dbVars, lockVars, instVars, otherVars, DropPc, InsertLocked, Linking
    <3> QED BY <1>7, <1>i, <3>1, LookupStep, CountedKept DEF Local, dbVars, lockVars, instVars, otherVars
  <2>3. NoneMissed(t)'
    BY <1>7, <1>0, <1>i, <1>n, LookupStep DEF Local, dbVars, lockVars, instVars, otherVars, DropPc, InsertLocked, NoneMissed, Dropping, Outer, Left, DropWork
  <2>4. InsertLink(t)'
    BY <1>7, <1>0, <1>i, <1>n, LookupStep DEF Local, dbVars, lockVars, instVars, otherVars, DropPc, InsertLocked, InsertLink, PrimaryMissing
  <2>5. Kind(t)'
    BY <1>7, <1>0, <1>i, <1>n, LookupStep DEF Local, dbVars, lockVars, instVars, otherVars, DropPc, InsertLocked, Kind, Outer
  <2>6. CountInv'
    BY <1>7, <1>0, <1>i, <1>n, LookupStep DEF Local, dbVars, lockVars, instVars, otherVars, DropPc, InsertLocked, CountInv
  <2>7. KindInv' BY <1>7, <1>i, <2>5, LookupStep, KindKept DEF Local, dbVars, lockVars, instVars, otherVars
  <2> QED BY <1>7, <2>1, <2>2, <2>3, <2>4, <2>6, <2>7, LookupStep, LinkAfter DEF Local, dbVars, lockVars, instVars, otherVars, LinkAt
<1>8. CASE SendEnd(t) /\ pc[t] = "sending"
  <2>1. HasPrimary(t)'
    <3>1. Dropping(t) => Dropping(t)' /\ Outer(t)' = Outer(t)
      BY <1>8, <1>0, <1>i, SendEndStep DEF Local, dbVars, lockVars, instVars, otherVars, DropPc, InsertLocked, Dropping, Outer, Kind
    <3> QED BY <1>8, <1>i, <3>1, SendEndStep, HasPrimaryKept DEF Local, dbVars, lockVars, instVars, otherVars
  <2>2. Counted(t)'
    <3>1. \A n \in Name : Linking(t, n) => Linking(t, n)'
      BY <1>8, <1>0, <1>i, SendEndStep DEF Local, dbVars, lockVars, instVars, otherVars, DropPc, InsertLocked, Linking
    <3> QED BY <1>8, <1>i, <3>1, SendEndStep, CountedKept DEF Local, dbVars, lockVars, instVars, otherVars
  <2>3. NoneMissed(t)'
    BY <1>8, <1>0, <1>i, <1>n, SendEndStep DEF Local, dbVars, lockVars, instVars, otherVars, DropPc, InsertLocked, NoneMissed, Dropping, Outer, Left, DropWork
  <2>4. InsertLink(t)'
    BY <1>8, <1>0, <1>i, <1>n, SendEndStep DEF Local, dbVars, lockVars, instVars, otherVars, DropPc, InsertLocked, InsertLink, PrimaryMissing
  <2>5. Kind(t)'
    BY <1>8, <1>0, <1>i, <1>n, SendEndStep DEF Local, dbVars, lockVars, instVars, otherVars, DropPc, InsertLocked, Kind, Outer
  <2>6. CountInv'
    BY <1>8, <1>0, <1>i, <1>n, SendEndStep DEF Local, dbVars, lockVars, instVars, otherVars, DropPc, InsertLocked, CountInv
  <2>7. KindInv' BY <1>8, <1>i, <2>5, SendEndStep, KindKept DEF Local, dbVars, lockVars, instVars, otherVars
  <2> QED BY <1>8, <2>1, <2>2, <2>3, <2>4, <2>6, <2>7, SendEndStep, LinkAfter DEF Local, dbVars, lockVars, instVars, otherVars, LinkAt
<1>9. CASE Evict(t)
  <2>1. HasPrimary(t)'
    <3>1. Dropping(t) => Dropping(t)' /\ Outer(t)' = Outer(t)
      BY <1>9, <1>0, <1>i, EvictStep DEF Calls, Local, dbVars, lockVars, instVars, otherVars, DropPc, InsertLocked, Dropping, Outer, Kind
    <3> QED BY <1>9, <1>i, <3>1, EvictStep, HasPrimaryKept DEF Calls, dbVars, lockVars, instVars, otherVars
  <2>2. Counted(t)'
    <3>1. \A n \in Name : Linking(t, n) => Linking(t, n)'
      BY <1>9, <1>0, <1>i, EvictStep DEF Calls, Local, dbVars, lockVars, instVars, otherVars, DropPc, InsertLocked, Linking
    <3> QED BY <1>9, <1>i, <3>1, EvictStep, CountedKept DEF Calls, dbVars, lockVars, instVars, otherVars
  <2>3. NoneMissed(t)'
    BY <1>9, <1>0, <1>i, <1>n, EvictStep DEF Calls, Local, dbVars, lockVars, instVars, otherVars, DropPc, InsertLocked, NoneMissed, Dropping, Outer, Left, DropWork
  <2>4. InsertLink(t)'
    BY <1>9, <1>0, <1>i, <1>n, EvictStep DEF Calls, Local, dbVars, lockVars, instVars, otherVars, DropPc, InsertLocked, InsertLink, PrimaryMissing
  <2>5. Kind(t)'
    BY <1>9, <1>0, <1>i, <1>n, EvictStep DEF Calls, Local, dbVars, lockVars, instVars, otherVars, DropPc, InsertLocked, Kind, Outer
  <2>6. CountInv'
    BY <1>9, <1>0, <1>i, <1>n, EvictStep DEF Calls, Local, dbVars, lockVars, instVars, otherVars, DropPc, InsertLocked, CountInv
  <2>7. KindInv' BY <1>9, <1>i, <2>5, EvictStep, KindKept DEF Calls, dbVars, lockVars, instVars, otherVars
  <2> QED BY <1>9, <2>1, <2>2, <2>3, <2>4, <2>6, <2>7, EvictStep, LinkAfter DEF Calls, dbVars, lockVars, instVars, otherVars, LinkAt
<1>10. ASSUME NEW x \in Topic, Subscribe(t, x) \/ Unsubscribe(t, x) PROVE LinkInv'
  BY <1>10, SameLink DEF Subscribe, Unsubscribe, instVars, taskVars
<1>11. CASE SendEnd(t) /\ PublishDropped(t)
  <2>1. HasPrimary(t)'
    <3>1. Dropping(t) => Dropping(t)' /\ Outer(t)' = Outer(t)
      BY <1>11, <1>0, <1>i, PublishDroppedStep DEF Local, dbVars, lockVars, instVars, otherVars, DropPc, InsertLocked, Dropping, Outer, Kind
    <3> QED BY <1>11, <1>i, <3>1, PublishDroppedStep, HasPrimaryKept DEF Local, dbVars, lockVars, instVars, otherVars
  <2>2. Counted(t)'
    <3>1. \A n \in Name : Linking(t, n) => Linking(t, n)'
      BY <1>11, <1>0, <1>i, PublishDroppedStep DEF Local, dbVars, lockVars, instVars, otherVars, DropPc, InsertLocked, Linking
    <3> QED BY <1>11, <1>i, <3>1, PublishDroppedStep, CountedKept DEF Local, dbVars, lockVars, instVars, otherVars
  <2>3. NoneMissed(t)'
    BY <1>11, <1>0, <1>i, <1>n, PublishDroppedStep DEF Local, dbVars, lockVars, instVars, otherVars, DropPc, InsertLocked, NoneMissed, Dropping, Outer, Left, DropWork
  <2>4. InsertLink(t)'
    BY <1>11, <1>0, <1>i, <1>n, PublishDroppedStep DEF Local, dbVars, lockVars, instVars, otherVars, DropPc, InsertLocked, InsertLink, PrimaryMissing
  <2>5. Kind(t)'
    BY <1>11, <1>0, <1>i, <1>n, PublishDroppedStep DEF Local, dbVars, lockVars, instVars, otherVars, DropPc, InsertLocked, Kind, Outer
  <2>6. CountInv'
    BY <1>11, <1>0, <1>i, <1>n, PublishDroppedStep DEF Local, dbVars, lockVars, instVars, otherVars, DropPc, InsertLocked, CountInv
  <2>7. KindInv' BY <1>11, <1>i, <2>5, PublishDroppedStep, KindKept DEF Local, dbVars, lockVars, instVars, otherVars
  <2> QED BY <1>11, <2>1, <2>2, <2>3, <2>4, <2>6, <2>7, PublishDroppedStep, LinkAfter DEF Local, dbVars, lockVars, instVars, otherVars, LinkAt
<1> QED BY <1>1, <1>2, <1>3, <1>4, <1>5, <1>6, <1>7, <1>8, <1>9, <1>10, <1>11 DEF Owner, SendEnd

LEMMA NextLink ==
  ASSUME TypeOK, LockInv, Alone, IndexInv, LinkInv, Workers = 1, MayUnregister = {}, [Next]_vars
  PROVE  LinkInv'
<1>1. ASSUME NEW t \in Inst, Insert(t) PROVE LinkInv' BY <1>1, ActorIsAlone, InsertLinkInv
<1>2. ASSUME NEW t \in Inst, Drop(t) PROVE LinkInv' BY <1>2, ActorIsAlone, DropLinkInv
<1>3. ASSUME NEW t \in Inst, Owner(t) PROVE LinkInv' BY <1>3, ActorIsAlone, OwnerLinkInv
<1>4. ASSUME NEW n \in Kicked, ForceDisconnect(n) PROVE LinkInv'
  BY <1>4, SameLink DEF ForceDisconnect, dbVars, taskVars
<1>5. CASE List
  BY <1>5, SameLink DEF List, ListLock, ListCount, ListEnd, dbVars, instVars, taskVars
<1>6. CASE UNCHANGED vars
  BY <1>6, SameLink DEF vars, dbVars, instVars, taskVars
<1>7. ASSUME NEW t \in Inst, AnnounceLock(t) PROVE LinkInv'
  BY <1>7, SameLink DEF AnnounceLock, dbVars, instVars, taskVars
<1> QED BY <1>1, <1>2, <1>3, <1>4, <1>5, <1>6, <1>7 DEF Next, Terminated

\* With one worker and no Client::unregister no secondary outlives its primary,
\* and a listed primary counts exactly its listed secondaries.
THEOREM SecondariesInStep ==
  ASSUME Workers = 1, MayUnregister = {}
  PROVE  Spec => []SecondariesLinked
<1> DEFINE Inv == TypeOK /\ LockInv /\ Alone /\ IndexInv /\ LinkInv
<1>1. Init => Inv
  <2>1. Init => LinkInv
    BY DEF Init, LinkInv, CountInv, KindInv, Kind, Idle, LinkCalm, Section, InsertLocked, DropPc
  <2> QED BY <2>1, InitType, InitLockInv, InitIndex
<1>2. Inv /\ [Next]_vars => Inv'
  BY NextType, NextLockInv, NextAlone, NextIndex, NextLink
<1>3. Inv => SecondariesLinked
  <2> SUFFICES ASSUME Inv, Quiet
               PROVE  /\ \A s \in Inst : clients[name[s]] = s => clients[primary_name[s]] # None
                      /\ \A p \in Inst : clients[name[p]] = p /\ Primary(p) =>
                           secondaries[p] = {name[s] : s \in {s \in Inst :
                             clients[name[s]] = s /\ ~Primary(s) /\ primary_name[s] = name[p]}}
    BY DEF SecondariesLinked
  <2>1. LinkCalm /\ CountInv
    BY DEF LinkInv, Idle, Quiet, Busy
  <2>2. /\ clients \in [Name -> Inst \cup {None}] /\ secondaries \in [Inst -> SUBSET Name]
        /\ \A n \in Name : clients[n] # None => name[clients[n]] = n
    BY DEF TypeOK, LockInv, BornInv
  <2>3. ASSUME NEW s \in Inst, clients[name[s]] = s PROVE clients[primary_name[s]] # None
    BY <2>1, <2>3 DEF LinkCalm, Primary
  <2>4. ASSUME NEW p \in Inst, clients[name[p]] = p, Primary(p)
        PROVE  secondaries[p] = {name[s] : s \in {s \in Inst :
                 clients[name[s]] = s /\ ~Primary(s) /\ primary_name[s] = name[p]}}
    <3>1. ASSUME NEW n \in secondaries[p]
          PROVE  \E s \in Inst : clients[name[s]] = s /\ ~Primary(s) /\ primary_name[s] = name[p] /\ n = name[s]
      <4>1. PICK s \in Inst : Sec(s, p) /\ name[s] = n
        BY <2>1, <3>1 DEF CountInv
      <4>2. clients[n] \in Inst /\ name[clients[n]] = n
        BY <2>1, <2>2, <2>4, <3>1, <4>1 DEF LinkCalm
      <4>3. Sec(clients[n], p)
        BY <4>1, <4>2, SecOfName
      <4> QED BY <4>2, <4>3 DEF Sec
    <3>2. ASSUME NEW s \in Inst, clients[name[s]] = s, ~Primary(s), primary_name[s] = name[p]
          PROVE  name[s] \in secondaries[p]
      BY <2>1, <2>4, <3>2 DEF LinkCalm, Sec
    <3> QED BY <3>1, <3>2
  <2> QED BY <2>3, <2>4
<1> HIDE DEF Inv
<1>4. Spec => []Inv
  BY <1>1, <1>2, PTL DEF Spec
<1> QED BY <1>3, <1>4, PTL

-----------------------------------------------------------------------------
(* The announces of one worker.                                            *)

\* The task has cleared the flag of the client its drop_client is about.
Past(u) == pc[u] \in DropPc \ {"d_load", "d_store"} \/ parent[u] # None
Clearing(u, i) == Past(u) /\ Outer(u) = i
\* An announce for i is on its way (the core client is in one as long as the
\* announce it publishes is); the trigger of i is.
Pends(u, i) ==
  pc[u] = "ann_unreg" /\ cur[u] = i /\ (u = Core => rpcLock # None)
Triggering(u, i) == pc[u] = "f_trig" /\ cur[u] = i

\* What unregister_client remembers: was_registered is true in the call that
\* clears the flag, and in no other.
Duty(u) ==
  /\ cont[u] \in {"finish", "evict", "api"} =>
       /\ pc[u] = "d_load" /\ parent[u] = None => (was[u] <=> registered[cur[u]])
       /\ pc[u] \in DropPc \ {"d_load"} \/ parent[u] # None => was[u]
  /\ pc[u] = "d_store" => registered[cur[u]]
  /\ Past(u) => ~registered[Outer(u)]
  /\ cont[u] = "finish" =>
       /\ pc[u] \in DropPc \cup {"ann_unreg", "u_end", "done"}
       /\ pc[u] \notin {"d_load", "d_store"} => ~registered[u]

\* Nothing was announced for a client before its flag was cleared.
Fresh(i) ==
  registered[i] \/ ~Born(i) \/ (\E u \in Inst : Clearing(u, i)) =>
    unregs[i] = 0 /\ ~cut[i] /\ \A u \in Inst : ~Pends(u, i)

\* One announce is on its way at most, and none after one.
Once(i) ==
  /\ \A u, v \in Inst : Pends(u, i) /\ Pends(v, i) => u = v
  /\ unregs[i] \in {0, 1}
  /\ \A u \in Inst : Pends(u, i) => unregs[i] = 0 /\ ~cut[i]
  /\ cut[i] => unregs[i] = 0

\* A connection of a primary that lost its registration was announced, or
\* will be, unless its eviction was cancelled or it was triggered.
Due(i) ==
  i \notin Internal /\ Primary(i) /\ (Alive(i) \/ cont[i] = "finish")
    /\ ~registered[i] /\ ~cut[i] /\ ~triggered[i] =>
      \/ unregs[i] = 1
      \/ \E u \in Inst : Pends(u, i) \/ Clearing(u, i) \/ Triggering(u, i)

DutyInv == \A u \in Inst : Duty(u)
FreshInv == \A i \in Inst : Fresh(i)
OnceInv == \A i \in Inst : Once(i)
DueInv == \A i \in Inst : Due(i)
AnnounceInv == DutyInv /\ FreshInv /\ OnceInv /\ DueInv

\* The step takes the mutex from no announce that the core client is in.
Still ==
  Core # None /\ pc[Core] = "ann_unreg" => (rpcLock' = None <=> rpcLock = None)

\* The tasks that do not run clear nothing.
LEMMA OthersClear ==
  ASSUME LockInv, NEW t \in Inst, Others(t), Local(t)
  PROVE  \A u \in Inst : u # t => ~Past(u) /\ ~Past(u)'
BY DEF LockInv, NestInv, Others, Local, Past, Section, DropPc

LEMMA DutyKept ==
  ASSUME LockInv, DutyInv, NEW t \in Inst, Others(t), Local(t),
         \A i \in Inst : i # t /\ registered'[i] => registered[i], Duty(t)'
  PROVE  DutyInv'
<1> SUFFICES ASSUME NEW u \in Inst, u # t PROVE Duty(u)'
  BY DEF DutyInv
<1>1. pc'[u] = pc[u] /\ parent'[u] = parent[u] /\ cont'[u] = cont[u] /\ (registered'[u] => registered[u])
  BY DEF Local
<1>2. pc[u] \notin DropPc /\ parent[u] = None /\ ~Past(u)'
  BY OthersClear DEF Others, LockInv, NestInv, Section
<1>3. Duty(u) BY DEF DutyInv
<1> QED BY <1>1, <1>2, <1>3 DEF Duty, DropPc

\* A step that announces nothing, clears no flag and ends no call of
\* drop_client.
LEMMA CalmAnnounce ==
  ASSUME TypeOK, LockInv, AnnounceInv, NEW t \in Inst, Others(t), Local(t),
         UNCHANGED <<registered, unregs, cut>>, \A i \in Inst : triggered[i] => triggered'[i],
         \A i \in Inst : Born(i) => Born(i)',
         Still, pc[t] = "ann_unreg" => t = Core /\ rpcLock = None,
         pc[t] # "f_trig", pc'[t] # "ann_unreg",
         Past(t) => Past(t)', Past(t)' => Past(t) /\ Outer(t)' = Outer(t),
         t \notin Internal /\ (Alive(t)' \/ cont'[t] = "finish") => Alive(t) \/ cont[t] = "finish",
         Duty(t)'
  PROVE  AnnounceInv'
<1>1. ASSUME NEW u \in Inst, NEW i \in Inst
      PROVE  /\ Clearing(u, i)' <=> Clearing(u, i)
             /\ Pends(u, i)' <=> Pends(u, i)
             /\ Triggering(u, i) => Triggering(u, i)'
  <2>1. Pends(u, i)' <=> Pends(u, i)
    <3>1. CASE u = t BY <3>1 DEF Pends
    <3>2. CASE u # t BY <3>2 DEF Local, Pends, Still
    <3> QED BY <3>1, <3>2
  <2> QED BY <2>1, OthersClear DEF Local, Clearing, Triggering
<1>2. ASSUME NEW i \in Inst, i \notin Internal, Alive(i)' \/ cont'[i] = "finish"
      PROVE  Alive(i) \/ cont[i] = "finish"
  BY <1>2 DEF Local, Alive
<1>3. DutyInv' BY DutyKept DEF AnnounceInv
<1>4. ASSUME NEW i \in Inst PROVE Fresh(i)'
  BY <1>1 DEF AnnounceInv, FreshInv, Fresh
<1>5. ASSUME NEW i \in Inst PROVE Once(i)'
  BY <1>1 DEF AnnounceInv, OnceInv, Once
<1>6. ASSUME NEW i \in Inst PROVE Due(i)'
  BY <1>1, <1>2 DEF AnnounceInv, DueInv, Due
<1> QED BY <1>3, <1>4, <1>5, <1>6 DEF AnnounceInv, FreshInv, OnceInv, DueInv

\* The outermost drop_client returns.
LEMMA ReturnAnnounce ==
  ASSUME TypeOK, LockInv, CoreInv, AnnounceInv, ErrandInv, NEW t \in Inst, Others(t), Returns(t),
         UNCHANGED <<registered, unregs, cut, triggered, rpcLock>>,
         \A i \in Inst : Born(i) => Born(i)',
         pc[t] \in DropPc \ {"d_store"}, pc[t] = "d_load" => ~registered[cur[t]]
  PROVE  AnnounceInv'
<1>0. /\ Local(t) /\ cont'[t] = cont[t] /\ was'[t] = was[t]
      /\ cont[t] \in {"none", "force", "finish", "evict", "api", "drop"}
      /\ cur[t] \in Inst /\ parent[t] \in Inst \cup {None} /\ Duty(t) /\ Errand(t)
      /\ AfterDrop(t) \in {"f_trig", "done", "ann_unreg", "u_end"}
  BY AfterDropOut DEF Returns, TypeOK, AnnounceInv, DutyInv, ErrandInv
<1>1. CASE parent[t] # None
  <2>1. /\ pc'[t] = "d_loop" /\ cur'[t] = parent[t] /\ parent'[t] = None
    BY <1>1 DEF Returns
  <2>2. Past(t) /\ Past(t)' /\ Outer(t)' = Outer(t) /\ Outer(t) = parent[t]
    BY <1>1, <2>1 DEF Past, Outer, DropPc
  <2>3. Duty(t)'
    BY <1>0, <1>1, <2>1, <2>2 DEF Duty, Errand, DropPc
  <2> QED BY <1>0, <1>1, <2>1, <2>2, <2>3, CalmAnnounce DEF Alive, DropPc, Still
<1>2. CASE parent[t] = None
  <2>1. /\ pc'[t] = AfterDrop(t) /\ cur'[t] = cur[t] /\ parent'[t] = None /\ Outer(t) = cur[t]
    BY <1>2 DEF Returns, Outer
  <2>2. ~Past(t)'
    BY <1>0, <2>1 DEF Past, DropPc
  <2>3. Duty(t)'
    <3>1. cont[t] = "finish" => cur[t] = t /\ ~registered[cur[t]]
      BY <1>0, <2>1 DEF Errand, Duty, Past
    <3>2. cont[t] = "finish" => AfterDrop(t) \in {"ann_unreg", "u_end"}
      BY DEF AfterDrop
    <3> QED BY <1>0, <2>1, <2>2, <3>1, <3>2 DEF Duty, DropPc
  <2>4. DutyInv'
    BY <1>0, <2>3, DutyKept DEF AnnounceInv
  <2>5. ASSUME AfterDrop(t) = "ann_unreg"
        PROVE  Past(t) /\ Primary(cur[t]) /\ unregs[cur[t]] = 0 /\ ~cut[cur[t]] /\ \A u \in Inst : ~Pends(u, cur[t])
    <3>1. was[t] /\ Primary(cur[t]) /\ cont[t] \notin {"force", "drop"}
      BY <2>5 DEF AfterDrop
    <3>2. Past(t)
      BY <1>0, <1>2, <3>1 DEF Errand, Duty, Past
    <3> QED BY <1>0, <2>1, <3>1, <3>2 DEF AnnounceInv, FreshInv, Fresh, Clearing
  <2>6. ASSUME NEW u \in Inst, NEW i \in Inst
        PROVE  /\ ~Clearing(u, i)'
               /\ u # t => (Pends(u, i)' <=> Pends(u, i)) /\ ~Clearing(u, i)
               /\ Triggering(u, i) => Triggering(u, i)'
    BY <1>0, <2>2, OthersClear DEF Local, Clearing, Pends, Triggering, DropPc
  <2>7. ~Pends(t, t) /\ \A i \in Inst : ~Pends(t, i)
    BY DEF Pends, DropPc
  <2>8. \A i \in Inst : Pends(t, i)' <=> AfterDrop(t) = "ann_unreg" /\ i = cur[t]
    <3>1. AfterDrop(t) = "ann_unreg" => cont[t] \notin {"force", "drop"}
      BY DEF AfterDrop
    <3>2. AfterDrop(t) = "ann_unreg" /\ t = Core => rpcLock # None
      BY <3>1 DEF CoreInv
    <3> QED BY <2>1, <3>2 DEF Pends
  <2>9. ASSUME NEW i \in Inst PROVE Fresh(i)'
    <3>1. CASE AfterDrop(t) = "ann_unreg" /\ i = cur[t]
      <4>1. ~registered[i] /\ Born(i)
        BY <1>0, <2>1, <2>5, <3>1, <1>2 DEF Duty, LockInv, BornInv, PastLoad, Past, DropPc
      <4> QED BY <2>6, <4>1 DEF Fresh
    <3>2. CASE ~(AfterDrop(t) = "ann_unreg" /\ i = cur[t])
      BY <2>6, <2>7, <2>8, <3>2 DEF Fresh, AnnounceInv, FreshInv
    <3> QED BY <3>1, <3>2
  <2>10. ASSUME NEW i \in Inst PROVE Once(i)'
    <3>1. CASE AfterDrop(t) = "ann_unreg" /\ i = cur[t]
      BY <2>5, <2>6, <2>8, <3>1 DEF Once
    <3>2. CASE ~(AfterDrop(t) = "ann_unreg" /\ i = cur[t])
      BY <2>6, <2>7, <2>8, <3>2 DEF Once, AnnounceInv, OnceInv
    <3> QED BY <3>1, <3>2
  <2>11. ASSUME NEW i \in Inst PROVE Due(i)'
    <3>1. CASE Past(t) /\ i = cur[t] /\ i \notin Internal /\ Primary(i)
      <4>1. CASE cont[t] = "force"
        <5>1. Triggering(t, i)' BY <2>1, <3>1, <4>1 DEF AfterDrop, Triggering
        <5> QED BY <5>1 DEF Due
      <4>2. CASE cont[t] # "force"
        <5>1. cont[t] \in {"finish", "evict", "api"}
          BY <1>0, <1>2, <2>1, <3>1, <4>2 DEF Errand
        <5>2. was[t]
          BY <1>0, <1>2, <3>1, <5>1 DEF Duty, Past
        <5>3. AfterDrop(t) = "ann_unreg"
          BY <3>1, <5>1, <5>2 DEF AfterDrop
        <5>4. Pends(t, i)' BY <2>8, <3>1, <5>3
        <5> QED BY <5>4 DEF Due
      <4> QED BY <4>1, <4>2
    <3>2. CASE ~Past(t) \/ i # cur[t]
      <4>1. \A u \in Inst : ~Clearing(u, i)
        BY <2>1, <2>6, <3>2 DEF Clearing
      <4>2. i \notin Internal /\ (Alive(i)' \/ cont'[i] = "finish") => Alive(i) \/ cont[i] = "finish"
        BY <1>0, <2>1 DEF Local, Alive, DropPc
      <4>3. \A u \in Inst : Pends(u, i) => Pends(u, i)'
        BY <2>6, <2>7
      <4> QED BY <2>6, <4>1, <4>2, <4>3 DEF Due, AnnounceInv, DueInv
    <3>3. CASE i \in Internal \/ ~Primary(i)
      BY <3>3 DEF Due
    <3> QED BY <3>1, <3>2, <3>3
  <2> QED BY <2>4, <2>9, <2>10, <2>11 DEF AnnounceInv, FreshInv, OnceInv, DueInv
<1> QED BY <1>1, <1>2

LEMMA SameAnnounce ==
  ASSUME AnnounceInv, UNCHANGED <<registered, unregs, cut, pc, cur, parent, was, cont>>, Still,
         \A i \in Inst : triggered[i] => triggered'[i]
  PROVE  AnnounceInv'
<1>1. DutyInv' BY DEF AnnounceInv, DutyInv, Duty, Past, Outer
<1>p. ASSUME NEW u \in Inst, NEW i \in Inst PROVE Pends(u, i)' <=> Pends(u, i)
  BY DEF Pends, Still
<1>2. FreshInv' BY <1>p DEF AnnounceInv, FreshInv, Fresh, Born, Clearing, Past, Outer
<1>3. OnceInv' BY <1>p DEF AnnounceInv, OnceInv, Once
<1>4. DueInv' BY <1>p DEF AnnounceInv, DueInv, Due, Alive, Clearing, Past, Outer, Triggering
<1> QED BY <1>1, <1>2, <1>3, <1>4 DEF AnnounceInv

LEMMA InsertAnnounce ==
  ASSUME TypeOK, LockInv, CoreInv, ErrandInv, AnnounceInv, NEW t \in Inst, Others(t), Insert(t)
  PROVE  AnnounceInv'
<1>0. /\ cur \in [Inst -> Inst] /\ parent \in [Inst -> Inst \cup {None}]
      /\ clients \in [Name -> Inst \cup {None}] /\ todo \in [Inst -> SUBSET Name]
      /\ cont[t] \in {"none", "force", "finish", "evict", "api", "drop"}
      /\ unregs \in [Inst -> Nat] /\ cut \in [Inst -> BOOLEAN]
      /\ Duty(t) /\ Errand(t) /\ DutyInv
      /\ parent[t] # None => pc[t] \in DropPc /\ Primary(parent[t]) /\ ~Primary(cur[t])
      /\ pc[t] \in {"d_sec", "d_loop"} => Primary(cur[t])
      /\ \A i \in Inst : Born(i) => Born(i)'
  BY InsertBorn DEF TypeOK, LockInv, NestInv, AnnounceInv, DutyInv, ErrandInv
<1>f. \A i \in Inst : Fresh(i) /\ Once(i) /\ Due(i)
  BY DEF AnnounceInv, FreshInv, OnceInv, DueInv
<1>1. CASE InsertNoPrimary(t)
  <2>1. (Past(t) => Past(t)') /\ (Past(t)' => Past(t) /\ Outer(t)' = Outer(t))
    BY <1>1, <1>0, InsertNoPrimaryStep DEF Moves, Goes, Local, dbVars, lockVars, instVars, otherVars, Past, Outer, DropPc, InsertLocked
  <2>2. t \notin Internal /\ (Alive(t)' \/ cont'[t] = "finish") => Alive(t) \/ cont[t] = "finish"
    BY <1>1, <1>0, InsertNoPrimaryStep DEF Moves, Goes, Local, dbVars, lockVars, instVars, otherVars, Alive, Errand, Duty, DropPc, InsertLocked
  <2>3. Duty(t)'
    BY <1>1, <1>0, InsertNoPrimaryStep DEF Moves, Goes, Local, dbVars, lockVars, instVars, otherVars, Duty, Past, Outer, Errand, DropPc, InsertLocked
  <2>4. /\ Local(t) /\ Still /\ UNCHANGED <<registered, unregs, cut>> /\ pc[t] \notin {"ann_unreg", "f_trig"}
        /\ pc'[t] # "ann_unreg" /\ \A i \in Inst : triggered[i] => triggered'[i]
    BY <1>1, InsertNoPrimaryStep DEF Moves, Goes, dbVars, lockVars, instVars, otherVars, Still
  <2> QED BY <1>0, <2>1, <2>2, <2>3, <2>4, CalmAnnounce
<1>2. CASE InsertBusy(t)
  <2>1. (Past(t) => Past(t)') /\ (Past(t)' => Past(t) /\ Outer(t)' = Outer(t))
    BY <1>2, <1>0, InsertBusyStep DEF Moves, Goes, Local, dbVars, lockVars, instVars, otherVars, Past, Outer, DropPc, InsertLocked
  <2>2. t \notin Internal /\ (Alive(t)' \/ cont'[t] = "finish") => Alive(t) \/ cont[t] = "finish"
    BY <1>2, <1>0, InsertBusyStep DEF Moves, Goes, Local, dbVars, lockVars, instVars, otherVars, Alive, Errand, Duty, DropPc, InsertLocked
  <2>3. Duty(t)'
    BY <1>2, <1>0, InsertBusyStep DEF Moves, Goes, Local, dbVars, lockVars, instVars, otherVars, Duty, Past, Outer, Errand, DropPc, InsertLocked
  <2>4. /\ Local(t) /\ Still /\ UNCHANGED <<registered, unregs, cut>> /\ pc[t] \notin {"ann_unreg", "f_trig"}
        /\ pc'[t] # "ann_unreg" /\ \A i \in Inst : triggered[i] => triggered'[i]
    BY <1>2, InsertBusyStep DEF Moves, Goes, dbVars, lockVars, instVars, otherVars, Still
  <2> QED BY <1>0, <2>1, <2>2, <2>3, <2>4, CalmAnnounce
<1>3. CASE InsertLock(t)
  <2>1. (Past(t) => Past(t)') /\ (Past(t)' => Past(t) /\ Outer(t)' = Outer(t))
    BY <1>3, <1>0, InsertLockStep DEF Moves, Goes, Local, dbVars, instVars, otherVars, Past, Outer, DropPc, InsertLocked
  <2>2. t \notin Internal /\ (Alive(t)' \/ cont'[t] = "finish") => Alive(t) \/ cont[t] = "finish"
    BY <1>3, <1>0, InsertLockStep DEF Moves, Goes, Local, dbVars, instVars, otherVars, Alive, Errand, Duty, DropPc, InsertLocked
  <2>3. Duty(t)'
    BY <1>3, <1>0, InsertLockStep DEF Moves, Goes, Local, dbVars, instVars, otherVars, Duty, Past, Outer, Errand, DropPc, InsertLocked
  <2>4. /\ Local(t) /\ Still /\ UNCHANGED <<registered, unregs, cut>> /\ pc[t] \notin {"ann_unreg", "f_trig"}
        /\ pc'[t] # "ann_unreg" /\ \A i \in Inst : triggered[i] => triggered'[i]
    BY <1>3, InsertLockStep DEF Moves, Goes, dbVars, instVars, otherVars, Still
  <2> QED BY <1>0, <2>1, <2>2, <2>3, <2>4, CalmAnnounce
<1>4. CASE InsertSecondary(t)
  <2>1. (Past(t) => Past(t)') /\ (Past(t)' => Past(t) /\ Outer(t)' = Outer(t))
    BY <1>4, <1>0, InsertSecondaryStep DEF Moves, Goes, Local, dbVars, lockVars, otherVars, Past, Outer, DropPc, InsertLocked
  <2>2. t \notin Internal /\ (Alive(t)' \/ cont'[t] = "finish") => Alive(t) \/ cont[t] = "finish"
    BY <1>4, <1>0, InsertSecondaryStep DEF Moves, Goes, Local, dbVars, lockVars, otherVars, Alive, Errand, Duty, DropPc, InsertLocked
  <2>3. Duty(t)'
    BY <1>4, <1>0, InsertSecondaryStep DEF Moves, Goes, Local, dbVars, lockVars, otherVars, Duty, Past, Outer, Errand, DropPc, InsertLocked
  <2>4. /\ Local(t) /\ Still /\ UNCHANGED <<registered, unregs, cut>> /\ pc[t] \notin {"ann_unreg", "f_trig"}
        /\ pc'[t] # "ann_unreg" /\ \A i \in Inst : triggered[i] => triggered'[i]
    BY <1>4, InsertSecondaryStep DEF Moves, Goes, dbVars, lockVars, otherVars, Still
  <2> QED BY <1>0, <2>1, <2>2, <2>3, <2>4, CalmAnnounce
<1>5. CASE InsertBroadcast(t)
  <2>1. (Past(t) => Past(t)') /\ (Past(t)' => Past(t) /\ Outer(t)' = Outer(t))
    BY <1>5, <1>0, InsertBroadcastStep DEF Moves, Goes, Local, lockVars, instVars, otherVars, Past, Outer, DropPc, InsertLocked
  <2>2. t \notin Internal /\ (Alive(t)' \/ cont'[t] = "finish") => Alive(t) \/ cont[t] = "finish"
    BY <1>5, <1>0, InsertBroadcastStep DEF Moves, Goes, Local, lockVars, instVars, otherVars, Alive, Errand, Duty, DropPc, InsertLocked
  <2>3. Duty(t)'
    BY <1>5, <1>0, InsertBroadcastStep DEF Moves, Goes, Local, lockVars, instVars, otherVars, Duty, Past, Outer, Errand, DropPc, InsertLocked
  <2>4. /\ Local(t) /\ Still /\ UNCHANGED <<registered, unregs, cut>> /\ pc[t] \notin {"ann_unreg", "f_trig"}
        /\ pc'[t] # "ann_unreg" /\ \A i \in Inst : triggered[i] => triggered'[i]
    BY <1>5, InsertBroadcastStep DEF Moves, Goes, lockVars, instVars, otherVars, Still
  <2> QED BY <1>0, <2>1, <2>2, <2>3, <2>4, CalmAnnounce
<1>6. CASE InsertSubscriptions(t)
  <2>1. (Past(t) => Past(t)') /\ (Past(t)' => Past(t) /\ Outer(t)' = Outer(t))
    BY <1>6, <1>0, InsertSubscriptionsStep DEF Moves, Goes, Local, lockVars, instVars, otherVars, Past, Outer, DropPc, InsertLocked
  <2>2. t \notin Internal /\ (Alive(t)' \/ cont'[t] = "finish") => Alive(t) \/ cont[t] = "finish"
    BY <1>6, <1>0, InsertSubscriptionsStep DEF Moves, Goes, Local, lockVars, instVars, otherVars, Alive, Errand, Duty, DropPc, InsertLocked
  <2>3. Duty(t)'
    BY <1>6, <1>0, InsertSubscriptionsStep DEF Moves, Goes, Local, lockVars, instVars, otherVars, Duty, Past, Outer, Errand, DropPc, InsertLocked
  <2>4. /\ Local(t) /\ Still /\ UNCHANGED <<registered, unregs, cut>> /\ pc[t] \notin {"ann_unreg", "f_trig"}
        /\ pc'[t] # "ann_unreg" /\ \A i \in Inst : triggered[i] => triggered'[i]
    BY <1>6, InsertSubscriptionsStep DEF Moves, Goes, lockVars, instVars, otherVars, Still
  <2> QED BY <1>0, <2>1, <2>2, <2>3, <2>4, CalmAnnounce
<1>7. CASE InsertEnd(t)
  <2>1. /\ pc[t] = "ins_end" /\ Goes(t) /\ pc'[t] \in {"ann_reg", "run", "resp"}
        /\ registered'[t] /\ \A i \in Inst : i # t => registered'[i] = registered[i]
        /\ UNCHANGED <<triggered, unregs, cut, rpcLock>>
    BY <1>7, InsertEndStep DEF otherVars
  <2>2. ~Born(t) /\ ~Past(t) /\ ~Past(t)'
    BY <1>0, <2>1 DEF Goes, Born, Past, InsertLocked, DropPc
  <2>3. Duty(t)'
    BY <1>0, <2>1, <2>2 DEF Goes, Duty, DropPc
  <2>4. DutyInv'
    BY <1>0, <2>1, <2>3, DutyKept DEF Goes
  <2>5. ASSUME NEW u \in Inst, NEW i \in Inst
        PROVE  /\ ~Clearing(u, i)' /\ ~Clearing(u, i)
               /\ Pends(u, i)' <=> Pends(u, i)
               /\ Triggering(u, i) => Triggering(u, i)'
    BY <2>1, <2>2, OthersClear DEF Goes, Local, Clearing, Pends, Triggering
  <2>6. ASSUME NEW i \in Inst PROVE Fresh(i)'
    BY <1>0, <1>f, <2>1, <2>2, <2>5 DEF Fresh
  <2>7. ASSUME NEW i \in Inst PROVE Once(i)'
    BY <1>f, <2>1, <2>5 DEF Once
  <2>8. ASSUME NEW i \in Inst PROVE Due(i)'
    <3>1. CASE i = t BY <2>1, <3>1 DEF Due
    <3>2. CASE i # t
      <4>1. (Alive(i)' <=> Alive(i)) /\ cont'[i] = cont[i] /\ registered'[i] = registered[i]
        BY <2>1, <3>2 DEF Goes, Local, Alive
      <4> QED BY <1>f, <2>1, <2>5, <4>1 DEF Due
    <3> QED BY <3>1, <3>2
  <2> QED BY <2>4, <2>6, <2>7, <2>8 DEF AnnounceInv, FreshInv, OnceInv, DueInv
<1>8. CASE AnnounceReg(t)
  <2>1. (Past(t) => Past(t)') /\ (Past(t)' => Past(t) /\ Outer(t)' = Outer(t))
    BY <1>8, <1>0, AnnounceRegStep DEF Goes, Local, dbVars, lockVars, instVars, otherVars, Past, Outer, DropPc, InsertLocked
  <2>2. t \notin Internal /\ (Alive(t)' \/ cont'[t] = "finish") => Alive(t) \/ cont[t] = "finish"
    BY <1>8, <1>0, AnnounceRegStep DEF Goes, Local, dbVars, lockVars, instVars, otherVars, Alive, Errand, Duty, DropPc, InsertLocked
  <2>3. Duty(t)'
    BY <1>8, <1>0, AnnounceRegStep DEF Goes, Local, dbVars, lockVars, instVars, otherVars, Duty, Past, Outer, Errand, DropPc, InsertLocked
  <2>4. /\ Local(t) /\ Still /\ UNCHANGED <<registered, unregs, cut>> /\ pc[t] \notin {"ann_unreg", "f_trig"}
        /\ pc'[t] # "ann_unreg" /\ \A i \in Inst : triggered[i] => triggered'[i]
    BY <1>8, AnnounceRegStep DEF Goes, dbVars, lockVars, instVars, otherVars, Still, Publishing
  <2> QED BY <1>0, <2>1, <2>2, <2>3, <2>4, CalmAnnounce
<1>9. CASE ForceRemove(t)
  <2>1. (Past(t) => Past(t)') /\ (Past(t)' => Past(t) /\ Outer(t)' = Outer(t))
    BY <1>9, <1>0, ForceRemoveStep DEF Local, lockVars, instVars, otherVars, Past, Outer, DropPc, InsertLocked
  <2>2. t \notin Internal /\ (Alive(t)' \/ cont'[t] = "finish") => Alive(t) \/ cont[t] = "finish"
    BY <1>9, <1>0, ForceRemoveStep DEF Local, lockVars, instVars, otherVars, Alive, Errand, Duty, DropPc, InsertLocked
  <2>3. Duty(t)'
    BY <1>9, <1>0, ForceRemoveStep DEF Local, lockVars, instVars, otherVars, Duty, Past, Outer, Errand, DropPc, InsertLocked
  <2>4. /\ Local(t) /\ Still /\ UNCHANGED <<registered, unregs, cut>> /\ pc[t] \notin {"ann_unreg", "f_trig"}
        /\ pc'[t] # "ann_unreg" /\ \A i \in Inst : triggered[i] => triggered'[i]
    BY <1>9, ForceRemoveStep DEF Local, lockVars, instVars, otherVars, Still
  <2> QED BY <1>0, <2>1, <2>2, <2>3, <2>4, CalmAnnounce
<1>10. CASE ForceVacant(t)
  <2>1. (Past(t) => Past(t)') /\ (Past(t)' => Past(t) /\ Outer(t)' = Outer(t))
    BY <1>10, <1>0, ForceVacantStep DEF Moves, Goes, Local, dbVars, lockVars, instVars, otherVars, Past, Outer, DropPc, InsertLocked
  <2>2. t \notin Internal /\ (Alive(t)' \/ cont'[t] = "finish") => Alive(t) \/ cont[t] = "finish"
    BY <1>10, <1>0, ForceVacantStep DEF Moves, Goes, Local, dbVars, lockVars, instVars, otherVars, Alive, Errand, Duty, DropPc, InsertLocked
  <2>3. Duty(t)'
    BY <1>10, <1>0, ForceVacantStep DEF Moves, Goes, Local, dbVars, lockVars, instVars, otherVars, Duty, Past, Outer, Errand, DropPc, InsertLocked
  <2>4. /\ Local(t) /\ Still /\ UNCHANGED <<registered, unregs, cut>> /\ pc[t] \notin {"ann_unreg", "f_trig"}
        /\ pc'[t] # "ann_unreg" /\ \A i \in Inst : triggered[i] => triggered'[i]
    BY <1>10, ForceVacantStep DEF Moves, Goes, dbVars, lockVars, instVars, otherVars, Still
  <2> QED BY <1>0, <2>1, <2>2, <2>3, <2>4, CalmAnnounce
<1>11. CASE ForceTrigger(t)
  <2>1. /\ pc[t] = "f_trig" /\ pc'[t] = "ins_retry" /\ Local(t) /\ parent'[t] = None /\ cont'[t] = cont[t]
        /\ triggered'[cur[t]] /\ \A i \in Inst : i # cur[t] => triggered'[i] = triggered[i]
        /\ UNCHANGED <<registered, unregs, cut, rpcLock>>
    BY <1>11, <1>0, ForceTriggerStep DEF otherVars, DropPc
  <2>2. cont[t] = "force" /\ ~Past(t) /\ ~Past(t)'
    BY <1>0, <2>1 DEF Past, DropPc, Errand
  <2>3. Duty(t)'
    BY <2>1, <2>2 DEF Duty
  <2>4. DutyInv'
    BY <1>0, <2>1, <2>3, DutyKept
  <2>5. ASSUME NEW u \in Inst, NEW i \in Inst
        PROVE  /\ ~Clearing(u, i)' /\ ~Clearing(u, i)
               /\ Pends(u, i)' <=> Pends(u, i)
               /\ Triggering(u, i) => Triggering(u, i)' \/ i = cur[t]
    BY <2>1, <2>2, OthersClear DEF Local, Clearing, Pends, Triggering
  <2>6. ASSUME NEW i \in Inst PROVE Fresh(i)'
    BY <1>0, <1>f, <2>1, <2>5 DEF Fresh
  <2>7. ASSUME NEW i \in Inst PROVE Once(i)'
    BY <1>f, <2>1, <2>5 DEF Once
  <2>8. ASSUME NEW i \in Inst PROVE Due(i)'
    <3>1. CASE i = cur[t] BY <2>1, <3>1 DEF Due
    <3>2. CASE i # cur[t]
      <4>1. (Alive(i)' => Alive(i)) /\ cont'[i] = cont[i]
        BY <2>1, <2>2 DEF Local, Alive, DropPc
      <4> QED BY <1>f, <2>1, <2>5, <3>2, <4>1 DEF Due
    <3> QED BY <3>1, <3>2
  <2> QED BY <2>4, <2>6, <2>7, <2>8 DEF AnnounceInv, FreshInv, OnceInv, DueInv
<1> QED BY <1>1, <1>2, <1>3, <1>4, <1>5, <1>6, <1>7, <1>8, <1>9, <1>10, <1>11 DEF Insert

LEMMA DropAnnounce ==
  ASSUME TypeOK, LockInv, CoreInv, ErrandInv, AnnounceInv, NEW t \in Inst, Others(t), Drop(t)
  PROVE  AnnounceInv'
<1>0. /\ cur \in [Inst -> Inst] /\ parent \in [Inst -> Inst \cup {None}]
      /\ clients \in [Name -> Inst \cup {None}] /\ todo \in [Inst -> SUBSET Name]
      /\ cont[t] \in {"none", "force", "finish", "evict", "api", "drop"}
      /\ unregs \in [Inst -> Nat] /\ cut \in [Inst -> BOOLEAN]
      /\ Duty(t) /\ Errand(t) /\ DutyInv
      /\ parent[t] # None => pc[t] \in DropPc /\ Primary(parent[t]) /\ ~Primary(cur[t])
      /\ pc[t] \in {"d_sec", "d_loop"} => Primary(cur[t])
      /\ \A i \in Inst : Born(i) => Born(i)'
  BY DropBorn DEF TypeOK, LockInv, NestInv, AnnounceInv, DutyInv, ErrandInv
<1>f. \A i \in Inst : Fresh(i) /\ Once(i) /\ Due(i)
  BY DEF AnnounceInv, FreshInv, OnceInv, DueInv
<1>1. CASE DropLoad(t)
  <2>1. (Past(t) => Past(t)') /\ (Past(t)' => Past(t) /\ Outer(t)' = Outer(t))
    BY <1>1, <1>0, DropLoadStep DEF Moves, Goes, Local, dbVars, lockVars, instVars, otherVars, Past, Outer, DropPc, InsertLocked
  <2>2. t \notin Internal /\ (Alive(t)' \/ cont'[t] = "finish") => Alive(t) \/ cont[t] = "finish"
    BY <1>1, <1>0, DropLoadStep DEF Moves, Goes, Local, dbVars, lockVars, instVars, otherVars, Alive, Errand, Duty, DropPc, InsertLocked
  <2>3. Duty(t)'
    BY <1>1, <1>0, DropLoadStep DEF Moves, Goes, Local, dbVars, lockVars, instVars, otherVars, Duty, Past, Outer, Errand, DropPc, InsertLocked
  <2>4. /\ Local(t) /\ Still /\ UNCHANGED <<registered, unregs, cut>> /\ pc[t] \notin {"ann_unreg", "f_trig"}
        /\ pc'[t] # "ann_unreg" /\ \A i \in Inst : triggered[i] => triggered'[i]
    BY <1>1, DropLoadStep DEF Moves, Goes, dbVars, lockVars, instVars, otherVars, Still
  <2> QED BY <1>0, <2>1, <2>2, <2>3, <2>4, CalmAnnounce
<1>2. CASE DropNotRegistered(t)
  BY <1>2, <1>0, DropNotRegisteredStep, ReturnAnnounce DEF dbVars, lockVars, instVars, otherVars, DropPc
<1>3. CASE DropStore(t)
  <2>1. /\ pc[t] = "d_store" /\ Moves(t, "d_subs") /\ cur[t] \in Inst
        /\ ~registered'[cur[t]] /\ \A i \in Inst : i # cur[t] => registered'[i] = registered[i]
        /\ UNCHANGED <<triggered, unregs, cut, rpcLock>>
    BY <1>3, <1>0, DropStoreStep DEF otherVars
  <2>r. registered[cur[t]]
    BY <1>0, <2>1 DEF Duty
  <2>2. /\ Past(t)' /\ Outer(t)' = Outer(t) /\ (Past(t) => parent[t] # None)
        /\ parent[t] = None => Outer(t) = cur[t]
        /\ parent[t] # None => Past(t)
    BY <2>1 DEF Moves, Goes, Past, Outer, DropPc
  <2>3. Duty(t)'
    <3>1. cont[t] = "finish" => Outer(t) = t
      BY <1>0, <2>1 DEF Errand, DropPc
    <3>2. ~registered'[Outer(t)]
      <4>1. CASE parent[t] = None BY <2>1, <2>2, <4>1
      <4>2. CASE parent[t] # None
        <5>1. Outer(t) \in Inst BY <1>0, <4>2 DEF Outer
        <5>2. ~registered[Outer(t)] BY <1>0, <2>2, <4>2 DEF Duty
        <5> QED BY <2>1, <5>1, <5>2
      <4> QED BY <4>1, <4>2
    <3> QED BY <1>0, <2>1, <2>2, <3>1, <3>2 DEF Moves, Goes, Duty, DropPc
  <2>4. DutyInv'
    BY <1>0, <2>1, <2>3, DutyKept DEF Moves, Goes
  <2>5. ASSUME NEW u \in Inst, NEW i \in Inst
        PROVE  /\ Clearing(u, i)' => Clearing(u, i) \/ i = cur[t]
               /\ Clearing(u, i) => Clearing(u, i)'
               /\ Pends(u, i)' <=> Pends(u, i)
               /\ Triggering(u, i) => Triggering(u, i)'
    BY <2>1, <2>2, OthersClear DEF Moves, Goes, Local, Clearing, Pends, Triggering
  <2>6. ASSUME NEW i \in Inst PROVE Fresh(i)'
    <3>1. unregs[cur[t]] = 0 /\ ~cut[cur[t]] /\ \A u \in Inst : ~Pends(u, cur[t])
      BY <1>f, <2>1, <2>r DEF Fresh
    <3>2. CASE i = cur[t]
      BY <2>1, <2>5, <3>1, <3>2 DEF Fresh
    <3>3. CASE i # cur[t]
      BY <1>0, <1>f, <2>1, <2>5, <3>3 DEF Fresh
    <3> QED BY <3>2, <3>3
  <2>7. ASSUME NEW i \in Inst PROVE Once(i)'
    BY <1>f, <2>1, <2>5 DEF Once
  <2>8. ASSUME NEW i \in Inst PROVE Due(i)'
    <3>1. CASE i = cur[t] /\ parent[t] = None
      <4>1. Clearing(t, i)' BY <2>2, <3>1 DEF Clearing
      <4> QED BY <4>1 DEF Due
    <3>2. CASE i = cur[t] /\ parent[t] # None
      BY <1>0, <3>2 DEF Due
    <3>3. CASE i # cur[t]
      <4>1. (Alive(i)' <=> Alive(i)) /\ cont'[i] = cont[i] /\ registered'[i] = registered[i]
        BY <2>1, <3>3 DEF Moves, Goes, Local, Alive, DropPc
      <4> QED BY <1>f, <2>1, <2>5, <4>1 DEF Due
    <3> QED BY <3>1, <3>2, <3>3
  <2> QED BY <2>4, <2>6, <2>7, <2>8 DEF AnnounceInv, FreshInv, OnceInv, DueInv
<1>4. CASE DropSubscriptions(t)
  <2>1. (Past(t) => Past(t)') /\ (Past(t)' => Past(t) /\ Outer(t)' = Outer(t))
    BY <1>4, <1>0, DropSubscriptionsStep DEF Moves, Goes, Local, lockVars, instVars, otherVars, Past, Outer, DropPc, InsertLocked
  <2>2. t \notin Internal /\ (Alive(t)' \/ cont'[t] = "finish") => Alive(t) \/ cont[t] = "finish"
    BY <1>4, <1>0, DropSubscriptionsStep DEF Moves, Goes, Local, lockVars, instVars, otherVars, Alive, Errand, Duty, DropPc, InsertLocked
  <2>3. Duty(t)'
    BY <1>4, <1>0, DropSubscriptionsStep DEF Moves, Goes, Local, lockVars, instVars, otherVars, Duty, Past, Outer, Errand, DropPc, InsertLocked
  <2>4. /\ Local(t) /\ Still /\ UNCHANGED <<registered, unregs, cut>> /\ pc[t] \notin {"ann_unreg", "f_trig"}
        /\ pc'[t] # "ann_unreg" /\ \A i \in Inst : triggered[i] => triggered'[i]
    BY <1>4, DropSubscriptionsStep DEF Moves, Goes, lockVars, instVars, otherVars, Still
  <2> QED BY <1>0, <2>1, <2>2, <2>3, <2>4, CalmAnnounce
<1>5. CASE DropBroadcast(t)
  <2>1. (Past(t) => Past(t)') /\ (Past(t)' => Past(t) /\ Outer(t)' = Outer(t))
    BY <1>5, <1>0, DropBroadcastStep DEF Moves, Goes, Local, lockVars, instVars, otherVars, Past, Outer, DropPc, InsertLocked
  <2>2. t \notin Internal /\ (Alive(t)' \/ cont'[t] = "finish") => Alive(t) \/ cont[t] = "finish"
    BY <1>5, <1>0, DropBroadcastStep DEF Moves, Goes, Local, lockVars, instVars, otherVars, Alive, Errand, Duty, DropPc, InsertLocked
  <2>3. Duty(t)'
    BY <1>5, <1>0, DropBroadcastStep DEF Moves, Goes, Local, lockVars, instVars, otherVars, Duty, Past, Outer, Errand, DropPc, InsertLocked
  <2>4. /\ Local(t) /\ Still /\ UNCHANGED <<registered, unregs, cut>> /\ pc[t] \notin {"ann_unreg", "f_trig"}
        /\ pc'[t] # "ann_unreg" /\ \A i \in Inst : triggered[i] => triggered'[i]
    BY <1>5, DropBroadcastStep DEF Moves, Goes, lockVars, instVars, otherVars, Still
  <2> QED BY <1>0, <2>1, <2>2, <2>3, <2>4, CalmAnnounce
<1>6. CASE DropClients(t)
  <2>1. (Past(t) => Past(t)') /\ (Past(t)' => Past(t) /\ Outer(t)' = Outer(t))
    BY <1>6, <1>0, DropClientsStep DEF Moves, Goes, Local, lockVars, instVars, otherVars, Past, Outer, DropPc, InsertLocked
  <2>2. t \notin Internal /\ (Alive(t)' \/ cont'[t] = "finish") => Alive(t) \/ cont[t] = "finish"
    BY <1>6, <1>0, DropClientsStep DEF Moves, Goes, Local, lockVars, instVars, otherVars, Alive, Errand, Duty, DropPc, InsertLocked
  <2>3. Duty(t)'
    BY <1>6, <1>0, DropClientsStep DEF Moves, Goes, Local, lockVars, instVars, otherVars, Duty, Past, Outer, Errand, DropPc, InsertLocked
  <2>4. /\ Local(t) /\ Still /\ UNCHANGED <<registered, unregs, cut>> /\ pc[t] \notin {"ann_unreg", "f_trig"}
        /\ pc'[t] # "ann_unreg" /\ \A i \in Inst : triggered[i] => triggered'[i]
    BY <1>6, DropClientsStep DEF Moves, Goes, lockVars, instVars, otherVars, Still
  <2> QED BY <1>0, <2>1, <2>2, <2>3, <2>4, CalmAnnounce
<1>7. CASE DropLockSecondaries(t)
  <2>1. (Past(t) => Past(t)') /\ (Past(t)' => Past(t) /\ Outer(t)' = Outer(t))
    BY <1>7, <1>0, DropLockSecondariesStep DEF Local, dbVars, instVars, otherVars, Past, Outer, DropPc, InsertLocked
  <2>2. t \notin Internal /\ (Alive(t)' \/ cont'[t] = "finish") => Alive(t) \/ cont[t] = "finish"
    BY <1>7, <1>0, DropLockSecondariesStep DEF Local, dbVars, instVars, otherVars, Alive, Errand, Duty, DropPc, InsertLocked
  <2>3. Duty(t)'
    BY <1>7, <1>0, DropLockSecondariesStep DEF Local, dbVars, instVars, otherVars, Duty, Past, Outer, Errand, DropPc, InsertLocked
  <2>4. /\ Local(t) /\ Still /\ UNCHANGED <<registered, unregs, cut>> /\ pc[t] \notin {"ann_unreg", "f_trig"}
        /\ pc'[t] # "ann_unreg" /\ \A i \in Inst : triggered[i] => triggered'[i]
    BY <1>7, DropLockSecondariesStep DEF Local, dbVars, instVars, otherVars, Still
  <2> QED BY <1>0, <2>1, <2>2, <2>3, <2>4, CalmAnnounce
<1>8. CASE DropNextSecondary(t)
  <2>1. (Past(t) => Past(t)') /\ (Past(t)' => Past(t) /\ Outer(t)' = Outer(t))
    BY <1>8, <1>0, DropNextSecondaryStep DEF Local, dbVars, lockVars, otherVars, Past, Outer, DropPc, InsertLocked
  <2>2. t \notin Internal /\ (Alive(t)' \/ cont'[t] = "finish") => Alive(t) \/ cont[t] = "finish"
    BY <1>8, <1>0, DropNextSecondaryStep DEF Local, dbVars, lockVars, otherVars, Alive, Errand, Duty, DropPc, InsertLocked
  <2>3. Duty(t)'
    BY <1>8, <1>0, DropNextSecondaryStep DEF Local, dbVars, lockVars, otherVars, Duty, Past, Outer, Errand, DropPc, InsertLocked
  <2>4. /\ Local(t) /\ Still /\ UNCHANGED <<registered, unregs, cut>> /\ pc[t] \notin {"ann_unreg", "f_trig"}
        /\ pc'[t] # "ann_unreg" /\ \A i \in Inst : triggered[i] => triggered'[i]
    BY <1>8, DropNextSecondaryStep DEF Local, dbVars, lockVars, otherVars, Still
  <2> QED BY <1>0, <2>1, <2>2, <2>3, <2>4, CalmAnnounce
<1>9. CASE DropMissingSecondary(t)
  <2>1. (Past(t) => Past(t)') /\ (Past(t)' => Past(t) /\ Outer(t)' = Outer(t))
    BY <1>9, <1>0, DropMissingSecondaryStep DEF Local, dbVars, lockVars, instVars, otherVars, Past, Outer, DropPc, InsertLocked
  <2>2. t \notin Internal /\ (Alive(t)' \/ cont'[t] = "finish") => Alive(t) \/ cont[t] = "finish"
    BY <1>9, <1>0, DropMissingSecondaryStep DEF Local, dbVars, lockVars, instVars, otherVars, Alive, Errand, Duty, DropPc, InsertLocked
  <2>3. Duty(t)'
    BY <1>9, <1>0, DropMissingSecondaryStep DEF Local, dbVars, lockVars, instVars, otherVars, Duty, Past, Outer, Errand, DropPc, InsertLocked
  <2>4. /\ Local(t) /\ Still /\ UNCHANGED <<registered, unregs, cut>> /\ pc[t] \notin {"ann_unreg", "f_trig"}
        /\ pc'[t] # "ann_unreg" /\ \A i \in Inst : triggered[i] => triggered'[i]
    BY <1>9, DropMissingSecondaryStep DEF Local, dbVars, lockVars, instVars, otherVars, Still
  <2> QED BY <1>0, <2>1, <2>2, <2>3, <2>4, CalmAnnounce
<1>10. CASE DropSecondariesEnd(t)
  BY <1>10, <1>0, DropSecondariesEndStep, ReturnAnnounce DEF dbVars, otherVars, DropPc
<1>11. CASE DropUnlinkLock(t)
  <2>1. (Past(t) => Past(t)') /\ (Past(t)' => Past(t) /\ Outer(t)' = Outer(t))
    BY <1>11, <1>0, DropUnlinkLockStep DEF Moves, Goes, Local, dbVars, instVars, otherVars, Past, Outer, DropPc, InsertLocked
  <2>2. t \notin Internal /\ (Alive(t)' \/ cont'[t] = "finish") => Alive(t) \/ cont[t] = "finish"
    BY <1>11, <1>0, DropUnlinkLockStep DEF Moves, Goes, Local, dbVars, instVars, otherVars, Alive, Errand, Duty, DropPc, InsertLocked
  <2>3. Duty(t)'
    BY <1>11, <1>0, DropUnlinkLockStep DEF Moves, Goes, Local, dbVars, instVars, otherVars, Duty, Past, Outer, Errand, DropPc, InsertLocked
  <2>4. /\ Local(t) /\ Still /\ UNCHANGED <<registered, unregs, cut>> /\ pc[t] \notin {"ann_unreg", "f_trig"}
        /\ pc'[t] # "ann_unreg" /\ \A i \in Inst : triggered[i] => triggered'[i]
    BY <1>11, DropUnlinkLockStep DEF Moves, Goes, dbVars, instVars, otherVars, Still
  <2> QED BY <1>0, <2>1, <2>2, <2>3, <2>4, CalmAnnounce
<1>12. CASE DropNoPrimary(t)
  BY <1>12, <1>0, DropNoPrimaryStep, ReturnAnnounce DEF dbVars, lockVars, instVars, otherVars, DropPc
<1>13. CASE DropUnlink(t)
  BY <1>13, <1>0, DropUnlinkStep, ReturnAnnounce DEF dbVars, otherVars, DropPc
<1>14. CASE AnnounceUnreg(t)
  <2>1. /\ pc[t] = "ann_unreg" /\ Moves(t, "u_end") /\ cur[t] \in Inst
        /\ unregs'[cur[t]] = unregs[cur[t]] + 1
        /\ \A i \in Inst : i # cur[t] => unregs'[i] = unregs[i]
        /\ UNCHANGED <<registered, triggered, cut>>
        /\ (Core # None => pc[Core] # "ann_unreg") /\ t # Core
    BY <1>14, <1>0, AnnounceUnregStep DEF instVars, Publishing
  <2>2. Pends(t, cur[t]) /\ ~Past(t) /\ ~Past(t)'
    BY <1>0, <2>1 DEF Moves, Goes, Pends, Past, DropPc
  <2>3. Duty(t)'
    BY <1>0, <2>1, <2>2 DEF Moves, Goes, Duty, DropPc
  <2>4. DutyInv'
    BY <1>0, <2>1, <2>3, DutyKept DEF Moves, Goes
  <2>5. ASSUME NEW u \in Inst, NEW i \in Inst
        PROVE  /\ ~Clearing(u, i)' /\ ~Clearing(u, i)
               /\ i # cur[t] => (Pends(u, i)' <=> Pends(u, i))
               /\ Pends(u, i)' => Pends(u, i) /\ u # t
               /\ Triggering(u, i) => Triggering(u, i)'
    BY <2>1, <2>2, OthersClear DEF Moves, Goes, Local, Clearing, Pends, Triggering
  <2>6. /\ unregs'[cur[t]] = 1 /\ ~cut[cur[t]] /\ ~registered[cur[t]] /\ Born(cur[t])
        /\ \A u \in Inst : ~Pends(u, cur[t])'
    <3>1. unregs[cur[t]] = 0 /\ ~cut[cur[t]] /\ \A u \in Inst : Pends(u, cur[t]) => u = t
      BY <1>f, <2>1, <2>2 DEF Once
    <3>2. cur'[t] = cur[t]
      BY <2>1 DEF Moves, Goes
    <3>3. \A u \in Inst : ~Pends(u, cur[t])'
      BY <2>1, <2>5, <3>1, <3>2 DEF Pends, Moves, Goes, Local
    <3> QED BY <1>f, <2>1, <2>2, <3>1, <3>3 DEF Fresh
  <2>7. ASSUME NEW i \in Inst PROVE Fresh(i)'
    <3>1. CASE i = cur[t] BY <1>0, <2>1, <2>5, <2>6, <3>1 DEF Fresh
    <3>2. CASE i # cur[t] BY <1>0, <1>f, <2>1, <2>5, <3>2 DEF Fresh
    <3> QED BY <3>1, <3>2
  <2>8. ASSUME NEW i \in Inst PROVE Once(i)'
    <3>1. CASE i = cur[t]
      <4>1. \A u \in Inst : ~Pends(u, i)' BY <2>1, <2>6, <3>1 DEF Moves, Goes, Pends
      <4> QED BY <2>1, <2>6, <3>1, <4>1 DEF Once
    <3>2. CASE i # cur[t] BY <1>f, <2>1, <2>5, <3>2 DEF Once
    <3> QED BY <3>1, <3>2
  <2>9. ASSUME NEW i \in Inst PROVE Due(i)'
    <3>1. CASE i = cur[t] BY <2>6, <3>1 DEF Due
    <3>2. CASE i # cur[t]
      <4>1. (Alive(i)' <=> Alive(i)) /\ cont'[i] = cont[i]
        BY <2>1 DEF Moves, Goes, Local, Alive
      <4> QED BY <1>f, <2>1, <2>5, <3>2, <4>1 DEF Due
    <3> QED BY <3>1, <3>2
  <2> QED BY <2>4, <2>7, <2>8, <2>9 DEF AnnounceInv, FreshInv, OnceInv, DueInv
<1>15. CASE UnregisterEnd(t)
  <2>1. (Past(t) => Past(t)') /\ (Past(t)' => Past(t) /\ Outer(t)' = Outer(t))
    BY <1>15, <1>0, UnregisterEndStep DEF Local, dbVars, lockVars, otherVars, Past, Outer, DropPc, InsertLocked
  <2>2. t \notin Internal /\ (Alive(t)' \/ cont'[t] = "finish") => Alive(t) \/ cont[t] = "finish"
    BY <1>15, <1>0, UnregisterEndStep DEF Local, dbVars, lockVars, otherVars, Alive, Errand, Duty, DropPc, InsertLocked
  <2>3. Duty(t)'
    BY <1>15, <1>0, UnregisterEndStep DEF Local, dbVars, lockVars, otherVars, Duty, Past, Outer, Errand, DropPc, InsertLocked
  <2>4. /\ Local(t) /\ Still /\ UNCHANGED <<registered, unregs, cut>> /\ pc[t] \notin {"ann_unreg", "f_trig"}
        /\ pc'[t] # "ann_unreg" /\ \A i \in Inst : triggered[i] => triggered'[i]
    BY <1>15, UnregisterEndStep DEF Local, dbVars, lockVars, otherVars, Still
  <2> QED BY <1>0, <2>1, <2>2, <2>3, <2>4, CalmAnnounce
<1> QED BY <1>1, <1>2, <1>3, <1>4, <1>5, <1>6, <1>7, <1>8, <1>9, <1>10, <1>11, <1>12, <1>13, <1>14, <1>15 DEF Drop

LEMMA OwnerAnnounce ==
  ASSUME TypeOK, LockInv, CoreInv, ErrandInv, AnnounceInv, NEW t \in Inst, Others(t), Owner(t)
  PROVE  AnnounceInv'
<1>0. /\ cur \in [Inst -> Inst] /\ parent \in [Inst -> Inst \cup {None}]
      /\ clients \in [Name -> Inst \cup {None}] /\ todo \in [Inst -> SUBSET Name]
      /\ cont[t] \in {"none", "force", "finish", "evict", "api", "drop"}
      /\ unregs \in [Inst -> Nat] /\ cut \in [Inst -> BOOLEAN]
      /\ Duty(t) /\ Errand(t) /\ DutyInv
      /\ parent[t] # None => pc[t] \in DropPc /\ Primary(parent[t]) /\ ~Primary(cur[t])
      /\ pc[t] \in {"d_sec", "d_loop"} => Primary(cur[t])
      /\ \A i \in Inst : Born(i) => Born(i)'
  BY OwnerBorn DEF TypeOK, LockInv, NestInv, AnnounceInv, DutyInv, ErrandInv
<1>f. \A i \in Inst : Fresh(i) /\ Once(i) /\ Due(i)
  BY DEF AnnounceInv, FreshInv, OnceInv, DueInv
<1>1. CASE RespondOk(t)
  <2>1. (Past(t) => Past(t)') /\ (Past(t)' => Past(t) /\ Outer(t)' = Outer(t))
    BY <1>1, <1>0, RespondOkStep DEF Moves, Goes, Local, dbVars, lockVars, instVars, otherVars, Past, Outer, DropPc, InsertLocked
  <2>2. t \notin Internal /\ (Alive(t)' \/ cont'[t] = "finish") => Alive(t) \/ cont[t] = "finish"
    BY <1>1, <1>0, RespondOkStep DEF Moves, Goes, Local, dbVars, lockVars, instVars, otherVars, Alive, Errand, Duty, DropPc, InsertLocked
  <2>3. Duty(t)'
    BY <1>1, <1>0, RespondOkStep DEF Moves, Goes, Local, dbVars, lockVars, instVars, otherVars, Duty, Past, Outer, Errand, DropPc, InsertLocked
  <2>4. /\ Local(t) /\ Still /\ UNCHANGED <<registered, unregs, cut>> /\ pc[t] \notin {"ann_unreg", "f_trig"}
        /\ pc'[t] # "ann_unreg" /\ \A i \in Inst : triggered[i] => triggered'[i]
    BY <1>1, RespondOkStep DEF Moves, Goes, dbVars, lockVars, instVars, otherVars, Still
  <2> QED BY <1>0, <2>1, <2>2, <2>3, <2>4, CalmAnnounce
<1>2. CASE RespondFail(t)
  <2>1. (Past(t) => Past(t)') /\ (Past(t)' => Past(t) /\ Outer(t)' = Outer(t))
    BY <1>2, <1>0, RespondFailStep DEF Moves, Goes, Local, dbVars, lockVars, instVars, otherVars, Past, Outer, DropPc, InsertLocked
  <2>2. t \notin Internal /\ (Alive(t)' \/ cont'[t] = "finish") => Alive(t) \/ cont[t] = "finish"
    BY <1>2, <1>0, RespondFailStep DEF Moves, Goes, Local, dbVars, lockVars, instVars, otherVars, Alive, Errand, Duty, DropPc, InsertLocked
  <2>3. Duty(t)'
    BY <1>2, <1>0, RespondFailStep DEF Moves, Goes, Local, dbVars, lockVars, instVars, otherVars, Duty, Past, Outer, Errand, DropPc, InsertLocked
  <2>4. /\ Local(t) /\ Still /\ UNCHANGED <<registered, unregs, cut>> /\ pc[t] \notin {"ann_unreg", "f_trig"}
        /\ pc'[t] # "ann_unreg" /\ \A i \in Inst : triggered[i] => triggered'[i]
    BY <1>2, RespondFailStep DEF Moves, Goes, dbVars, lockVars, instVars, otherVars, Still
  <2> QED BY <1>0, <2>1, <2>2, <2>3, <2>4, CalmAnnounce
<1>3. CASE Disconnect(t)
  <2>1. /\ t \notin Internal /\ t # Core /\ pc[t] \in {"run", "sending", "ann_unreg"}
        /\ pc[t] = "ann_unreg" => cont[t] = "evict"
        /\ rpcLock' = IF rpcLock = t THEN None ELSE rpcLock
        /\ \A i \in Inst : cut'[i] <=> (cut[i] \/ i \in GivenUp(t))
        /\ Calls(t, t, "finish") /\ UNCHANGED <<registered, triggered, unregs>>
    BY <1>3, <1>0, DisconnectStep, CoreAssumption DEF instVars
  <2>2. /\ ~Past(t) /\ ~Past(t)' /\ parent[t] = None /\ parent'[t] = None /\ Local(t)
        /\ pc'[t] = "d_load" /\ cont'[t] = "finish"
    BY <1>0, <2>1 DEF Calls, Past, DropPc
  <2>3. Duty(t)'
    BY <2>1, <2>2 DEF Calls, Duty, DropPc
  <2>4. DutyInv'
    BY <1>0, <2>1, <2>2, <2>3, DutyKept
  <2>a. ASSUME NEW u \in Inst, NEW i \in Inst
        PROVE  /\ Pends(u, i)' => Pends(u, i)
               /\ Pends(u, i) /\ ~Pends(u, i)' => i \in GivenUp(t)
    <3>1. CASE u = t
      BY <2>1, <2>2, <3>1 DEF Pends, GivenUp, Evicting
    <3>2. CASE u # t
      <4>1. pc'[u] = pc[u] /\ cur'[u] = cur[u] BY <2>2, <3>2 DEF Local
      <4>2. u = Core /\ pc[u] = "ann_unreg" => Core # None /\ Evicting(Core)
        BY DEF CoreInv, Evicting
      <4> QED BY <2>1, <4>1, <4>2 DEF Pends, GivenUp
    <3> QED BY <3>1, <3>2
  <2>b. ASSUME NEW i \in GivenUp(t)
        PROVE  \E v \in Inst : Pends(v, i) /\ ~Pends(v, i)'
    <3>1. CASE Evicting(t) /\ i = cur[t]
      <4>1. Pends(t, i) /\ ~Pends(t, i)' BY <2>1, <2>2, <3>1 DEF Pends, Evicting
      <4> QED BY <4>1
    <3>2. CASE Core # None /\ rpcLock = t /\ Evicting(Core) /\ i = cur[Core]
      <4>1. Core \in Inst BY <3>2, CoreAssumption
      <4>2. Pends(Core, i) /\ ~Pends(Core, i)' BY <2>1, <3>2 DEF Pends, Evicting
      <4> QED BY <4>1, <4>2
    <3> QED BY <3>1, <3>2 DEF GivenUp
  <2>5. ASSUME NEW u \in Inst, NEW i \in Inst
        PROVE  /\ ~Clearing(u, i)' /\ ~Clearing(u, i)
               /\ Triggering(u, i) => Triggering(u, i)'
    BY <2>1, <2>2, OthersClear DEF Local, Clearing, Triggering
  <2>6. ASSUME NEW i \in Inst, i \in GivenUp(t)
        PROVE  unregs[i] = 0 /\ ~registered[i] /\ Born(i) /\ cut'[i] /\ \A u \in Inst : ~Pends(u, i)'
    <3>1. PICK v \in Inst : Pends(v, i) /\ ~Pends(v, i)' BY <2>6, <2>b
    <3>2. \A u \in Inst : Pends(u, i) => u = v BY <1>f, <3>1 DEF Once
    <3>3. \A u \in Inst : ~Pends(u, i)' BY <2>a, <3>1, <3>2
    <3>4. unregs[i] = 0 /\ ~registered[i] /\ Born(i) BY <1>f, <3>1 DEF Once, Fresh
    <3> QED BY <2>1, <2>6, <3>3, <3>4
  <2>7. ASSUME NEW i \in Inst PROVE Fresh(i)'
    <3>1. CASE i \in GivenUp(t) BY <1>0, <2>1, <2>5, <2>6, <3>1 DEF Fresh
    <3>2. CASE i \notin GivenUp(t) BY <1>0, <1>f, <2>1, <2>5, <2>a, <3>2 DEF Fresh
    <3> QED BY <3>1, <3>2
  <2>8. ASSUME NEW i \in Inst PROVE Once(i)'
    <3>1. CASE i \in GivenUp(t) BY <2>1, <2>6, <3>1 DEF Once
    <3>2. CASE i \notin GivenUp(t) BY <1>f, <2>1, <2>a, <3>2 DEF Once
    <3> QED BY <3>1, <3>2
  <2>9. ASSUME NEW i \in Inst PROVE Due(i)'
    <3>1. CASE i \in GivenUp(t) BY <2>6, <3>1 DEF Due
    <3>2. CASE i \notin GivenUp(t)
      <4>1. Alive(i)' \/ cont'[i] = "finish" => Alive(i) \/ cont[i] = "finish"
        BY <2>1, <2>2 DEF Local, Alive, DropPc
      <4> QED BY <1>f, <2>1, <2>5, <2>a, <3>2, <4>1 DEF Due
    <3> QED BY <3>1, <3>2
  <2> QED BY <2>4, <2>7, <2>8, <2>9 DEF AnnounceInv, FreshInv, OnceInv, DueInv
<1>4. CASE BrokerUnregister(t)
  <2>1. (Past(t) => Past(t)') /\ (Past(t)' => Past(t) /\ Outer(t)' = Outer(t))
    BY <1>4, <1>0, BrokerUnregisterStep DEF Calls, Local, dbVars, lockVars, instVars, otherVars, Past, Outer, DropPc, InsertLocked
  <2>2. t \notin Internal /\ (Alive(t)' \/ cont'[t] = "finish") => Alive(t) \/ cont[t] = "finish"
    BY <1>4, <1>0, BrokerUnregisterStep DEF Calls, Local, dbVars, lockVars, instVars, otherVars, Alive, Errand, Duty, DropPc, InsertLocked
  <2>3. Duty(t)'
    BY <1>4, <1>0, BrokerUnregisterStep DEF Calls, Local, dbVars, lockVars, instVars, otherVars, Duty, Past, Outer, Errand, DropPc, InsertLocked
  <2>4. /\ Local(t) /\ Still /\ UNCHANGED <<registered, unregs, cut>> /\ pc[t] \notin {"ann_unreg", "f_trig"}
        /\ pc'[t] # "ann_unreg" /\ \A i \in Inst : triggered[i] => triggered'[i]
    BY <1>4, BrokerUnregisterStep DEF Calls, dbVars, lockVars, instVars, otherVars, Still
  <2> QED BY <1>0, <2>1, <2>2, <2>3, <2>4, CalmAnnounce
<1>5. CASE ClientUnregister(t)
  <2>1. /\ t \in Internal /\ pc[t] = "run" /\ pc'[t] = "d_load" /\ Local(t) /\ cont'[t] = "api"
        /\ cur'[t] = t /\ ~was'[t] /\ parent'[t] = parent[t]
        /\ ~registered'[t] /\ \A i \in Inst : i # t => registered'[i] = registered[i]
        /\ UNCHANGED <<triggered, unregs, cut, rpcLock>>
    BY <1>5, ClientUnregisterStep DEF otherVars
  <2>2. ~Past(t) /\ ~Past(t)' /\ parent'[t] = None
    BY <1>0, <2>1 DEF Past, DropPc
  <2>3. Duty(t)'
    BY <2>1, <2>2 DEF Duty
  <2>4. DutyInv'
    BY <1>0, <2>1, <2>3, DutyKept
  <2>5. ASSUME NEW u \in Inst, NEW i \in Inst
        PROVE  /\ ~Clearing(u, i)' /\ ~Clearing(u, i)
               /\ Pends(u, i)' <=> Pends(u, i)
               /\ Triggering(u, i) => Triggering(u, i)'
    BY <2>1, <2>2, OthersClear DEF Local, Clearing, Pends, Triggering
  <2>6. ASSUME NEW i \in Inst PROVE Fresh(i)'
    BY <1>0, <1>f, <2>1, <2>5 DEF Fresh
  <2>7. ASSUME NEW i \in Inst PROVE Once(i)'
    BY <1>f, <2>1, <2>5 DEF Once
  <2>8. ASSUME NEW i \in Inst PROVE Due(i)'
    <3>1. CASE i = t BY <2>1, <3>1 DEF Due
    <3>2. CASE i # t
      <4>1. (Alive(i)' <=> Alive(i)) /\ cont'[i] = cont[i] /\ registered'[i] = registered[i]
        BY <2>1, <3>2 DEF Local, Alive
      <4> QED BY <1>f, <2>1, <2>5, <4>1 DEF Due
    <3> QED BY <3>1, <3>2
  <2> QED BY <2>4, <2>6, <2>7, <2>8 DEF AnnounceInv, FreshInv, OnceInv, DueInv
<1>6. CASE ClientDrop(t)
  <2>1. (Past(t) => Past(t)') /\ (Past(t)' => Past(t) /\ Outer(t)' = Outer(t))
    BY <1>6, <1>0, ClientDropStep DEF Local, dbVars, lockVars, instVars, otherVars, Past, Outer, DropPc, InsertLocked
  <2>2. t \notin Internal /\ (Alive(t)' \/ cont'[t] = "finish") => Alive(t) \/ cont[t] = "finish"
    BY <1>6, <1>0, ClientDropStep DEF Local, dbVars, lockVars, instVars, otherVars, Alive, Errand, Duty, DropPc, InsertLocked
  <2>3. Duty(t)'
    BY <1>6, <1>0, ClientDropStep DEF Local, dbVars, lockVars, instVars, otherVars, Duty, Past, Outer, Errand, DropPc, InsertLocked
  <2>4. /\ Local(t) /\ Still /\ UNCHANGED <<registered, unregs, cut>> /\ pc[t] \notin {"ann_unreg", "f_trig"}
        /\ pc'[t] # "ann_unreg" /\ \A i \in Inst : triggered[i] => triggered'[i]
    BY <1>6, ClientDropStep DEF Local, dbVars, lockVars, instVars, otherVars, Still
  <2> QED BY <1>0, <2>1, <2>2, <2>3, <2>4, CalmAnnounce
<1>7. CASE Lookup(t)
  <2>1. (Past(t) => Past(t)') /\ (Past(t)' => Past(t) /\ Outer(t)' = Outer(t))
    BY <1>7, <1>0, LookupStep DEF Local, dbVars, lockVars, instVars, otherVars, Past, Outer, DropPc, InsertLocked
  <2>2. t \notin Internal /\ (Alive(t)' \/ cont'[t] = "finish") => Alive(t) \/ cont[t] = "finish"
    BY <1>7, <1>0, LookupStep DEF Local, dbVars, lockVars, instVars, otherVars, Alive, Errand, Duty, DropPc, InsertLocked
  <2>3. Duty(t)'
    BY <1>7, <1>0, LookupStep DEF Local, dbVars, lockVars, instVars, otherVars, Duty, Past, Outer, Errand, DropPc, InsertLocked
  <2>4. /\ Local(t) /\ Still /\ UNCHANGED <<registered, unregs, cut>> /\ pc[t] \notin {"ann_unreg", "f_trig"}
        /\ pc'[t] # "ann_unreg" /\ \A i \in Inst : triggered[i] => triggered'[i]
    BY <1>7, LookupStep DEF Local, dbVars, lockVars, instVars, otherVars, Still
  <2> QED BY <1>0, <2>1, <2>2, <2>3, <2>4, CalmAnnounce
<1>8. CASE SendEnd(t) /\ pc[t] = "sending"
  <2>1. (Past(t) => Past(t)') /\ (Past(t)' => Past(t) /\ Outer(t)' = Outer(t))
    BY <1>8, <1>0, SendEndStep DEF Local, dbVars, lockVars, instVars, otherVars, Past, Outer, DropPc, InsertLocked
  <2>2. t \notin Internal /\ (Alive(t)' \/ cont'[t] = "finish") => Alive(t) \/ cont[t] = "finish"
    BY <1>8, <1>0, SendEndStep DEF Local, dbVars, lockVars, instVars, otherVars, Alive, Errand, Duty, DropPc, InsertLocked
  <2>3. Duty(t)'
    BY <1>8, <1>0, SendEndStep DEF Local, dbVars, lockVars, instVars, otherVars, Duty, Past, Outer, Errand, DropPc, InsertLocked
  <2>4. /\ Local(t) /\ Still /\ UNCHANGED <<registered, unregs, cut>> /\ pc[t] \notin {"ann_unreg", "f_trig"}
        /\ pc'[t] # "ann_unreg" /\ \A i \in Inst : triggered[i] => triggered'[i]
    BY <1>8, SendEndStep DEF Local, dbVars, lockVars, instVars, otherVars, Still
  <2> QED BY <1>0, <2>1, <2>2, <2>3, <2>4, CalmAnnounce
<1>9. CASE Evict(t)
  <2>1. (Past(t) => Past(t)') /\ (Past(t)' => Past(t) /\ Outer(t)' = Outer(t))
    BY <1>9, <1>0, EvictStep DEF Calls, Local, dbVars, lockVars, instVars, otherVars, Past, Outer, DropPc, InsertLocked
  <2>2. t \notin Internal /\ (Alive(t)' \/ cont'[t] = "finish") => Alive(t) \/ cont[t] = "finish"
    BY <1>9, <1>0, EvictStep DEF Calls, Local, dbVars, lockVars, instVars, otherVars, Alive, Errand, Duty, DropPc, InsertLocked
  <2>3. Duty(t)'
    BY <1>9, <1>0, EvictStep DEF Calls, Local, dbVars, lockVars, instVars, otherVars, Duty, Past, Outer, Errand, DropPc, InsertLocked
  <2>4. /\ Local(t) /\ Still /\ UNCHANGED <<registered, unregs, cut>> /\ pc[t] \notin {"ann_unreg", "f_trig"}
        /\ pc'[t] # "ann_unreg" /\ \A i \in Inst : triggered[i] => triggered'[i]
    BY <1>9, EvictStep DEF Calls, dbVars, lockVars, instVars, otherVars, Still
  <2> QED BY <1>0, <2>1, <2>2, <2>3, <2>4, CalmAnnounce
<1>10. ASSUME NEW x \in Topic, Subscribe(t, x) \/ Unsubscribe(t, x) PROVE AnnounceInv'
  BY <1>10, SameAnnounce DEF Subscribe, Unsubscribe, instVars, taskVars, otherVars, Still
<1>11. CASE SendEnd(t) /\ PublishDropped(t)
  <2>1. (Past(t) => Past(t)') /\ (Past(t)' => Past(t) /\ Outer(t)' = Outer(t))
    BY <1>11, <1>0, PublishDroppedStep DEF Local, dbVars, lockVars, instVars, otherVars, Past, Outer, DropPc, InsertLocked
  <2>2. t \notin Internal /\ (Alive(t)' \/ cont'[t] = "finish") => Alive(t) \/ cont[t] = "finish"
    BY <1>11, <1>0, PublishDroppedStep DEF Local, dbVars, lockVars, instVars, otherVars, Alive, Errand, Duty, DropPc, InsertLocked
  <2>3. Duty(t)'
    BY <1>11, <1>0, PublishDroppedStep DEF Local, dbVars, lockVars, instVars, otherVars, Duty, Past, Outer, Errand, DropPc, InsertLocked
  <2>4. /\ Local(t) /\ Still /\ UNCHANGED <<registered, unregs, cut>> /\ t = Core /\ rpcLock = None /\ pc[t] # "f_trig"
        /\ pc'[t] # "ann_unreg" /\ \A i \in Inst : triggered[i] => triggered'[i]
    BY <1>11, PublishDroppedStep DEF Local, dbVars, lockVars, instVars, otherVars, Still
  <2> QED BY <1>0, <2>1, <2>2, <2>3, <2>4, CalmAnnounce
<1> QED BY <1>1, <1>2, <1>3, <1>4, <1>5, <1>6, <1>7, <1>8, <1>9, <1>10, <1>11 DEF Owner, SendEnd

LEMMA NextAnnounce ==
  ASSUME Workers = 1, TypeOK, LockInv, CoreInv, Alone, TellInv, AnnounceInv, [Next]_vars
  PROVE  AnnounceInv'
<1>0. ErrandInv BY DEF TellInv
<1>1. ASSUME NEW t \in Inst, Insert(t) PROVE AnnounceInv' BY <1>0, <1>1, ActorIsAlone, InsertAnnounce
<1>2. ASSUME NEW t \in Inst, Drop(t) PROVE AnnounceInv' BY <1>0, <1>2, ActorIsAlone, DropAnnounce
<1>3. ASSUME NEW t \in Inst, Owner(t) PROVE AnnounceInv' BY <1>0, <1>3, ActorIsAlone, OwnerAnnounce
<1>4. ASSUME NEW n \in Kicked, ForceDisconnect(n) PROVE AnnounceInv'
  <2>1. /\ UNCHANGED <<registered, unregs, cut, pc, cur, parent, was, cont>>
        /\ \A i \in Inst : triggered[i] => triggered'[i]
        /\ Still
    BY <1>4 DEF ForceDisconnect, TypeOK, taskVars, otherVars, Still
  <2> QED BY <2>1, SameAnnounce
<1>5. CASE List
  BY <1>5, SameAnnounce DEF List, ListLock, ListCount, ListEnd, instVars, taskVars, otherVars, Still
<1>6. CASE UNCHANGED vars
  BY <1>6, SameAnnounce DEF vars, instVars, taskVars, otherVars, Still
<1>7. ASSUME NEW t \in Inst, AnnounceLock(t) PROVE AnnounceInv'
  BY <1>7, AnnounceLockStep, SameAnnounce DEF instVars, taskVars, Still, Publishing
<1> QED BY <1>1, <1>2, <1>3, <1>4, <1>5, <1>6, <1>7 DEF Next, Terminated

\* With one worker the end of a connection of a primary is announced once: by
\* the task that evicted it, or by its owner, and by nobody only if the
\* eviction was cancelled, or if the client was displaced or triggered.
THEOREM AnnouncesOnce ==
  ASSUME Workers = 1
  PROVE  Spec => []AnnouncedOnce
<1> DEFINE Inv == TypeOK /\ LockInv /\ CoreInv /\ Alone /\ TellInv /\ AnnounceInv
<1>1. Init => Inv
  <2>1. Init => TellInv
    BY DEF Init, TellInv, NoticeInv, ErrandInv, Notice, Errand, Alive, DropPc
  <2>2. Init => DutyInv
    BY DEF Init, DutyInv, Duty, Past, DropPc
  <2>3. Init => FreshInv /\ OnceInv
    BY DEF Init, FreshInv, OnceInv, Fresh, Once, Pends
  <2>4. Init => DueInv
    BY DEF Init, DueInv, Due, Alive, DropPc
  <2> QED BY <2>1, <2>2, <2>3, <2>4, InitType, InitLockInv, InitCore, InitIndex DEF AnnounceInv
<1>2. Inv /\ [Next]_vars => Inv'
  BY NextType, NextLockInv, NextCore, NextAlone, NextTell, NextAnnounce
<1>3. Inv => AnnouncedOnce
  <2> SUFFICES ASSUME Inv, Quiet, NEW i \in Inst \ Internal,
                      pc[i] = "done", cont[i] = "finish", Primary(i)
               PROVE  LET pending == {t \in Inst : pc[t] = "ann_unreg" /\ cur[t] = i
                                                       /\ (t = Core => rpcLock # None)}
                          count   == unregs[i] + Cardinality(pending) IN
                      /\ count <= 1
                      /\ cut[i] => count = 0
                      /\ ~cut[i] /\ ~triggered[i] => count = 1
    BY DEF AnnouncedOnce
  <2> DEFINE pending == {t \in Inst : pc[t] = "ann_unreg" /\ cur[t] = i
                                       /\ (t = Core => rpcLock # None)}
  <2>1. ~registered[i] /\ Once(i) /\ Due(i)
    BY DEF AnnounceInv, DutyInv, OnceInv, DueInv, Duty
  <2>2. \A u \in Inst : ~Clearing(u, i) /\ ~Triggering(u, i)
    BY DEF Quiet, Busy, Clearing, Past, Triggering, Section, LockInv, NestInv
  <2>3. \A u \in Inst : u \in pending <=> Pends(u, i)
    BY DEF Pends
  <2>4. CASE pending = {}
    <3>1. Cardinality(pending) = 0 BY <2>4, FS_EmptySet
    <3>2. \A u \in Inst : ~Pends(u, i) BY <2>3, <2>4
    <3>3. ~cut[i] /\ ~triggered[i] => unregs[i] = 1 BY <2>1, <2>2, <3>2 DEF Due
    <3> QED BY <2>1, <3>1, <3>3 DEF Once
  <2>5. CASE pending # {}
    <3>1. PICK u \in Inst : Pends(u, i) BY <2>3, <2>5
    <3>2. pending = {u} BY <2>1, <2>3, <3>1 DEF Once
    <3>3. Cardinality(pending) = 1 BY <3>2, FS_Singleton
    <3> QED BY <2>1, <3>1, <3>3 DEF Once
  <2> QED BY <2>4, <2>5
<1> HIDE DEF Inv
<1>4. Spec => []Inv
  BY <1>1, <1>2, PTL DEF Spec
<1> QED BY <1>3, <1>4, PTL

-----------------------------------------------------------------------------
(* The registry implements Names, with one worker and no                   *)
(* Client::unregister.  Between two awaits the names in clients differ from*)
(* those in view by what the task at work has done so far: it has taken    *)
(* out one client, or that client and some of its secondaries.  The step   *)
(* that ends in an await makes it whole.                                   *)

\* The names in clients are those in view.
Shown == \A n \in Name : clients[n] = view[n]

\* The owner of n in view has been taken out of clients, and with it clients
\* whose names fall free with n, and nobody else.
Lifted(n) ==
  /\ view[n] # None /\ clients[n] = None
  /\ \A m \in Name : clients[m] = view[m] \/ (clients[m] = None /\ m \in N!FreedWith(n))

\* The task displaces the owner of its name, from ForceRemove to InsertEnd.
Forced(t) == cont[t] = "force" /\ pc[t] \in DropPc \cup InsertLocked \cup {"f_trig", "ins_retry"}

\* The task has taken the client it drops out of clients.
Took(t) == view[name[Outer(t)]] = Outer(t) /\ Lifted(name[Outer(t)])

\* A displacement is under way, by a primary that may do so.
ForcedView(t) ==
  /\ pc[t] = "f_remove" => ForceRegister /\ Primary(t)
  /\ Forced(t) => ForceRegister /\ Primary(t) /\ Lifted(name[t])
  /\ Forced(t) /\ pc[t] \in DropPc => name[Outer(t)] = name[t]

\* Otherwise nothing has happened yet, or a client is being removed.
PlainView(t) ==
  ~Forced(t) =>
    /\ Shown \/ (Took(t) /\ pc[t] \in DropPc \cup {"u_end"})
    /\ pc[t] \in DropPc /\ (parent[t] # None \/ pc[t] \in Unlisted) => Took(t)

\* The recursion of drop_client stays with the secondaries of its primary.
NestedView(t) ==
  /\ pc[t] \in DropPc /\ parent[t] # None => name[cur[t]] \in N!FreedWith(name[parent[t]])
  /\ pc[t] \in DropPc /\ (parent[t] # None \/ pc[t] = "d_loop") =>
       todo[t] \subseteq N!FreedWith(name[Outer(t)])

ViewAt(t) == ForcedView(t) /\ PlainView(t) /\ NestedView(t)

\* Who is in view has been seen; who has been seen was inserted.
SeenInv ==
  /\ \A i \in Inst : view[name[i]] = i => i \in seen
  /\ \A i \in seen : Born(i)

\* A task that has not removed anybody yet was not called to.
NewInv == \A u \in Inst : pc[u] \in {"new", "f_remove"} => cont[u] = "none"

ViewInv ==
  /\ NewInv
  /\ view \in [Name -> Inst \cup {None}] /\ seen \subseteq Inst
  /\ SeenInv
  /\ Idle => Shown
  /\ \A t \in Inst : pc[t] \in Section => ViewAt(t)

\* What the observer does while the registry takes a step.
Watched ==
  /\ view' = IF Quiet' THEN clients' ELSE view
  /\ seen' = seen \cup {i \in Inst : view'[name[i]] = i}

\* If no secondary is listed without its primary, all names that fall free
\* with n are free when n is.
LEMMA FreedTogether ==
  ASSUME NEW c \in [Name -> Inst \cup {None}], NEW n \in Name, c[n] = None,
         \A m \in Name : c[m] # None => name[c[m]] = m,
         \A s \in Inst : c[name[s]] = s /\ ~Primary(s) => c[primary_name[s]] # None
  PROVE  \A m \in N!FreedWith(n) : c[m] = None
<1> SUFFICES ASSUME NEW s \in Inst, primary_name[s] = n, c[name[s]] # None PROVE FALSE
  BY DEF N!FreedWith
<1>1. PICK i \in Inst : i = c[name[s]]
  OBVIOUS
<1>2. name[i] = name[s] /\ primary_name[i] = n
  BY <1>1
<1>3. CASE Primary(i) BY <1>1, <1>2, <1>3 DEF Primary
<1>4. CASE ~Primary(i) BY <1>1, <1>2, <1>4
<1> QED BY <1>3, <1>4

\* The task that takes a step finds in clients what is in view, or what it has
\* left there.
LEMMA ViewBefore ==
  ASSUME ViewInv, NEW t \in Inst, Others(t)
  PROVE  ViewAt(t) /\ (pc[t] \notin Section => Shown)
<1>1. CASE pc[t] \in Section
  BY <1>1 DEF ViewInv
<1>2. CASE pc[t] \notin Section
  <2>1. Shown BY <1>2 DEF ViewInv, Idle, Others
  <2> QED BY <1>2, <2>1 DEF ViewAt, ForcedView, PlainView, NestedView, Forced, Section
<1> QED BY <1>1, <1>2

\* Between two awaits nothing is seen.
LEMMA Unseen ==
  ASSUME ViewInv, NEW t \in Inst, pc'[t] \in Section, Watched
  PROVE  UNCHANGED <<view, seen>>
<1>1. ~Quiet' BY DEF Quiet, Busy
<1>2. view' = view BY <1>1 DEF Watched
<1>3. seen' = seen BY <1>2 DEF Watched, ViewInv, SeenInv
<1> QED BY <1>2, <1>3

LEMMA ViewGoesOn ==
  ASSUME ViewInv, NEW t \in Inst, Others(t), Local(t), Watched,
         NewInv', pc'[t] \in Section, ViewAt(t)', \A i \in Inst : Born(i) => Born(i)'
  PROVE  ViewInv' /\ UNCHANGED <<view, seen>>
<1>1. UNCHANGED <<view, seen>> BY Unseen
<1>2. \A u \in Inst : u # t => pc'[u] \notin Section BY DEF Others, Local
<1>3. \A u \in Inst : pc'[u] \in Section => ViewAt(u)' BY <1>2
<1>4. ~Idle' BY DEF Idle
<1>5. SeenInv' BY <1>1 DEF ViewInv, SeenInv
<1> QED BY <1>1, <1>3, <1>4, <1>5 DEF ViewInv

\* At an await the view is the state of the registry.
LEMMA ViewSettles ==
  ASSUME TypeOK', LockInv', ViewInv, NEW t \in Inst, Others(t), Local(t), Watched,
         NewInv', pc'[t] \notin Section, clientsLock' # Lister, \A i \in Inst : Born(i) => Born(i)'
  PROVE  ViewInv' /\ view' = clients' /\ Idle'
<1>1. \A u \in Inst : pc'[u] \notin Section BY DEF Others, Local
<1>2. Quiet' /\ Idle' BY <1>1 DEF Quiet, Busy, Idle
<1>3. view' = clients' BY <1>2 DEF Watched
<1>4. view' \in [Name -> Inst \cup {None}] BY <1>3 DEF TypeOK
<1>5. seen' \subseteq Inst /\ \A i \in Inst : view'[name[i]] = i => i \in seen'
  BY DEF Watched, ViewInv
<1>6. ASSUME NEW i \in seen' PROVE Born(i)'
  <2>1. CASE i \in seen BY <2>1 DEF ViewInv, SeenInv
  <2>2. CASE i \notin seen
    <3>1. i \in Inst /\ clients'[name[i]] = i BY <1>3, <1>6, <2>2 DEF Watched
    <3>2. name[i] \in Name /\ i # None BY <3>1
    <3> QED BY <3>1, <3>2 DEF LockInv, BornInv
  <2> QED BY <2>1, <2>2
<1>7. Shown' BY <1>3 DEF Shown
<1> QED BY <1>1, <1>2, <1>3, <1>4, <1>5, <1>6, <1>7 DEF ViewInv, SeenInv

LEMMA NewKept ==
  ASSUME NewInv, NEW t \in Inst, Local(t), pc'[t] \in {"new", "f_remove"} => cont'[t] = "none"
  PROVE  NewInv'
BY DEF NewInv, Local

\* Nothing has happened to the names.
LEMMA ViewStutters ==
  ASSUME TypeOK, ViewInv, Watched, view' = clients', clients' = clients, Shown
  PROVE  UNCHANGED <<view, seen>>
<1>1. view' = view BY DEF TypeOK, ViewInv, Shown
<1>2. seen' = seen BY <1>1 DEF Watched, ViewInv, SeenInv
<1> QED BY <1>1, <1>2

\* A client has left with its secondaries.
LEMMA ViewLeaves ==
  ASSUME TypeOK, LockInv', LinkCalm', ViewInv, Watched, NEW t \in Inst,
         view' = clients', clients' = clients, Took(t)
  PROVE  N!LeaveName(Outer(t))
<1> DEFINE n == name[Outer(t)]
<1>1. /\ clients \in [Name -> Inst \cup {None}] /\ view \in [Name -> Inst \cup {None}]
      /\ Outer(t) \in Inst /\ n \in Name
  BY DEF TypeOK, ViewInv, Outer
<1>2. view[n] = Outer(t) /\ Lifted(n)
  BY DEF Took
<1>3. \A m \in N!FreedWith(n) : clients[m] = None
  <2>1. \A m \in Name : clients[m] # None => name[clients[m]] = m
    BY DEF LockInv, BornInv
  <2>2. \A s \in Inst : clients[name[s]] = s /\ ~Primary(s) => clients[primary_name[s]] # None
    BY DEF LinkCalm
  <2> HIDE DEF n
  <2> QED BY <1>1, <1>2, <2>1, <2>2, FreedTogether DEF Lifted
<1>4. clients = N!Without(n)
  <2> HIDE DEF n
  <2>1. ASSUME NEW m \in Name PROVE clients[m] = IF m \in N!FreedWith(n) THEN None ELSE view[m]
    BY <1>2, <1>3, <2>1 DEF Lifted
  <2> QED BY <1>1, <2>1 DEF N!Without
<1>5. seen' = seen
  <2>1. ASSUME NEW i \in Inst, clients[name[i]] = i PROVE view[name[i]] = i
    BY <1>2, <2>1 DEF Lifted
  <2> QED BY <2>1 DEF Watched, ViewInv, SeenInv
<1> QED BY <1>1, <1>2, <1>4, <1>5 DEF N!LeaveName

\* A client has entered, into a free name or in the place of another.
LEMMA ViewEnters ==
  ASSUME TypeOK, TypeOK', LockInv, LinkInv, IndexInv, ViewInv, Watched, NEW t \in Inst, Others(t),
         InsertEnd(t), view' = clients'
  PROVE  N!Register(t) \/ N!Displace(t)
<1>1. /\ clients \in [Name -> Inst \cup {None}] /\ clients' \in [Name -> Inst \cup {None}]
      /\ view \in [Name -> Inst \cup {None}] /\ seen \subseteq Inst
      /\ pc[t] = "ins_end" /\ clients[name[t]] = None
      /\ ~Primary(t) => clients[primary_name[t]] # None
  BY InsertEndStep, LinkBefore, IndexBefore
     DEF TypeOK, ViewInv, LinkAt, IndexAt, InsertLink, InsertWork, InsertLocked
<1>2. \A m \in Name : view'[m] = IF m = name[t] THEN t ELSE clients[m]
  BY InsertEndStep
<1>3. t \notin seen
  BY <1>1 DEF ViewInv, SeenInv, Born, InsertLocked
<1>4. \A i \in Inst : i # t /\ clients[name[i]] = i => view[name[i]] = i
  BY <1>1, ViewBefore DEF ViewAt, ForcedView, PlainView, Lifted, Shown, DropPc
<1>5. seen' = seen \cup {t}
  <2>1. ASSUME NEW i \in Inst PROVE view'[name[i]] = i <=> i = t \/ (i # t /\ clients[name[i]] = i)
    BY <1>1, <1>2, <2>1
  <2>2. \A i \in Inst : view'[name[i]] = i => i \in seen \cup {t}
    BY <1>4, <2>1 DEF ViewInv, SeenInv
  <2>3. view'[name[t]] = t BY <2>1
  <2> QED BY <1>1, <2>2, <2>3 DEF Watched
<1>6. CASE ~Forced(t)
  <2>1. Shown BY <1>1, <1>6, ViewBefore DEF ViewAt, PlainView, DropPc
  <2>2. view = clients BY <1>1, <2>1 DEF Shown
  <2>3. view' = [view EXCEPT ![name[t]] = t]
    BY <1>1, <1>2, <2>2
  <2>4. N!IsPrimary(t) \/ view[primary_name[t]] # None
    BY <1>1, <2>2 DEF N!IsPrimary, Primary
  <2>5. view[name[t]] = None BY <1>1, <2>2
  <2> QED BY <1>3, <1>5, <2>3, <2>4, <2>5 DEF N!Register
<1>7. CASE Forced(t)
  <2> DEFINE n == name[t]
  <2>1. n \in Name /\ ForceRegister /\ Primary(t) /\ Lifted(n)
    BY <1>7, ViewBefore DEF ViewAt, ForcedView
  <2>2. \A m \in N!FreedWith(n) : clients[m] = None
    <3>1. \A m \in Name : clients[m] # None => name[clients[m]] = m
      BY DEF LockInv, BornInv
    <3>2. \A s \in Inst : clients[name[s]] = s /\ ~Primary(s) => clients[primary_name[s]] # None
      BY <1>1, LinkBefore DEF LinkAt, HasPrimary, Dropping, DropPc
    <3> HIDE DEF n
    <3> QED BY <1>1, <2>1, <3>1, <3>2, FreedTogether DEF Lifted
  <2>3. ASSUME NEW m \in Name PROVE clients[m] = N!Without(n)[m]
    <3> HIDE DEF n
    <3> QED BY <2>1, <2>2, <2>3 DEF Lifted, N!Without
  <2>4. N!Without(n) \in [Name -> Inst \cup {None}]
    BY <1>1 DEF N!Without
  <2>5. view' = [N!Without(n) EXCEPT ![name[t]] = t]
    BY <1>1, <1>2, <2>3, <2>4
  <2> QED BY <1>3, <1>5, <2>1, <2>5 DEF N!Displace, N!IsPrimary, Primary, Lifted
<1> QED BY <1>6, <1>7

\* The places in drop_client before the client is taken out of clients.
Early == {"d_load", "d_store", "d_subs", "d_bcast", "d_clients"}

\* A step that leaves clients goes on with what the task was doing.
LEMMA ViewKept ==
  ASSUME NEW t \in Inst, ViewAt(t), Goes(t), UNCHANGED <<clients, view>>,
         \/ pc[t] \in Early /\ pc'[t] \in Early
         \/ pc[t] \in {"d_unlink_lock", "d_unlink"} /\ pc'[t] \in {"d_unlink_lock", "d_unlink"}
         \/ pc[t] \in InsertLocked \cup {"ins_retry"} /\ pc'[t] \in InsertLocked \cup {"ins_retry"}
  PROVE  ViewAt(t)'
<1> USE DEF Early, InsertLocked, DropPc, Unlisted, Goes
<1>0. /\ Forced(t) <=> Forced(t)'
      /\ Outer(t)' = Outer(t) /\ Shown' = Shown /\ \A n \in Name : Lifted(n)' = Lifted(n)
      /\ Took(t)' = Took(t)
  BY DEF Forced, Outer, Shown, Lifted, Took
<1>1. ForcedView(t)' BY <1>0 DEF ViewAt, ForcedView, Lifted
<1>2. PlainView(t)' BY <1>0 DEF ViewAt, PlainView
<1>3. NestedView(t)' BY <1>0 DEF ViewAt, NestedView
<1> QED BY <1>1, <1>2, <1>3 DEF ViewAt

\* drop_client returns: to its loop, to register_client, or to unregister_client
\* and its callers.
LEMMA ViewReturns ==
  ASSUME TypeOK, TypeOK', LockInv, LockInv', LinkInv', ViewInv, Watched, NEW t \in Inst, Others(t),
         pc[t] \in DropPc, Returns(t), clients' = clients, clientsLock' # Lister,
         \A i \in Inst : Born(i) => Born(i)'
  PROVE  ViewInv' /\ [N!NamesNext]_<<view, seen>>
<1>0. ViewAt(t) /\ Local(t) /\ Outer(t) \in Inst
  BY ViewBefore DEF Returns, TypeOK, Outer
<1>1. AfterDrop(t) \in {"f_trig", "done", "ann_unreg", "u_end"} /\ (AfterDrop(t) = "f_trig" <=> cont[t] = "force")
  BY DEF AfterDrop
<1>2. NewInv'
  BY <1>0, <1>1, NewKept DEF Returns, ViewInv
<1>3. CASE pc'[t] \in Section
  <2>1. UNCHANGED <<view, seen>> BY <1>3, Unseen
  <2>2. CASE parent[t] # None
    <3>1. pc'[t] = "d_loop" /\ cur'[t] = parent[t] /\ parent'[t] = None /\ todo'[t] = todo[t] /\ cont'[t] = cont[t]
      BY <2>2 DEF Returns
    <3>2. Outer(t)' = Outer(t) BY <2>2, <3>1 DEF Outer
    <3>3. ForcedView(t)'
      BY <1>0, <2>1, <3>1, <3>2 DEF ViewAt, ForcedView, Forced, Lifted, DropPc
    <3>4. PlainView(t)'
      BY <1>0, <2>1, <2>2, <3>1, <3>2 DEF ViewAt, PlainView, Forced, Took, Lifted, DropPc
    <3>5. NestedView(t)'
      BY <1>0, <2>2, <3>1, <3>2 DEF ViewAt, NestedView, DropPc
    <3> QED BY <1>0, <1>2, <1>3, <3>3, <3>4, <3>5, ViewGoesOn DEF ViewAt
  <2>3. CASE parent[t] = None
    <3>1. /\ pc'[t] \in {"f_trig", "u_end"} /\ (pc'[t] = "f_trig" <=> cont[t] = "force")
          /\ cur'[t] = cur[t] /\ parent'[t] = None /\ todo'[t] = todo[t] /\ cont'[t] = cont[t]
      BY <1>1, <1>3, <2>3 DEF Returns, Section, InsertLocked, DropPc
    <3>2. Outer(t)' = Outer(t) BY <2>3, <3>1 DEF Outer
    <3>3. ForcedView(t)'
      BY <1>0, <2>1, <3>1, <3>2 DEF ViewAt, ForcedView, Forced, Lifted, DropPc, InsertLocked
    <3>4. PlainView(t)'
      BY <1>0, <2>1, <2>3, <3>1, <3>2 DEF ViewAt, PlainView, Forced, Took, Lifted, Shown, DropPc, InsertLocked
    <3>5. NestedView(t)'
      BY <3>1 DEF NestedView, DropPc
    <3> QED BY <1>0, <1>2, <1>3, <3>3, <3>4, <3>5, ViewGoesOn DEF ViewAt
  <2> QED BY <2>2, <2>3
<1>4. CASE pc'[t] \notin Section
  <2>1. ViewInv' /\ view' = clients' /\ Idle' BY <1>0, <1>2, <1>4, ViewSettles
  <2>2. ~Forced(t) BY <1>1, <1>4 DEF Forced, Returns, Section, DropPc
  <2>3. CASE Shown BY <2>1, <2>3, ViewStutters
  <2>4. CASE Took(t)
    <3>1. LinkCalm' BY <2>1 DEF LinkInv
    <3> QED BY <1>0, <2>1, <2>4, <3>1, ViewLeaves DEF N!NamesNext
  <2> QED BY <1>0, <2>2, <2>3, <2>4 DEF ViewAt, PlainView
<1> QED BY <1>3, <1>4

LEMMA InsertView ==
  ASSUME TypeOK, TypeOK', LockInv, LockInv', IndexInv, LinkInv, ViewInv, Watched,
         NEW t \in Inst, Others(t), Insert(t)
  PROVE  ViewInv' /\ [N!NamesNext]_<<view, seen>>
<1> USE DEF dbVars, lockVars, instVars, otherVars
<1>0. /\ ViewAt(t) /\ NewInv /\ (pc[t] \notin Section => Shown) /\ clientsLock # Lister
      /\ clients \in [Name -> Inst \cup {None}] /\ view \in [Name -> Inst \cup {None}]
      /\ \A n \in Name : clients[n] # None => name[clients[n]] = n
      /\ parent[t] # None => pc[t] \in DropPc
      /\ pc[t] \in {"new", "f_remove"} => cont[t] = "none"
      /\ \A i \in Inst : Born(i) => Born(i)'
  BY ViewBefore, InsertBorn DEF TypeOK, LockInv, BornInv, NestInv, ViewInv, NewInv, Others
\* An attempt that ends, or has not begun to change anything, changes no name.
<1>a. ASSUME Goes(t), pc'[t] = "done", pc[t] \in {"new", "ins_retry"}, ~Forced(t), clients' = clients, UNCHANGED clientsLock
      PROVE  ViewInv' /\ [N!NamesNext]_<<view, seen>>
  <2>1. NewInv' BY <1>0, <1>a, NewKept DEF Goes
  <2>2. ViewInv' /\ view' = clients'
    BY <1>0, <1>a, <2>1, ViewSettles DEF Goes, Section, InsertLocked, DropPc
  <2>3. Shown BY <1>0, <1>a DEF ViewAt, PlainView, Section, InsertLocked, DropPc
  <2> QED BY <1>a, <2>2, <2>3, ViewStutters
<1>1. CASE InsertNoPrimary(t)
  <2>1. ~Forced(t)
    BY <1>0, <1>1, InsertNoPrimaryStep DEF ViewAt, ForcedView, PrimaryMissing
  <2> QED BY <1>1, <1>a, <2>1, InsertNoPrimaryStep DEF Moves
<1>2. CASE InsertBusy(t)
  <2>1. ~Forced(t)
    BY <1>0, <1>2, InsertBusyStep DEF ViewAt, ForcedView, Lifted
  <2>2. CASE Moves(t, "done")
    BY <1>2, <1>a, <2>1, <2>2, InsertBusyStep DEF Moves
  <2>3. CASE pc[t] = "new" /\ Primary(t) /\ ForceRegister /\ Moves(t, "f_remove")
    <3>1. /\ pc'[t] = "f_remove" /\ Local(t) /\ cont'[t] = "none" /\ clients' = clients
      BY <1>0, <1>2, <2>3, InsertBusyStep DEF Moves, Goes
    <3>2. NewInv' BY <1>0, <3>1, NewKept
    <3>3. pc'[t] \in Section BY <3>1 DEF Section
    <3>4. UNCHANGED <<view, seen>> BY <3>3, Unseen
    <3>5. Shown' BY <1>0, <2>3, <3>1, <3>4 DEF Shown, Section, InsertLocked, DropPc
    <3>6. ViewAt(t)'
      BY <2>3, <3>1, <3>5 DEF ViewAt, ForcedView, PlainView, NestedView, Forced, InsertLocked, DropPc
    <3> QED BY <1>0, <3>1, <3>2, <3>3, <3>6, ViewGoesOn
  <2> QED BY <1>2, <2>2, <2>3, InsertBusyStep
<1>3. CASE InsertLock(t)
  <2>1. /\ pc'[t] \in {"ins_bc", "ins_sec"} /\ Goes(t) /\ Local(t) /\ clients' = clients
        /\ pc[t] \in {"new", "ins_retry"}
    BY <1>3, InsertLockStep DEF Moves, Goes
  <2>2. NewInv' BY <1>0, <2>1, NewKept
  <2>3. pc'[t] \in Section BY <2>1 DEF Section, InsertLocked
  <2>4. UNCHANGED <<view, seen>> BY <2>3, Unseen
  <2>5. CASE pc[t] = "new"
    <3>1. Shown' BY <1>0, <2>1, <2>4, <2>5 DEF Shown, Section, InsertLocked, DropPc
    <3>2. cont'[t] = "none" BY <1>0, <2>1, <2>5 DEF Goes
    <3>3. ViewAt(t)'
      BY <2>1, <3>1, <3>2 DEF ViewAt, ForcedView, PlainView, NestedView, Forced, InsertLocked, DropPc
    <3> QED BY <1>0, <2>1, <2>2, <2>3, <3>3, ViewGoesOn
  <2>6. CASE pc[t] = "ins_retry"
    <3>1. ViewAt(t)' BY <1>0, <2>1, <2>4, <2>6, ViewKept DEF InsertLocked
    <3> QED BY <1>0, <2>1, <2>2, <2>3, <3>1, ViewGoesOn
  <2> QED BY <2>1, <2>5, <2>6
\* The steps of insert_client under the mutex.
<1>b. ASSUME Goes(t), pc[t] \in InsertLocked, pc'[t] \in InsertLocked, clients' = clients
      PROVE  ViewInv' /\ [N!NamesNext]_<<view, seen>>
  <2>1. Local(t) /\ pc'[t] \in Section BY <1>b DEF Goes, Section
  <2>2. UNCHANGED <<view, seen>> BY <2>1, Unseen
  <2>3. NewInv' BY <1>0, <1>b, <2>1, NewKept DEF InsertLocked
  <2>4. ViewAt(t)' BY <1>0, <1>b, <2>2, ViewKept
  <2> QED BY <1>0, <2>1, <2>3, <2>4, ViewGoesOn
<1>4. CASE InsertSecondary(t) BY <1>4, <1>b, InsertSecondaryStep DEF Moves, InsertLocked
<1>5. CASE InsertBroadcast(t) BY <1>5, <1>b, InsertBroadcastStep DEF Moves, InsertLocked
<1>6. CASE InsertSubscriptions(t) BY <1>6, <1>b, InsertSubscriptionsStep DEF Moves, InsertLocked
<1>7. CASE InsertEnd(t)
  <2>1. pc'[t] \in {"ann_reg", "run", "resp"} /\ Local(t) /\ clientsLock' = None
    BY <1>7, InsertEndStep DEF Goes
  <2>2. NewInv' BY <1>0, <2>1, NewKept
  <2>3. ViewInv' /\ view' = clients'
    BY <1>0, <2>1, <2>2, ViewSettles DEF Section, InsertLocked, DropPc
  <2>4. N!Register(t) \/ N!Displace(t)
    BY <1>7, <2>3, ViewEnters
  <2> QED BY <2>3, <2>4 DEF N!NamesNext
<1>8. CASE AnnounceReg(t)
  <2>1. /\ pc[t] = "ann_reg" /\ pc'[t] \in {"run", "resp"} /\ Local(t)
        /\ clients' = clients /\ clientsLock' = clientsLock
    BY <1>8, AnnounceRegStep DEF Goes
  <2>2. NewInv' BY <1>0, <2>1, NewKept
  <2>3. ViewInv' /\ view' = clients'
    BY <1>0, <2>1, <2>2, ViewSettles DEF Section, InsertLocked, DropPc
  <2>4. Shown BY <1>0, <2>1 DEF Section, InsertLocked, DropPc
  <2> QED BY <2>1, <2>3, <2>4, ViewStutters
<1>9. CASE ForceRemove(t)
  <2>1. /\ pc[t] = "f_remove" /\ pc'[t] = "d_load" /\ clients[name[t]] # None /\ Local(t)
        /\ cur'[t] = clients[name[t]] /\ cont'[t] = "force" /\ parent'[t] = None
        /\ \A n \in Name : clients'[n] = IF n = name[t] THEN None ELSE clients[n]
    BY <1>0, <1>9, ForceRemoveStep DEF DropPc
  <2>2. NewInv' BY <1>0, <2>1, NewKept
  <2>3. pc'[t] \in Section BY <2>1 DEF Section, DropPc
  <2>4. UNCHANGED <<view, seen>> BY <2>3, Unseen
  <2>5. ForceRegister /\ Primary(t) /\ Shown
    BY <1>0, <2>1 DEF ViewAt, ForcedView, PlainView, Forced, InsertLocked, DropPc
  <2>6. Lifted(name[t])'
    BY <1>0, <2>1, <2>4, <2>5 DEF Lifted, Shown, N!FreedWith
  <2>7. Outer(t)' = clients[name[t]] /\ name[Outer(t)'] = name[t]
    BY <1>0, <2>1 DEF Outer
  <2>8. ViewAt(t)'
    BY <2>1, <2>5, <2>6, <2>7 DEF ViewAt, ForcedView, PlainView, NestedView, Forced, DropPc
  <2> QED BY <1>0, <2>1, <2>2, <2>3, <2>8, ViewGoesOn
<1>10. CASE ForceVacant(t)
  <2>1. /\ pc[t] = "f_remove" /\ pc'[t] = "ins_retry" /\ Local(t) /\ cont'[t] = "none" /\ clients' = clients
    BY <1>0, <1>10, ForceVacantStep DEF Moves, Goes
  <2>2. NewInv' BY <1>0, <2>1, NewKept
  <2>3. pc'[t] \in Section BY <2>1 DEF Section
  <2>4. UNCHANGED <<view, seen>> BY <2>3, Unseen
  <2>5. Shown BY <1>0, <2>1 DEF ViewAt, PlainView, Forced, InsertLocked, DropPc
  <2>6. Shown' BY <2>1, <2>4, <2>5 DEF Shown
  <2>7. ViewAt(t)'
    BY <2>1, <2>6 DEF ViewAt, ForcedView, PlainView, NestedView, Forced, DropPc
  <2> QED BY <1>0, <2>1, <2>2, <2>3, <2>7, ViewGoesOn
<1>11. CASE ForceTrigger(t)
  <2>1. /\ pc[t] = "f_trig" /\ pc'[t] = "ins_retry" /\ Local(t) /\ cont'[t] = cont[t] /\ clients' = clients
    BY <1>0, <1>11, ForceTriggerStep
  <2>2. NewInv' BY <1>0, <2>1, NewKept
  <2>3. pc'[t] \in Section BY <2>1 DEF Section
  <2>4. UNCHANGED <<view, seen>> BY <2>3, Unseen
  <2>5. ForcedView(t)'
    BY <1>0, <2>1, <2>4 DEF ViewAt, ForcedView, Forced, Lifted, DropPc
  <2>6. PlainView(t)'
    BY <1>0, <2>1, <2>4 DEF ViewAt, PlainView, Forced, Shown, DropPc
  <2>7. NestedView(t)'
    BY <2>1 DEF NestedView, DropPc
  <2> QED BY <1>0, <2>1, <2>2, <2>3, <2>5, <2>6, <2>7, ViewGoesOn DEF ViewAt
<1> QED BY <1>1, <1>2, <1>3, <1>4, <1>5, <1>6, <1>7, <1>8, <1>9, <1>10, <1>11 DEF Insert

LEMMA DropView ==
  ASSUME TypeOK, TypeOK', LockInv, LockInv', IndexInv, LinkInv, LinkInv', ViewInv, Watched,
         NEW t \in Inst, Others(t), Drop(t)
  PROVE  ViewInv' /\ [N!NamesNext]_<<view, seen>>
<1> USE DEF dbVars, lockVars, instVars, otherVars
<1>0. /\ ViewAt(t) /\ NewInv /\ (pc[t] \notin Section => Shown) /\ clientsLock # Lister
      /\ clients \in [Name -> Inst \cup {None}] /\ view \in [Name -> Inst \cup {None}]
      /\ cur[t] \in Inst /\ parent[t] \in Inst \cup {None} /\ todo[t] \subseteq Name
      /\ \A n \in Name : clients[n] # None => name[clients[n]] = n
      /\ parent[t] # None => pc[t] \in DropPc /\ ~Primary(cur[t])
      /\ pc[t] \in {"d_sec", "d_loop"} => Primary(cur[t])
      /\ \A i \in Inst : Born(i) => Born(i)'
  BY ViewBefore, DropBorn DEF TypeOK, LockInv, BornInv, NestInv, ViewInv, Others
\* The steps of drop_client that leave clients.
<1>a. ASSUME Goes(t), clients' = clients,
             \/ pc[t] \in Early /\ pc'[t] \in Early
             \/ pc[t] \in {"d_unlink_lock", "d_unlink"} /\ pc'[t] \in {"d_unlink_lock", "d_unlink"}
      PROVE  ViewInv' /\ [N!NamesNext]_<<view, seen>>
  <2>1. Local(t) /\ pc'[t] \in Section BY <1>a DEF Goes, Section, DropPc, Early
  <2>2. UNCHANGED <<view, seen>> BY <2>1, Unseen
  <2>3. NewInv' BY <1>0, <1>a, <2>1, NewKept DEF Early
  <2>4. ViewAt(t)' BY <1>0, <1>a, <2>2, ViewKept
  <2> QED BY <1>0, <2>1, <2>3, <2>4, ViewGoesOn
<1>1. CASE DropLoad(t) BY <1>1, <1>a, DropLoadStep DEF Moves, Early
<1>2. CASE DropNotRegistered(t)
  BY <1>0, <1>2, DropNotRegisteredStep, ViewReturns DEF DropPc
<1>3. CASE DropStore(t) BY <1>3, <1>a, DropStoreStep DEF Moves, Early
<1>4. CASE DropSubscriptions(t) BY <1>4, <1>a, DropSubscriptionsStep DEF Moves, Early
<1>5. CASE DropBroadcast(t) BY <1>5, <1>a, DropBroadcastStep DEF Moves, Early
<1>6. CASE DropClients(t)
  <2>1. /\ pc[t] = "d_clients" /\ Goes(t) /\ Local(t) /\ pc'[t] \in {"d_sec", "d_unlink_lock"}
        /\ \A n \in Name : clients'[n] = IF n = name[cur[t]] THEN None ELSE clients[n]
    BY <1>6, DropClientsStep DEF Moves, Goes
  <2>2. NewInv' BY <1>0, <2>1, NewKept
  <2>3. pc'[t] \in Section BY <2>1 DEF Section, DropPc
  <2>4. UNCHANGED <<view, seen>> BY <2>3, Unseen
  <2>5. Outer(t)' = Outer(t) /\ (Forced(t)' <=> Forced(t)) BY <2>1 DEF Goes, Outer, Forced, DropPc
  \* What was lifted stays lifted.
  <2>6. ASSUME NEW n \in Name, Lifted(n), name[cur[t]] \in N!FreedWith(n) PROVE Lifted(n)'
    BY <1>0, <2>1, <2>4, <2>6 DEF Lifted
  <2>7. name[cur[t]] \in N!FreedWith(name[Outer(t)])
    BY <1>0, <2>1 DEF ViewAt, NestedView, Outer, N!FreedWith, DropPc
  <2>8. Forced(t) => Lifted(name[t])'
    <3> SUFFICES ASSUME Forced(t) PROVE Lifted(name[t])' OBVIOUS
    <3>1. Lifted(name[t]) /\ name[Outer(t)] = name[t]
      BY <1>0, <2>1 DEF ViewAt, ForcedView, DropPc
    <3> QED BY <2>6, <2>7, <3>1
  <2>9. ~Forced(t) => Took(t)'
    <3> SUFFICES ASSUME ~Forced(t) PROVE Took(t)' OBVIOUS
    <3>1. CASE parent[t] # None
      <4>1. Took(t) /\ name[Outer(t)] \in Name
        BY <1>0, <2>1, <3>1 DEF ViewAt, PlainView, Outer, DropPc
      <4> QED BY <2>4, <2>5, <2>6, <2>7, <4>1 DEF Took
    <3>2. CASE parent[t] = None
      <4>1. Outer(t) = cur[t] BY <3>2 DEF Outer
      <4>2. clients[name[cur[t]]] = cur[t]
        BY <2>1, <3>2, IndexBefore DEF IndexAt, DropWork, Displacing, Forced, DropPc
      <4>3. Shown
        BY <1>0, <4>1, <4>2 DEF ViewAt, PlainView, Took, Lifted
      <4>4. Lifted(name[cur[t]])'
        BY <1>0, <2>1, <2>4, <4>2, <4>3 DEF Lifted, Shown, N!FreedWith, Goes
      <4>5. view[name[cur[t]]] = cur[t] BY <1>0, <4>2, <4>3 DEF Shown
      <4> QED BY <2>4, <2>5, <4>1, <4>4, <4>5, <2>1 DEF Took, Goes
    <3> QED BY <3>1, <3>2
  <2>10. ForcedView(t)'
    BY <1>0, <2>1, <2>5, <2>8 DEF ViewAt, ForcedView, DropPc
  <2>11. PlainView(t)'
    BY <2>1, <2>5, <2>9 DEF PlainView, DropPc
  <2>12. NestedView(t)'
    BY <1>0, <2>1, <2>5 DEF ViewAt, NestedView, Goes, DropPc
  <2> QED BY <1>0, <2>1, <2>2, <2>3, <2>10, <2>11, <2>12, ViewGoesOn DEF ViewAt
\* The steps of the loop over the secondaries that stay in drop_client.
<1>b. ASSUME Local(t), pc[t] \in {"d_sec", "d_loop"}, pc'[t] \in {"d_loop", "d_load"}, clients' = clients,
             cont'[t] = cont[t], Outer(t)' = Outer(t), pc'[t] = "d_load" => parent'[t] # None, NestedView(t)'
      PROVE  ViewInv' /\ [N!NamesNext]_<<view, seen>>
  <2>1. pc'[t] \in Section BY <1>b DEF Section, DropPc
  <2>2. UNCHANGED <<view, seen>> BY <2>1, Unseen
  <2>3. NewInv' BY <1>0, <1>b, NewKept
  <2>4. ForcedView(t)'
    BY <1>0, <1>b, <2>2 DEF ViewAt, ForcedView, Forced, Lifted, DropPc
  <2>5. PlainView(t)'
    BY <1>0, <1>b, <2>2 DEF ViewAt, PlainView, Forced, Took, Lifted, DropPc, Unlisted
  <2> QED BY <1>0, <1>b, <2>1, <2>3, <2>4, <2>5, ViewGoesOn DEF ViewAt
<1>7. CASE DropLockSecondaries(t)
  <2>1. /\ pc[t] = "d_sec" /\ pc'[t] = "d_loop" /\ Local(t) /\ todo'[t] = secondaries[cur[t]]
        /\ cur'[t] = cur[t] /\ parent'[t] = parent[t] /\ cont'[t] = cont[t] /\ clients' = clients
    BY <1>7, DropLockSecondariesStep
  <2>2. parent[t] = None /\ Outer(t)' = cur[t] /\ Outer(t) = cur[t]
    BY <1>0, <2>1 DEF Outer
  <2>3. secondaries[cur[t]] \subseteq N!FreedWith(name[cur[t]])
    BY <1>0 DEF LinkInv, CountInv, Sec, N!FreedWith
  <2>4. NestedView(t)'
    BY <2>1, <2>2, <2>3 DEF NestedView
  <2> QED BY <1>b, <2>1, <2>2, <2>4
<1>8. CASE DropNextSecondary(t)
  <2>1. /\ pc[t] = "d_loop" /\ pc'[t] = "d_load" /\ Local(t) /\ cont'[t] = cont[t] /\ parent'[t] = cur[t]
        /\ clients' = clients
    BY <1>8, DropNextSecondaryStep
  <2>2. PICK n \in todo[t] : clients[n] # None /\ cur'[t] = clients[n] /\ todo'[t] = todo[t] \ {n}
    BY <1>8, DropNextSecondaryStep
  <2>3. parent[t] = None /\ Outer(t)' = cur[t] /\ Outer(t) = cur[t]
    BY <1>0, <2>1 DEF Outer
  <2>4. todo[t] \subseteq N!FreedWith(name[cur[t]])
    BY <1>0, <2>1, <2>3 DEF ViewAt, NestedView, DropPc
  <2>5. name[cur'[t]] = n BY <1>0, <2>2
  <2>6. NestedView(t)'
    BY <2>1, <2>2, <2>3, <2>4, <2>5 DEF NestedView
  <2>7. parent'[t] # None BY <1>0, <2>1
  <2> QED BY <1>b, <2>1, <2>3, <2>6, <2>7
<1>9. CASE DropMissingSecondary(t)
  <2>1. /\ pc[t] = "d_loop" /\ pc'[t] = "d_loop" /\ Local(t) /\ cont'[t] = cont[t] /\ parent'[t] = parent[t]
        /\ cur'[t] = cur[t] /\ clients' = clients /\ todo'[t] \subseteq todo[t]
    BY <1>9, DropMissingSecondaryStep
  <2>2. Outer(t)' = Outer(t) BY <2>1 DEF Outer
  <2>3. NestedView(t)'
    BY <1>0, <2>1, <2>2 DEF ViewAt, NestedView, DropPc
  <2> QED BY <1>b, <2>1, <2>2, <2>3
<1>10. CASE DropSecondariesEnd(t)
  BY <1>0, <1>10, DropSecondariesEndStep, ViewReturns DEF DropPc
<1>11. CASE DropUnlinkLock(t) BY <1>11, <1>a, DropUnlinkLockStep DEF Moves
<1>12. CASE DropNoPrimary(t)
  BY <1>0, <1>12, DropNoPrimaryStep, ViewReturns DEF DropPc
<1>13. CASE DropUnlink(t)
  BY <1>0, <1>13, DropUnlinkStep, ViewReturns DEF DropPc
<1>14. CASE AnnounceUnreg(t)
  <2>1. pc[t] = "ann_unreg" /\ pc'[t] = "u_end" /\ Local(t) /\ clients' = clients
    BY <1>14, AnnounceUnregStep DEF Moves, Goes
  <2>2. NewInv' BY <1>0, <2>1, NewKept
  <2>3. pc'[t] \in Section BY <2>1 DEF Section
  <2>4. UNCHANGED <<view, seen>> BY <2>3, Unseen
  <2>5. Shown' BY <1>0, <2>1, <2>4 DEF Shown, Section, InsertLocked, DropPc
  <2>6. ViewAt(t)'
    BY <2>1, <2>5 DEF ViewAt, ForcedView, PlainView, NestedView, Forced, DropPc, InsertLocked
  <2> QED BY <1>0, <2>1, <2>2, <2>3, <2>6, ViewGoesOn
<1>15. CASE UnregisterEnd(t)
  <2>1. /\ pc[t] = "u_end" /\ pc'[t] \in {"done", "run"} /\ Local(t)
        /\ clients' = clients /\ clientsLock' = clientsLock
    BY <1>15, UnregisterEndStep
  <2>2. NewInv' BY <1>0, <2>1, NewKept
  <2>3. ViewInv' /\ view' = clients' /\ Idle'
    BY <1>0, <2>1, <2>2, ViewSettles DEF Section, InsertLocked, DropPc
  <2>4. Shown \/ Took(t)
    BY <1>0, <2>1 DEF ViewAt, PlainView, Forced, DropPc, InsertLocked
  <2>5. CASE Shown BY <2>1, <2>3, <2>5, ViewStutters
  <2>6. CASE Took(t)
    <3>1. LinkCalm' /\ Outer(t) \in Inst BY <1>0, <2>3 DEF LinkInv, Outer
    <3> QED BY <2>1, <2>3, <2>6, <3>1, ViewLeaves DEF N!NamesNext
  <2> QED BY <2>4, <2>5, <2>6
<1> QED BY <1>1, <1>2, <1>3, <1>4, <1>5, <1>6, <1>7, <1>8, <1>9, <1>10, <1>11, <1>12, <1>13, <1>14, <1>15 DEF Drop

LEMMA OwnerView ==
  ASSUME TypeOK, TypeOK', LockInv, LockInv', ViewInv, Watched, MayUnregister = {},
         NEW t \in Inst, Others(t), Owner(t)
  PROVE  ViewInv' /\ [N!NamesNext]_<<view, seen>>
<1> USE DEF dbVars, lockVars, instVars, otherVars
<1>0. /\ NewInv /\ (pc[t] \notin Section => Shown) /\ clientsLock # Lister
      /\ parent[t] # None => pc[t] \in DropPc
      /\ \A i \in Inst : Born(i) => Born(i)'
  BY ViewBefore, OwnerBorn DEF LockInv, NestInv, ViewInv, Others
\* The owner calls drop_client, or unregister_client.
<1>a. ASSUME pc[t] \in Waiting, pc'[t] = "d_load", Local(t), clients' = clients,
             parent'[t] = parent[t], cont'[t] # "force"
      PROVE  ViewInv' /\ [N!NamesNext]_<<view, seen>>
  <2>1. pc'[t] \in Section BY <1>a DEF Section, DropPc
  <2>2. NewInv' BY <1>0, <1>a, NewKept
  <2>3. UNCHANGED <<view, seen>> BY <2>1, Unseen
  <2>4. Shown' BY <1>0, <1>a, <2>3 DEF Shown, Waiting, Section, InsertLocked, DropPc
  <2>5. parent'[t] = None BY <1>0, <1>a DEF Waiting, DropPc
  <2>6. ViewAt(t)'
    BY <1>a, <2>4, <2>5 DEF ViewAt, ForcedView, PlainView, NestedView, Forced, Unlisted
  <2> QED BY <1>0, <1>a, <2>1, <2>2, <2>6, ViewGoesOn
\* The owner does something else.
<1>b. ASSUME pc[t] \in Waiting, pc'[t] \in Waiting \cup Ended, pc'[t] # "new", Local(t),
             clients' = clients, clientsLock' = clientsLock
      PROVE  ViewInv' /\ [N!NamesNext]_<<view, seen>>
  <2>1. NewInv' BY <1>0, <1>b, NewKept DEF Waiting, Ended
  <2>2. ViewInv' /\ view' = clients'
    BY <1>0, <1>b, <2>1, ViewSettles DEF Waiting, Ended, Section, InsertLocked, DropPc
  <2>3. Shown BY <1>0, <1>b DEF Waiting, Section, InsertLocked, DropPc
  <2> QED BY <1>b, <2>2, <2>3, ViewStutters
<1>1. CASE RespondOk(t) BY <1>1, <1>b, RespondOkStep DEF Moves, Goes, Waiting
<1>2. CASE RespondFail(t) BY <1>2, <1>b, RespondFailStep DEF Moves, Goes, Waiting, Ended
<1>3. CASE Disconnect(t) BY <1>3, <1>a, DisconnectStep DEF Calls, Waiting
<1>4. CASE BrokerUnregister(t) BY <1>4, <1>a, BrokerUnregisterStep DEF Calls, Waiting
<1>5. CASE ClientUnregister(t) BY <1>5 DEF ClientUnregister
<1>6. CASE ClientDrop(t) BY <1>6, <1>a, ClientDropStep DEF Waiting
<1>7. CASE Lookup(t) BY <1>7, <1>b, LookupStep DEF Waiting
<1>8. CASE SendEnd(t) /\ pc[t] = "sending" BY <1>8, <1>b, SendEndStep DEF Waiting
<1>9. CASE Evict(t) BY <1>9, <1>a, EvictStep DEF Calls, Waiting
<1>10. ASSUME NEW x \in Topic, Subscribe(t, x) \/ Unsubscribe(t, x)
       PROVE  ViewInv' /\ [N!NamesNext]_<<view, seen>>
  <2>1. pc[t] = "run" /\ pc' = pc /\ Local(t) /\ clients' = clients /\ clientsLock' = clientsLock
    BY <1>10 DEF Subscribe, Unsubscribe, taskVars, Local
  <2> QED BY <1>b, <2>1 DEF Waiting
<1>11. CASE SendEnd(t) /\ PublishDropped(t) BY <1>11, <1>b, PublishDroppedStep DEF Waiting
<1> QED BY <1>1, <1>2, <1>3, <1>4, <1>5, <1>6, <1>7, <1>8, <1>9, <1>10, <1>11 DEF Owner, SendEnd

\* A step that leaves clients and the tasks leaves the view.
LEMMA SameView ==
  ASSUME TypeOK, ViewInv, Watched \/ UNCHANGED <<view, seen>>, UNCHANGED <<clients, taskVars>>
  PROVE  ViewInv' /\ UNCHANGED <<view, seen>>
<1>1. UNCHANGED <<view, seen>>
  <2>1. CASE UNCHANGED <<view, seen>> BY <2>1
  <2>2. CASE Watched
    <3>1. CASE Quiet'
      <4>1. Idle BY <3>1 DEF Quiet, Busy, Idle, taskVars
      <4>2. Shown BY <4>1 DEF ViewInv
      <4> QED BY <2>2, <3>1, <4>2, ViewStutters DEF Watched
    <3>2. CASE ~Quiet'
      <4>1. view' = view BY <2>2, <3>2 DEF Watched
      <4>2. seen' = seen BY <2>2, <4>1 DEF Watched, ViewInv, SeenInv
      <4> QED BY <4>1, <4>2
    <3> QED BY <3>1, <3>2
  <2> QED BY <2>1, <2>2
<1>2. \A t \in Inst : ViewAt(t) => ViewAt(t)'
  BY <1>1 DEF ViewAt, ForcedView, PlainView, NestedView, Forced, Took, Lifted, Shown, Outer, taskVars
<1>3. (Idle => Shown) => (Idle' => Shown')
  BY <1>1 DEF Idle, Shown, taskVars
<1>4. SeenInv' /\ NewInv'
  BY <1>1 DEF ViewInv, SeenInv, NewInv, Born, taskVars
<1> QED BY <1>1, <1>2, <1>3, <1>4 DEF ViewInv, taskVars

LEMMA NextView ==
  ASSUME TypeOK, LockInv, Alone, IndexInv, LinkInv, ViewInv, Workers = 1, MayUnregister = {},
         [ViewNext]_viewVars
  PROVE  ViewInv' /\ [N!NamesNext]_<<view, seen>>
<1>0. [Next]_vars /\ (Watched \/ (UNCHANGED vars /\ UNCHANGED <<view, seen>>))
  BY DEF ViewNext, viewVars, Watched
<1>1. TypeOK' /\ LockInv' BY <1>0, NextType, NextLockInv
<1>2. LinkInv' BY <1>0, NextLink
<1>3. CASE UNCHANGED vars
  BY <1>0, <1>3, SameView DEF vars, dbVars
<1>4. CASE Next /\ Watched
  <2>1. ASSUME NEW t \in Inst, Insert(t) PROVE ViewInv' /\ [N!NamesNext]_<<view, seen>>
    BY <1>1, <1>4, <2>1, ActorIsAlone, InsertView
  <2>2. ASSUME NEW t \in Inst, Drop(t) PROVE ViewInv' /\ [N!NamesNext]_<<view, seen>>
    BY <1>1, <1>2, <1>4, <2>2, ActorIsAlone, DropView
  <2>3. ASSUME NEW t \in Inst, Owner(t) PROVE ViewInv' /\ [N!NamesNext]_<<view, seen>>
    BY <1>1, <1>4, <2>3, ActorIsAlone, OwnerView
  <2>4. ASSUME NEW n \in Kicked, ForceDisconnect(n) PROVE ViewInv' /\ [N!NamesNext]_<<view, seen>>
    BY <1>4, <2>4, SameView DEF ForceDisconnect, dbVars
  <2>5. CASE List
    BY <1>4, <2>5, SameView DEF List, ListLock, ListCount, ListEnd, dbVars
  <2>6. CASE Terminated
    BY <1>4, <2>6, SameView DEF Terminated, vars, dbVars
  <2>7. ASSUME NEW t \in Inst, AnnounceLock(t) PROVE ViewInv' /\ [N!NamesNext]_<<view, seen>>
    BY <1>4, <2>7, SameView DEF AnnounceLock, dbVars
  <2> QED BY <1>4, <2>1, <2>2, <2>3, <2>4, <2>5, <2>6, <2>7 DEF Next
<1> QED BY <1>0, <1>3, <1>4

\* With one worker and no Client::unregister the registry implements Names: what
\* a task does between two awaits is the registration of one client, the
\* displacement of one, or the removal of one with its secondaries, or nothing.
THEOREM NamesImplemented ==
  ASSUME Workers = 1, MayUnregister = {}
  PROVE  ViewSpec => ImplementsNames
<1> DEFINE Inv == TypeOK /\ LockInv /\ Alone /\ IndexInv /\ LinkInv
<1>1. ViewInit => Inv /\ ViewInv
  <2> SUFFICES ASSUME ViewInit PROVE Inv /\ ViewInv
    OBVIOUS
  <2>0. Init BY DEF ViewInit
  <2>1. LinkInv
    BY <2>0 DEF Init, LinkInv, CountInv, KindInv, Kind, Idle, LinkCalm, Section, InsertLocked, DropPc
  <2>2. ViewInv
    BY DEF ViewInit, Init, ViewInv, NewInv, SeenInv, Shown, Section, InsertLocked, DropPc
  <2> QED BY <2>0, <2>1, <2>2, InitType, InitLockInv, InitIndex
<1>2. ViewInit => N!NamesInit
  BY DEF ViewInit, Init, N!NamesInit
<1>3. Inv /\ ViewInv /\ [ViewNext]_viewVars => Inv' /\ ViewInv' /\ [N!NamesNext]_<<view, seen>>
  <2> SUFFICES ASSUME Inv, ViewInv, [ViewNext]_viewVars
               PROVE  Inv' /\ ViewInv' /\ [N!NamesNext]_<<view, seen>>
    OBVIOUS
  <2>1. [Next]_vars BY DEF ViewNext, viewVars
  <2>2. Inv' BY <2>1, NextType, NextLockInv, NextAlone, NextIndex, NextLink
  <2>3. ViewInv' /\ [N!NamesNext]_<<view, seen>> BY NextView
  <2> QED BY <2>2, <2>3
<1> QED BY <1>1, <1>2, <1>3, PTL DEF ViewSpec, ImplementsNames, N!NamesSpec
=============================================================================
