------------------------------ MODULE Registry ------------------------------
(***************************************************************************)
(* The client registry of the BUS/RT broker: BrokerDb of src/broker.rs,    *)
(* the tasks that register, evict, disconnect and drop clients, and the    *)
(* mutexes they take.                                                      *)
(*                                                                         *)
(* An element of Inst is one BusRtClient (one Arc): one connection, or one *)
(* in-process Client.  Several instances may carry the same name: a client *)
(* that reconnects, or a duplicate.  Every instance has one owner task: the*)
(* task of handle_peer for a connection, the code that holds the Client    *)
(* for an internal client.  Tasks are named by the instance they own.      *)
(*                                                                         *)
(* One action is one access to shared state: a mutex-protected section is  *)
(* split where it takes another mutex, so that two tasks interleave as     *)
(* they do on two threads.  Workers is the number of tokio worker threads: *)
(* at most that many tasks are between two awaits at any time.  With       *)
(* Workers = 1 the code between two awaits runs alone.                     *)
(***************************************************************************)
EXTENDS Naturals, FiniteSets

CONSTANTS
  Inst,           \* client instances (BusRtClient)
  Name,           \* client names
  name,           \* BusRtClient.name: [Inst -> Name]
  primary_name,   \* BusRtClient.primary_name: the name up to "%%"
  Internal,       \* the instances of kind BusRtClientKind::Internal
  MayUnregister,  \* internal clients whose owner calls Client::unregister
  Senders,        \* clients that send messages, and so may evict receivers
  Kicked,         \* names force_disconnect is called for
  Listing,        \* whether client.list is called
  ForceRegister,  \* BrokerDb.force_register
  Topic,          \* topics clients subscribe to, besides BROKER_WARN_TOPIC
  Workers,        \* tokio worker threads
  Lister,         \* the task of the core RPC that serves "client.list"
  Core,           \* the core RPC client, which publishes the announces, or None
  None            \* no client, no lock holder

WarnTopic == "BROKER_WARN_TOPIC"
InfoTopic == "BROKER_INFO_TOPIC"   \* the topic of the reg and unreg announces
Topics == Topic \cup {WarnTopic}

\* BusRtClient::new: let primary = name == primary_name
Primary(i) == name[i] = primary_name[i]

ASSUME InstAssumption ==
  /\ None \notin Inst
  /\ Lister \notin Inst \cup {None}
ASSUME NameAssumption ==
  /\ name \in [Inst -> Name]
  /\ primary_name \in [Inst -> Name]
  \* the primary name of a client holds no separator: it is a primary's name
  /\ \A i, j \in Inst : name[j] = primary_name[i] => Primary(j)
  \* the primary name is a function of the name
  /\ \A i, j \in Inst : name[i] = name[j] => primary_name[i] = primary_name[j]
ASSUME KindAssumption ==
  /\ Internal \subseteq Inst
  /\ MayUnregister \subseteq Internal
  /\ Senders \subseteq Inst
  /\ Kicked \subseteq Name
  /\ Listing \in BOOLEAN
  /\ ForceRegister \in BOOLEAN
ASSUME CoreAssumption == Core \in Internal \cup {None} /\ Core \notin MayUnregister
ASSUME WorkersAssumption == Workers \in Nat \ {0}

VARIABLES
  clients,      \* BrokerDb.clients: the instance listed under a name
  broadcasts,   \* BrokerDb.broadcasts: the instance broadcasts to a name reach
  subreg,       \* BrokerDb.subscriptions: the names registered in the map
  subs,         \* BrokerDb.subscriptions: the instance a topic holds for a name
  clientsLock,  \* holder of the mutex of BrokerDb.clients
  registered,   \* BusRtClient.registered
  secondaries,  \* BusRtClient.secondaries: names
  secLock,      \* holder of the mutex of BusRtClient.secondaries
  triggered,    \* BusRtClient.disconnect_trig has been triggered
  closed,       \* BusRtClient.tx has been closed by an eviction
  pc,           \* where the owner task of an instance is
  cur,          \* the client the task is dropping, or is about to send to
  parent,       \* the primary whose secondaries the task is dropping
  todo,         \* names of secondaries of that primary still to be dropped
  was,          \* was_registered in unregister_client
  cont,         \* who called drop_client
  rpcLock,      \* whose announce holds the mutex of BrokerDb.rpc_client
  listing,      \* primaries whose secondaries client_list has still to count
  unregs,       \* history: number of "unreg" announces published for a client
  cut           \* history: an eviction of the client was cancelled half-way

dbVars    == <<clients, broadcasts, subreg, subs>>
lockVars  == <<clientsLock, secLock>>
instVars  == <<registered, secondaries, triggered, closed>>
taskVars  == <<pc, cur, parent, todo, was, cont>>
otherVars == <<rpcLock, listing, unregs, cut>>
vars == <<dbVars, lockVars, instVars, taskVars, otherVars>>

-----------------------------------------------------------------------------
(* Program counters.  The values in Section lie between two awaits. *)

InsertLocked == {"ins_sec", "ins_bc", "ins_sub", "ins_end"}
DropPc  == {"d_load", "d_store", "d_subs", "d_bcast", "d_clients", "d_sec",
            "d_loop", "d_unlink_lock", "d_unlink"}
Section == InsertLocked \cup DropPc
             \cup {"ins_retry", "f_remove", "f_trig", "u_end"}
Waiting == {"new", "ann_reg", "resp", "run", "sending", "ann_unreg"}
Ended   == {"done", "zombie"}
PcValues == Section \cup Waiting \cup Ended

Busy == {t \in Inst : pc[t] \in Section}
          \cup (IF clientsLock = Lister THEN {Lister} ELSE {})
Room == Cardinality(Busy) < Workers
\* A worker thread runs t now, or is free to take it up.
Enter(t) == pc[t] \in Section \/ Room

Goto(t, l) == pc' = [pc EXCEPT ![t] = l]
\* The locals of a call that has returned are gone.
Forget(t) == cur' = [cur EXCEPT ![t] = t] /\ was' = [was EXCEPT ![t] = FALSE]

TypeOK ==
  /\ clients \in [Name -> Inst \cup {None}]
  /\ broadcasts \in [Name -> Inst \cup {None}]
  /\ subreg \subseteq Name
  /\ subs \in [Name -> [Topics -> Inst \cup {None}]]
  /\ clientsLock \in Inst \cup {None, Lister}
  /\ registered \in [Inst -> BOOLEAN]
  /\ secondaries \in [Inst -> SUBSET Name]
  /\ secLock \in [Inst -> Inst \cup {None}]
  /\ triggered \in [Inst -> BOOLEAN]
  /\ closed \in [Inst -> BOOLEAN]
  /\ pc \in [Inst -> PcValues]
  /\ cur \in [Inst -> Inst]
  /\ parent \in [Inst -> Inst \cup {None}]
  /\ todo \in [Inst -> SUBSET Name]
  /\ was \in [Inst -> BOOLEAN]
  /\ cont \in [Inst -> {"none", "force", "finish", "evict", "api", "drop"}]
  /\ rpcLock \in Inst \cup {None}
  /\ listing \subseteq Inst
  /\ unregs \in [Inst -> Nat]
  /\ cut \in [Inst -> BOOLEAN]

Init ==
  /\ clients = [n \in Name |-> None]
  /\ broadcasts = [n \in Name |-> None]
  /\ subreg = {}
  /\ subs = [n \in Name |-> [x \in Topics |-> None]]
  /\ clientsLock = None
  /\ registered = [i \in Inst |-> FALSE]
  /\ secondaries = [i \in Inst |-> {}]
  /\ secLock = [i \in Inst |-> None]
  /\ triggered = [i \in Inst |-> FALSE]
  /\ closed = [i \in Inst |-> FALSE]
  /\ pc = [i \in Inst |-> "new"]
  /\ cur = [i \in Inst |-> i]
  /\ parent = [i \in Inst |-> None]
  /\ todo = [i \in Inst |-> {}]
  /\ was = [i \in Inst |-> FALSE]
  /\ cont = [i \in Inst |-> "none"]
  /\ rpcLock = None
  /\ listing = {}
  /\ unregs = [i \in Inst |-> 0]
  /\ cut = [i \in Inst |-> FALSE]

-----------------------------------------------------------------------------
(* The maps of the submap crate.  They compare clients by the digest of    *)
(* the name, so an entry equal to the one being added is kept as it is.    *)

BroadcastRegister(n, i) ==
  broadcasts' = [broadcasts EXCEPT ![n] = IF @ = None THEN i ELSE @]

BroadcastUnregister(n) ==
  broadcasts' = [broadcasts EXCEPT ![n] = None]

\* The subscribers of name n after a subscription of i to topic x.
SubscribeIn(f, x, i) ==
  [f EXCEPT ![x] = IF @ = None THEN i ELSE @]

SubUnregister(n) ==
  /\ subreg' = subreg \ {n}
  /\ subs' = [subs EXCEPT ![n] = [x \in Topics |-> None]]

-----------------------------------------------------------------------------
(* register_client and insert_client.                                      *)

PrimaryMissing(t) == ~Primary(t) /\ clients[primary_name[t]] = None

\* The core client is registered and set before there are other clients.
Started == Core # None => pc[Core] \notin InsertLocked \cup {"new", "ann_reg"}

AtInsert(t) ==
  /\ pc[t] \in {"new", "ins_retry"}
  /\ Enter(t)
  /\ clientsLock = None
  /\ t = Core \/ Started

\* A secondary whose primary is not registered: Error::not_registered.
InsertNoPrimary(t) ==
  /\ AtInsert(t)
  /\ PrimaryMissing(t)
  /\ Goto(t, "done")
  /\ UNCHANGED <<dbVars, lockVars, instVars, cur, parent, todo, was, cont, otherVars>>

\* The name is taken: Error::busy, or, for the first attempt of a primary
\* under force_register, the previous instance is removed.
InsertBusy(t) ==
  /\ AtInsert(t)
  /\ ~PrimaryMissing(t)
  /\ clients[name[t]] # None
  /\ Goto(t, IF pc[t] = "new" /\ Primary(t) /\ ForceRegister THEN "f_remove" ELSE "done")
  /\ UNCHANGED <<dbVars, lockVars, instVars, cur, parent, todo, was, cont, otherVars>>

\* The name is vacant: the mutex of clients is held until InsertEnd.
InsertLock(t) ==
  /\ AtInsert(t)
  /\ ~PrimaryMissing(t)
  /\ clients[name[t]] = None
  /\ clientsLock' = t
  /\ Goto(t, IF Primary(t) THEN "ins_bc" ELSE "ins_sec")
  /\ UNCHANGED <<dbVars, secLock, instVars, cur, parent, todo, was, cont, otherVars>>

\* pc.secondaries.lock().insert(client.name.clone())
InsertSecondary(t) ==
  LET p == clients[primary_name[t]] IN
  /\ pc[t] = "ins_sec"
  /\ secLock[p] = None
  /\ secondaries' = [secondaries EXCEPT ![p] = @ \cup {name[t]}]
  /\ Goto(t, "ins_bc")
  /\ UNCHANGED <<dbVars, lockVars, registered, triggered, closed, cur, parent, todo, was, cont, otherVars>>

InsertBroadcast(t) ==
  /\ pc[t] = "ins_bc"
  /\ BroadcastRegister(name[t], t)
  /\ Goto(t, "ins_sub")
  /\ UNCHANGED <<clients, subreg, subs, lockVars, instVars, cur, parent, todo, was, cont, otherVars>>

InsertSubscriptions(t) ==
  /\ pc[t] = "ins_sub"
  /\ subreg' = subreg \cup {name[t]}
  /\ subs' = [subs EXCEPT ![name[t]] = SubscribeIn(@, WarnTopic, t)]
  /\ Goto(t, "ins_end")
  /\ UNCHANGED <<clients, broadcasts, lockVars, instVars, cur, parent, todo, was, cont, otherVars>>

AfterRegister(t) == IF t \in Internal THEN "run" ELSE "resp"

\* mutant: the flag is not set
InsertEndUnflagged(t) ==
  /\ pc[t] = "ins_end"
  /\ clients' = [clients EXCEPT ![name[t]] = t]
  /\ clientsLock' = None
  /\ Goto(t, IF Primary(t) THEN "ann_reg" ELSE AfterRegister(t))
  /\ UNCHANGED <<broadcasts, subreg, subs, secLock, instVars, cur, parent, todo, was, cont, otherVars>>

InsertEnd(t) ==
  /\ pc[t] = "ins_end"
  /\ registered' = [registered EXCEPT ![t] = TRUE]
  /\ clients' = [clients EXCEPT ![name[t]] = t]
  /\ clientsLock' = None
  /\ Goto(t, IF Primary(t) THEN "ann_reg" ELSE AfterRegister(t))
  /\ UNCHANGED <<broadcasts, subreg, subs, secLock, secondaries, triggered, closed, cur, parent, todo, was, cont, otherVars>>

\* The core client is in the publish! of an announce, whichever task has asked
\* for it: it sends to a subscriber, or evicts one whose queue is full.
Publishing ==
  Core # None /\ pc[Core] \in DropPc \cup {"sending", "ann_unreg", "u_end"}

\* self.rpc_client.lock().await, in announce.  The guard is kept while the core
\* client publishes; there is no timeout.
AnnounceLock(t) ==
  /\ pc[t] \in {"ann_reg", "ann_unreg"}
  /\ Room
  /\ rpcLock = None
  /\ ~Publishing
  /\ rpcLock' = t
  /\ UNCHANGED <<dbVars, lockVars, instVars, taskVars, listing, unregs, cut>>

\* The publish! of the announce of t is over: the guard is released.
AnnounceUnlock(t) ==
  /\ Room
  /\ rpcLock = t
  /\ ~Publishing
  /\ rpcLock' = None

\* The "reg" announce of a primary has been published.
AnnounceReg(t) ==
  /\ pc[t] = "ann_reg"
  /\ AnnounceUnlock(t)
  /\ Goto(t, AfterRegister(t))
  /\ UNCHANGED <<dbVars, lockVars, instVars, cur, parent, todo, was, cont, listing, unregs, cut>>

\* let prev_c = self.clients.lock().remove(&name), and the call of drop_client
ForceRemove(t) ==
  /\ pc[t] = "f_remove"
  /\ clientsLock = None
  /\ clients[name[t]] # None
  /\ clients' = [clients EXCEPT ![name[t]] = None]
  /\ Goto(t, "d_load")
  /\ cur' = [cur EXCEPT ![t] = clients[name[t]]]
  /\ cont' = [cont EXCEPT ![t] = "force"]
  /\ UNCHANGED <<broadcasts, subreg, subs, lockVars, instVars, parent, todo, was, otherVars>>

\* prev_c is None: the previous instance has left meanwhile.
ForceVacant(t) ==
  /\ pc[t] = "f_remove"
  /\ clientsLock = None
  /\ clients[name[t]] = None
  /\ Goto(t, "ins_retry")
  /\ UNCHANGED <<dbVars, lockVars, instVars, cur, parent, todo, was, cont, otherVars>>

ForceTrigger(t) ==
  /\ pc[t] = "f_trig"
  /\ triggered' = [triggered EXCEPT ![cur[t]] = TRUE]
  /\ Goto(t, "ins_retry")
  /\ Forget(t)
  /\ UNCHANGED <<dbVars, lockVars, registered, secondaries, closed, parent, todo, cont, otherVars>>

-----------------------------------------------------------------------------
(* drop_client(cur[t]).                                                    *)

\* Where the task goes when the outermost drop_client has returned.
AfterDrop(t) ==
  CASE cont[t] = "force" -> "f_trig"
    [] cont[t] = "drop"  -> "done"
    [] OTHER -> IF Primary(cur[t]) /\ was[t] THEN "ann_unreg" ELSE "u_end"

\* mutant: every return goes to the loop over secondaries
DropReturnUnchecked(t) ==
  /\ Goto(t, "d_loop")
  /\ cur' = [cur EXCEPT ![t] = parent[t]]
  /\ parent' = [parent EXCEPT ![t] = None]

\* drop_client returns, from a recursive call to the loop over secondaries.
DropReturn(t) ==
  \/ /\ parent[t] = None
     /\ Goto(t, AfterDrop(t))
     /\ UNCHANGED <<cur, parent>>
  \/ /\ parent[t] # None
     /\ Goto(t, "d_loop")
     /\ cur' = [cur EXCEPT ![t] = parent[t]]
     /\ parent' = [parent EXCEPT ![t] = None]

\* if client.registered.load(..)
DropLoad(t) ==
  /\ pc[t] = "d_load"
  /\ registered[cur[t]]
  /\ Goto(t, "d_store")
  /\ UNCHANGED <<dbVars, lockVars, instVars, cur, parent, todo, was, cont, otherVars>>

\* Not registered, or dropped already: nothing is done.
DropNotRegistered(t) ==
  /\ pc[t] = "d_load"
  /\ ~registered[cur[t]]
  /\ DropReturn(t)
  /\ UNCHANGED <<dbVars, lockVars, instVars, todo, was, cont, otherVars>>

\* mutant: the flag is not cleared
DropStoreMissing(t) ==
  /\ pc[t] = "d_store"
  /\ Goto(t, "d_subs")
  /\ UNCHANGED <<dbVars, lockVars, instVars, cur, parent, todo, was, cont, otherVars>>

DropStore(t) ==
  /\ pc[t] = "d_store"
  /\ registered' = [registered EXCEPT ![cur[t]] = FALSE]
  /\ Goto(t, "d_subs")
  /\ UNCHANGED <<dbVars, lockVars, secondaries, triggered, closed, cur, parent, todo, was, cont, otherVars>>

DropSubscriptions(t) ==
  /\ pc[t] = "d_subs"
  /\ SubUnregister(name[cur[t]])
  /\ Goto(t, "d_bcast")
  /\ UNCHANGED <<clients, broadcasts, lockVars, instVars, cur, parent, todo, was, cont, otherVars>>

\* mutant: broadcasts keep the client
DropBroadcastMissing(t) ==
  /\ pc[t] = "d_bcast"
  /\ Goto(t, "d_clients")
  /\ UNCHANGED <<dbVars, lockVars, instVars, cur, parent, todo, was, cont, otherVars>>

DropBroadcast(t) ==
  /\ pc[t] = "d_bcast"
  /\ BroadcastUnregister(name[cur[t]])
  /\ Goto(t, "d_clients")
  /\ UNCHANGED <<clients, subreg, subs, lockVars, instVars, cur, parent, todo, was, cont, otherVars>>

\* mutant: the client stays listed while its secondaries are dropped
DropClientsLate(t) ==
  /\ pc[t] = "d_clients"
  /\ clientsLock = None
  /\ Goto(t, IF Primary(cur[t]) THEN "d_sec" ELSE "d_unlink_lock")
  /\ UNCHANGED <<dbVars, lockVars, instVars, cur, parent, todo, was, cont, otherVars>>

\* self.clients.lock().remove(&client.name): whoever is listed under the name
DropClients(t) ==
  /\ pc[t] = "d_clients"
  /\ clientsLock = None
  /\ clients' = [clients EXCEPT ![name[cur[t]]] = None]
  /\ Goto(t, IF Primary(cur[t]) THEN "d_sec" ELSE "d_unlink_lock")
  /\ UNCHANGED <<broadcasts, subreg, subs, lockVars, instVars, cur, parent, todo, was, cont, otherVars>>

\* let mut secondaries = client.secondaries.lock()
DropLockSecondaries(t) ==
  /\ pc[t] = "d_sec"
  /\ secLock[cur[t]] = None
  /\ secLock' = [secLock EXCEPT ![cur[t]] = t]
  /\ todo' = [todo EXCEPT ![t] = secondaries[cur[t]]]
  /\ Goto(t, "d_loop")
  /\ UNCHANGED <<dbVars, clientsLock, instVars, cur, parent, was, cont, otherVars>>

\* One secondary, in any order: the one listed under the name is told to
\* disconnect if it is a connection, and dropped by a recursive call.
DropNextSecondary(t) ==
  \E n \in todo[t] :
    LET sec == clients[n] IN
    /\ pc[t] = "d_loop"
    /\ clientsLock = None
    /\ sec # None
    /\ todo' = [todo EXCEPT ![t] = @ \ {n}]
    /\ triggered' = [triggered EXCEPT ![sec] = @ \/ sec \notin Internal]
    /\ parent' = [parent EXCEPT ![t] = cur[t]]
    /\ cur' = [cur EXCEPT ![t] = sec]
    /\ Goto(t, "d_load")
    /\ UNCHANGED <<dbVars, lockVars, registered, secondaries, closed, was, cont, otherVars>>

\* The name of a secondary that is not listed any more.
DropMissingSecondary(t) ==
  \E n \in todo[t] :
    /\ pc[t] = "d_loop"
    /\ clientsLock = None
    /\ clients[n] = None
    /\ todo' = [todo EXCEPT ![t] = @ \ {n}]
    /\ UNCHANGED <<dbVars, lockVars, instVars, pc, cur, parent, was, cont, otherVars>>

\* mutant: the secondaries are dropped until there are some
DropSecondariesAgain(t) ==
  /\ pc[t] = "d_loop"
  /\ todo[t] = {}
  /\ secondaries' = [secondaries EXCEPT ![cur[t]] = {}]
  /\ secLock' = [secLock EXCEPT ![cur[t]] = None]
  /\ Goto(t, "d_sec")
  /\ UNCHANGED <<dbVars, clientsLock, registered, triggered, closed, cur, parent, todo, was, cont, otherVars>>

\* secondaries.clear(), and the guard is released
DropSecondariesEnd(t) ==
  /\ pc[t] = "d_loop"
  /\ todo[t] = {}
  /\ secondaries' = [secondaries EXCEPT ![cur[t]] = {}]
  /\ secLock' = [secLock EXCEPT ![cur[t]] = None]
  /\ DropReturn(t)
  /\ UNCHANGED <<dbVars, clientsLock, registered, triggered, closed, todo, was, cont, otherVars>>

\* A secondary: the mutex of clients is held while the primary is visited.
DropUnlinkLock(t) ==
  /\ pc[t] = "d_unlink_lock"
  /\ clientsLock = None
  /\ clients[primary_name[cur[t]]] # None
  /\ clientsLock' = t
  /\ Goto(t, "d_unlink")
  /\ UNCHANGED <<dbVars, secLock, instVars, cur, parent, todo, was, cont, otherVars>>

DropNoPrimary(t) ==
  /\ pc[t] = "d_unlink_lock"
  /\ clientsLock = None
  /\ clients[primary_name[cur[t]]] = None
  /\ DropReturn(t)
  /\ UNCHANGED <<dbVars, lockVars, instVars, todo, was, cont, otherVars>>

\* mutant: the primary keeps the name of the secondary
DropUnlinkMissing(t) ==
  LET p == clients[primary_name[cur[t]]] IN
  /\ pc[t] = "d_unlink"
  /\ secLock[p] = None
  /\ clientsLock' = None
  /\ DropReturn(t)
  /\ UNCHANGED <<dbVars, secLock, instVars, todo, was, cont, otherVars>>

\* primary.secondaries.lock().remove(&client.name)
DropUnlink(t) ==
  LET p == clients[primary_name[cur[t]]] IN
  /\ pc[t] = "d_unlink"
  /\ secLock[p] = None
  /\ secondaries' = [secondaries EXCEPT ![p] = @ \ {name[cur[t]]}]
  /\ clientsLock' = None
  /\ DropReturn(t)
  /\ UNCHANGED <<dbVars, secLock, registered, triggered, closed, todo, was, cont, otherVars>>

-----------------------------------------------------------------------------
(* unregister_client, and its callers.                                     *)

\* mutant: the announce does not depend on the flag
CallUnregisterAlways(t, i, k) ==
  /\ Enter(t)
  /\ was' = [was EXCEPT ![t] = TRUE]
  /\ cur' = [cur EXCEPT ![t] = i]
  /\ cont' = [cont EXCEPT ![t] = k]
  /\ Goto(t, "d_load")
  /\ UNCHANGED <<dbVars, lockVars, secondaries, triggered, closed, parent, todo, listing, unregs>>

\* let was_registered = client.registered.load(..), and the call of drop_client
CallUnregister(t, i, k) ==
  /\ Enter(t)
  /\ was' = [was EXCEPT ![t] = registered[i]]
  /\ cur' = [cur EXCEPT ![t] = i]
  /\ cont' = [cont EXCEPT ![t] = k]
  /\ Goto(t, "d_load")
  /\ UNCHANGED <<dbVars, lockVars, secondaries, triggered, closed, parent, todo, listing, unregs>>

\* The "unreg" announce has been published.  The announce of a client that the
\* core client evicts while it publishes never gets here: it waits for the mutex
\* that is held around the publish! it is part of.
AnnounceUnreg(t) ==
  /\ pc[t] = "ann_unreg"
  /\ AnnounceUnlock(t)
  /\ unregs' = [unregs EXCEPT ![cur[t]] = @ + 1]
  /\ Goto(t, "u_end")
  /\ UNCHANGED <<dbVars, lockVars, instVars, cur, parent, todo, was, cont, listing, cut>>

\* mutants: the queue is not closed; the owner of a connection does not end
UnregisterEndOpen(t) ==
  /\ pc[t] = "u_end"
  /\ Goto(t, IF cont[t] = "finish" THEN "done" ELSE "run")
  /\ Forget(t)
  /\ UNCHANGED <<dbVars, lockVars, instVars, parent, todo, cont, otherVars>>
UnregisterEndAgain(t) ==
  /\ pc[t] = "u_end"
  /\ closed' = [closed EXCEPT ![cur[t]] = @ \/ cont[t] = "evict"]
  /\ Goto(t, "run")
  /\ Forget(t)
  /\ UNCHANGED <<dbVars, lockVars, registered, secondaries, triggered, parent, todo, cont, otherVars>>

\* unregister_client returns to handle_peer, which ends, to safe_send_frame!,
\* which closes the queue of the client, or to the owner of an internal client.
UnregisterEnd(t) ==
  /\ pc[t] = "u_end"
  /\ closed' = [closed EXCEPT ![cur[t]] = @ \/ cont[t] = "evict"]
  /\ Goto(t, IF cont[t] = "finish" THEN "done" ELSE "run")
  /\ Forget(t)
  /\ UNCHANGED <<dbVars, lockVars, registered, secondaries, triggered, parent, todo, cont, otherVars>>

-----------------------------------------------------------------------------
(* The owner of a connection: handle_peer after the registration.          *)

\* write_and_flush!(&[RESPONSE_OK])
RespondOk(t) ==
  /\ pc[t] = "resp"
  /\ Room
  /\ Goto(t, "run")
  /\ UNCHANGED <<dbVars, lockVars, instVars, cur, parent, todo, was, cont, otherVars>>

\* The write fails or times out: `??` returns from handle_peer at once.
RespondFail(t) ==
  /\ pc[t] = "resp"
  /\ Room
  /\ Goto(t, "zombie")
  /\ UNCHANGED <<dbVars, lockVars, instVars, cur, parent, todo, was, cont, otherVars>>

\* The reader is suspended in safe_send_frame!, in the announce of the client
\* that it evicts.
Evicting(t) == pc[t] = "ann_unreg" /\ cont[t] = "evict"

\* The clients whose eviction is given up when the reader of t is dropped: the
\* one t evicts, and the one the core client evicts in the announce of t.
GivenUp(t) ==
  {i \in Inst : \/ Evicting(t) /\ i = cur[t]
                \/ Core # None /\ rpcLock = t /\ Evicting(Core) /\ i = cur[Core]}

\* One branch of select! completes (end of stream, an error or a timeout of
\* the reader, the writer or the pinger, or the disconnect trigger).  The
\* others are cancelled where they are suspended, an announce included, whose
\* guard of rpc_client is released; finish_peer! follows.
Disconnect(t) ==
  /\ t \notin Internal
  /\ pc[t] \in {"run", "sending"} \/ Evicting(t)
  /\ Core # None /\ rpcLock = t => pc[Core] \notin Section
  /\ CallUnregister(t, t, "finish")
  /\ cut' = [i \in Inst |-> cut[i] \/ i \in GivenUp(t)]
  /\ rpcLock' = IF rpcLock = t THEN None ELSE rpcLock
  /\ UNCHANGED registered

\* The announce in which the core client evicts a client was cancelled with the
\* reader that had asked for it.
PublishDropped(t) ==
  /\ t = Core
  /\ Evicting(t)
  /\ rpcLock = None

-----------------------------------------------------------------------------
(* The owner of an internal client.  The core client stays.                *)

\* Broker::unregister_client
BrokerUnregister(t) ==
  /\ t \in Internal \ {Core}
  /\ pc[t] = "run"
  /\ CallUnregister(t, t, "api")
  /\ UNCHANGED <<registered, rpcLock, cut>>

\* Client::unregister clears the flag, then calls unregister_client.
ClientUnregister(t) ==
  /\ t \in MayUnregister
  /\ pc[t] = "run"
  /\ Enter(t)
  /\ registered' = [registered EXCEPT ![t] = FALSE]
  /\ was' = [was EXCEPT ![t] = FALSE]
  /\ cur' = [cur EXCEPT ![t] = t]
  /\ cont' = [cont EXCEPT ![t] = "api"]
  /\ Goto(t, "d_load")
  /\ UNCHANGED <<dbVars, lockVars, secondaries, triggered, closed, parent, todo, otherVars>>

\* Drop for Client
ClientDrop(t) ==
  /\ t \in Internal \ {Core}
  /\ pc[t] = "run"
  /\ Enter(t)
  /\ cur' = [cur EXCEPT ![t] = t]
  /\ cont' = [cont EXCEPT ![t] = "drop"]
  /\ Goto(t, "d_load")
  /\ UNCHANGED <<dbVars, lockVars, instVars, parent, todo, was, otherVars>>

-----------------------------------------------------------------------------
(* What every owner does while it runs.                                    *)

Subscribe(t, x) ==
  /\ pc[t] = "run"
  /\ Room
  /\ name[t] \in subreg
  /\ subs' = [subs EXCEPT ![name[t]] = SubscribeIn(@, x, t)]
  /\ UNCHANGED <<clients, broadcasts, subreg, lockVars, instVars, taskVars, otherVars>>

Unsubscribe(t, x) ==
  /\ pc[t] = "run"
  /\ Room
  /\ subs' = [subs EXCEPT ![name[t]][x] = None]
  /\ UNCHANGED <<clients, broadcasts, subreg, lockVars, instVars, taskVars, otherVars>>

\* The instances a message, a broadcast or a publication to name n may find.
Targets(n) ==
  (IF clientsLock = None THEN {clients[n]} ELSE {})
    \cup {broadcasts[n]} \cup {subs[n][x] : x \in Topics}

\* The core client sends in announces only, to the subscribers of their topic.
MaySend(t) == IF t = Core THEN rpcLock # None ELSE t \in Senders
Reach(t, n) ==
  IF t = Core THEN {subs[n][x] : x \in Topic \cap {InfoTopic}} ELSE Targets(n)

\* A connection is found by send!, send_broadcast! or publish!.  The task
\* keeps the Arc, over awaits too when there are several receivers.
Lookup(t) ==
  \E n \in Name : \E i \in Reach(t, n) \ (Internal \cup {None}) :
    /\ MaySend(t)
    /\ pc[t] = "run"
    /\ Room
    /\ cur' = [cur EXCEPT ![t] = i]
    /\ Goto(t, "sending")
    /\ UNCHANGED <<dbVars, lockVars, instVars, parent, todo, was, cont, otherVars>>

\* The queue of the receiver has room, or the channel is closed; or what the
\* core client has begun is gone with the announce, and only then is the mutex
\* free for another.
SendEnd(t) ==
  /\ pc[t] = "sending" \/ PublishDropped(t)
  /\ Room
  /\ Goto(t, "run")
  /\ Forget(t)
  /\ UNCHANGED <<dbVars, lockVars, instVars, parent, todo, cont, otherVars>>

\* The queue of the receiver is full: it is unregistered by the sender.
Evict(t) ==
  /\ pc[t] = "sending"
  /\ MaySend(t)
  /\ CallUnregister(t, cur[t], "evict")
  /\ UNCHANGED <<registered, rpcLock, cut>>

-----------------------------------------------------------------------------
(* Broker::force_disconnect, and client.list of the core RPC.              *)

ForceDisconnect(n) ==
  LET i == clients[n] IN
  /\ Room
  /\ clientsLock = None
  /\ i \notin Internal \cup {None}
  /\ triggered' = [triggered EXCEPT ![i] = TRUE]
  /\ UNCHANGED <<dbVars, lockVars, registered, secondaries, closed, taskVars, otherVars>>

ListLock ==
  /\ Listing
  /\ Room
  /\ clientsLock = None
  /\ clientsLock' = Lister
  /\ listing' = {i \in Inst : clients[name[i]] = i /\ Primary(i)}
  /\ UNCHANGED <<dbVars, secLock, instVars, taskVars, rpcLock, unregs, cut>>

\* v.secondaries.lock().len()
ListCount(i) ==
  /\ i \in listing
  /\ secLock[i] = None
  /\ listing' = listing \ {i}
  /\ UNCHANGED <<dbVars, lockVars, instVars, taskVars, rpcLock, unregs, cut>>

ListEnd ==
  /\ clientsLock = Lister
  /\ listing = {}
  /\ clientsLock' = None
  /\ UNCHANGED <<dbVars, secLock, instVars, taskVars, otherVars>>

-----------------------------------------------------------------------------
Insert(t) ==
  \/ InsertNoPrimary(t) \/ InsertBusy(t) \/ InsertLock(t)
  \/ InsertSecondary(t) \/ InsertBroadcast(t) \/ InsertSubscriptions(t)
  \/ InsertEnd(t) \/ AnnounceReg(t)
  \/ ForceRemove(t) \/ ForceVacant(t) \/ ForceTrigger(t)

Drop(t) ==
  \/ DropLoad(t) \/ DropNotRegistered(t) \/ DropStore(t) \/ DropSubscriptions(t)
  \/ DropBroadcast(t) \/ DropClients(t) \/ DropLockSecondaries(t)
  \/ DropNextSecondary(t) \/ DropMissingSecondary(t) \/ DropSecondariesEnd(t)
  \/ DropUnlinkLock(t) \/ DropNoPrimary(t) \/ DropUnlink(t)
  \/ AnnounceUnreg(t) \/ UnregisterEnd(t)

Owner(t) ==
  \/ RespondOk(t) \/ RespondFail(t) \/ Disconnect(t)
  \/ BrokerUnregister(t) \/ ClientUnregister(t) \/ ClientDrop(t)
  \/ \E x \in Topic : Subscribe(t, x) \/ Unsubscribe(t, x)
  \/ Lookup(t) \/ SendEnd(t) \/ Evict(t)

List == ListLock \/ (\E i \in Inst : ListCount(i)) \/ ListEnd

\* Every client has come and gone.
Finished == \A t \in Inst \ {Core} : pc[t] \in Ended

\* The core client waits, in the announce of a client it evicts, for the mutex
\* of rpc_client, which is held around the publish! it is in.
Jammed == Core # None /\ pc[Core] = "ann_unreg" /\ rpcLock # None

\* Nobody is left to act, or all that are left may wait for an announce.
Terminated == (Finished \/ Jammed) /\ UNCHANGED vars

Next ==
  \/ \E t \in Inst : Insert(t) \/ Drop(t) \/ Owner(t) \/ AnnounceLock(t)
  \/ \E n \in Kicked : ForceDisconnect(n)
  \/ List
  \/ Terminated

Spec == Init /\ [][Next]_vars

-----------------------------------------------------------------------------
(* Fairness: a worker that is between two awaits goes on; a mutex that is  *)
(* released again and again is given to each waiting thread at last        *)
(* (parking_lot), and the scheduler of tokio takes up each ready task at   *)
(* last; the mutex of rpc_client is a queue (tokio); a response ends, by   *)
(* its timeout if not before.  An announce has no timeout: it ends when it *)
(* has got the mutex and the core client has come to the end of the        *)
(* subscribers, which are finitely many.  In-process subscribers of the    *)
(* announces are assumed to take their frames.  Nothing is assumed of what *)
(* clients do of their own accord.                                         *)

Told(t) == triggered[t] \/ closed[t]

\* What the owner of t does as soon as it may.
Progress(t) ==
  \/ pc[t] # "new" /\ Insert(t)
  \/ Drop(t) \/ RespondOk(t) \/ RespondFail(t) \/ AnnounceLock(t)
  \/ t = Core /\ (SendEnd(t) \/ Evict(t))

Fairness ==
  /\ \A t \in Inst : SF_vars(Progress(t)) /\ SF_vars(Told(t) /\ Disconnect(t))
  /\ WF_vars((\E i \in Inst : ListCount(i)) \/ ListEnd)

FairSpec == Spec /\ Fairness

-----------------------------------------------------------------------------
(* Properties.                                                             *)

\* No task is between two awaits.
Quiet == Busy = {}

\* While drop_client holds the secondaries of a primary (and takes the mutex
\* of clients under it), that primary is not listed in clients: nobody who
\* holds the mutex of clients can be about to wait for those secondaries.
LockOrder == \A p \in Inst : secLock[p] # None => clients[name[p]] # p

\* The holder of the mutex of clients never waits: whatever secondaries it
\* locks next (insert_client, drop_client of a secondary, client_list) are free.
HolderNeverBlocked ==
  /\ \A t \in Inst :
       LET p == clients[primary_name[IF pc[t] = "ins_sec" THEN t ELSE cur[t]]] IN
       pc[t] \in {"ins_sec", "d_unlink"} => p # None /\ secLock[p] = None
  /\ \A i \in listing : secLock[i] = None

\* A name is registered once: force_register takes the registration of the
\* previous instance away before the new one is registered.
UniqueRegistered ==
  Quiet => \A i, j \in Inst :
    registered[i] /\ registered[j] /\ name[i] = name[j] => i = j

\* The three indexes of BrokerDb list the same clients.
IndexesAgree ==
  Quiet => \A n \in Name :
    /\ broadcasts[n] = clients[n]
    /\ n \in subreg <=> clients[n] # None

\* The flag of a client says whether the client is listed.
RegisteredIsListed ==
  Quiet => \A i \in Inst : registered[i] <=> clients[name[i]] = i

\* A listed secondary belongs to the primary listed now, and a listed primary
\* counts listed secondaries only: no secondary outlives its primary, and no
\* name is counted twice or left behind.
SecondariesLinked ==
  Quiet =>
    /\ \A s \in Inst : clients[name[s]] = s => clients[primary_name[s]] # None
    /\ \A p \in Inst : clients[name[p]] = p /\ Primary(p) =>
         secondaries[p] = {name[s] : s \in {s \in Inst :
           clients[name[s]] = s /\ ~Primary(s) /\ primary_name[s] = name[p]}}

\* A connection that others have unregistered is told to end, unless the
\* eviction is still suspended in its announce, or was cancelled there.
EvictedAreTold ==
  Quiet => \A i \in Inst \ Internal :
    pc[i] \in {"resp", "run", "sending"} /\ ~registered[i] =>
      \/ Told(i) \/ cut[i]
      \/ \E t \in Inst : Evicting(t) /\ cur[t] = i

\* A client whose owner is gone is listed nowhere: neither in clients nor in
\* broadcasts is its name kept busy.  (Not so an owner that calls
\* Client::unregister: with the flag cleared, nothing is removed any more.)
DoneIsGone ==
  Quiet => \A i \in Inst \ MayUnregister :
    pc[i] = "done" => clients[name[i]] # i /\ broadcasts[name[i]] # i

\* Exactly one "unreg" is announced, or waits to be, for a connection of a primary
\* that ended, unless the eviction that was to announce it was cancelled, and
\* at most one if it was displaced or forced to disconnect before.
AnnouncedOnce ==
  Quiet => \A i \in Inst \ Internal :
    LET pending == {t \in Inst : pc[t] = "ann_unreg" /\ cur[t] = i
                                 /\ (t = Core => rpcLock # None)}
        count   == unregs[i] + Cardinality(pending) IN
    pc[i] = "done" /\ cont[i] = "finish" /\ Primary(i) =>
      /\ count <= 1
      /\ cut[i] => count = 0
      /\ ~cut[i] /\ ~triggered[i] => count = 1

\* A connection told to end does end, unless an announce is deadlocked for good
\* (handle_peer waits for its own announce without a timeout).
ToldEnds ==
  []<>~Jammed => \A i \in Inst \ Internal : Told(i) ~> pc[i] \in Ended

\* "Publish announce for clients": an announce that is begun is published.
AnnounceEnds ==
  \A t \in Inst \ {Core} :
    pc[t] \in {"ann_reg", "ann_unreg"} ~> pc[t] \notin {"ann_reg", "ann_unreg"}

\* No task is stuck between two awaits.
SectionsEnd == \A t \in Inst : pc[t] \in Section ~> pc[t] \notin Section
=============================================================================
