----------------------------- MODULE Handshake -----------------------------
(***************************************************************************)
(* How a client connects: handle_peer of src/broker.rs up to the answer to *)
(* the registration, and chat of src/ipc.rs and src/sync/ipc.rs at the     *)
(* other end of the socket.                                                *)
(*                                                                         *)
(* The messages are the greeting with the protocol version, the name, and  *)
(* the one-byte answers: "ok" or the code of an error.  The broker gives   *)
(* every read and write its timeout; the asynchronous client has one for   *)
(* the whole connect, the synchronous client has none for its reads.  A    *)
(* client that is not one of the two ("other") may greet as it likes.      *)
(* The announcements of register_client and unregister_client are awaited  *)
(* without a timeout: nothing here makes them end.                         *)
(***************************************************************************)
EXTENDS Naturals, Sequences

CONSTANTS
  Kind,    \* kinds of clients: subset of {"async", "sync", "other"}
  Slow     \* timeouts may fire, and writes may fail, though the peer is there

VARIABLES
  kind,        \* the kind of the client
  match,       \* whether both speak the same version of the protocol
  name,        \* whether the name is one the broker takes
  aaa,         \* what the AAA map says of the primary name now; "allowed" also
               \* stands for a server without a map
  cpc,         \* where the client is
  got,         \* how its connect has ended
  bpc,         \* where the broker's task is
  decision,    \* history: the answer the broker has written, or "ok" once it
               \* has registered the client
  registered,  \* whether the broker has the client in its registry
  lost,        \* history: another task has taken it out
  unanswered,  \* history: the broker could not write the last answer
  toB, toC,    \* what is on its way to the broker and to the client
  cOpen, bOpen \* whether the client, the broker keeps the socket

clientEnd == <<cpc, got, cOpen>>
brokerEnd == <<bpc, decision, registered, lost, unanswered, bOpen>>
given     == <<kind, match, name>>
shakeVars == <<given, aaa, clientEnd, brokerEnd, toB, toC>>

-----------------------------------------------------------------------------

Errors == {"NotSupported", "Data", "Access", "Busy", "NotRegistered"}
Answers == {"ok"} \cup Errors

ShakeTypeOK ==
  /\ kind \in Kind /\ match \in BOOLEAN /\ name \in BOOLEAN
  /\ aaa \in {"allowed", "host", "absent"}
  /\ cpc \in {"greeting", "status", "answer", "connected", "failed"}
  /\ got \in {"none", "io", "timeout"} \cup Answers
  /\ bpc \in {"greet", "version", "name", "register", "announce", "answer", "serving", "leave", "closed"}
  /\ decision \in {"none"} \cup Answers
  /\ registered \in BOOLEAN /\ lost \in BOOLEAN /\ unanswered \in BOOLEAN
  /\ toB \in Seq({"same", "different", "name"})
  /\ toC \in Seq({"greeting"} \cup Answers)
  /\ cOpen \in BOOLEAN /\ bOpen \in BOOLEAN

ShakeInit ==
  /\ kind \in Kind /\ match \in BOOLEAN /\ name \in BOOLEAN
  /\ aaa \in {"allowed", "host", "absent"}
  /\ cpc = "greeting" /\ got = "none"
  /\ bpc = "greet" /\ decision = "none"
  /\ registered = FALSE /\ lost = FALSE /\ unanswered = FALSE
  /\ toB = <<>> /\ toC = <<>>
  /\ cOpen = TRUE /\ bOpen = TRUE

-----------------------------------------------------------------------------
(* The broker: handle_peer *)

\* write_and_flush!: what is written is sent, unless the client has gone.
Answer(m) == toC' = IF cOpen THEN Append(toC, m) ELSE toC
Close == bpc' = "closed" /\ bOpen' = FALSE

BrokerGreet ==
  /\ bpc = "greet"
  /\ Answer("greeting") /\ bpc' = "version"
  /\ UNCHANGED <<given, aaa, clientEnd, decision, registered, lost, unanswered, bOpen, toB>>

\* mutant: the connection is closed without a word.
RefuseSilent(e) ==
  /\ decision' = e /\ Close
  /\ UNCHANGED <<toC, registered, lost, unanswered>>
Refuse(e) ==
  /\ decision' = e /\ Answer(e) /\ Close
  /\ UNCHANGED <<registered, lost, unanswered>>

BrokerVersion ==
  /\ bpc = "version" /\ toB # <<>>
  /\ toB' = Tail(toB)
  /\ \/ /\ Head(toB) = "same"
        /\ Answer("ok") /\ bpc' = "name"
        /\ UNCHANGED <<decision, registered, lost, unanswered, bOpen>>
     \/ Head(toB) # "same" /\ Refuse("NotSupported")
  /\ UNCHANGED <<given, aaa, clientEnd>>

\* The name, and the entry of the AAA map under the primary name; host: the
\* entry does not allow the address.  A name that is not UTF-8 gets no answer.
BrokerName ==
  /\ bpc = "name" /\ toB # <<>>
  /\ toB' = Tail(toB)
  /\ \/ ~name /\ Refuse("Data")
     \/ name /\ aaa \in {"host", "absent"} /\ Refuse("Access")
     \/ /\ name /\ aaa = "allowed"
        /\ bpc' = "register"
        /\ UNCHANGED <<toC, decision, registered, lost, unanswered, bOpen>>
     \/ /\ kind = "other" /\ Close
        /\ UNCHANGED <<toC, decision, registered, lost, unanswered>>
  /\ UNCHANGED <<given, aaa, clientEnd>>

\* register_client, see module Registry: done, or the name is busy, or the
\* primary of a secondary is not there.  A primary is announced.
BrokerRegister ==
  /\ bpc = "register"
  /\ \/ /\ registered' = TRUE /\ decision' = "ok" /\ bpc' \in {"announce", "answer"}
        /\ UNCHANGED <<toC, lost, unanswered, bOpen>>
     \/ Refuse("Busy") \/ Refuse("NotRegistered")
  /\ UNCHANGED <<given, aaa, clientEnd, toB>>
BrokerAnnounce ==
  /\ bpc = "announce" /\ bpc' = "answer"
  /\ UNCHANGED <<given, aaa, clientEnd, decision, registered, lost, unanswered, bOpen, toB, toC>>

BrokerAnswer ==
  /\ bpc = "answer"
  /\ Answer("ok") /\ bpc' = "serving"
  /\ UNCHANGED <<given, aaa, clientEnd, decision, registered, lost, unanswered, bOpen, toB>>

\* A write fails or takes too long: handle_peer returns.  A client that was
\* registered by then is not unregistered.
BrokerWriteFail ==
  /\ Slow \/ ~cOpen
  /\ \/ bpc \in {"greet", "register", "answer"} /\ UNCHANGED toB
     \/ /\ \/ bpc = "version"
           \/ bpc = "name" /\ (~name \/ aaa # "allowed")
        /\ toB # <<>> /\ toB' = Tail(toB)
  /\ unanswered' = (bpc = "answer")
  /\ Close
  /\ UNCHANGED <<given, aaa, clientEnd, decision, registered, lost, toC>>

\* A read finds the end of the stream, or nothing within the timeout.
BrokerReadFail ==
  /\ bpc \in {"version", "name"} /\ toB = <<>> /\ (Slow \/ ~cOpen)
  /\ Close
  /\ UNCHANGED <<given, aaa, clientEnd, decision, registered, lost, unanswered, toB, toC>>

\* mutant: the connection ends without unregister_client.
BrokerFinishOnly ==
  /\ bpc = "serving"
  /\ Close
  /\ UNCHANGED <<given, aaa, clientEnd, decision, registered, lost, unanswered, toB, toC>>

\* finish_peer!, see module Delivery for what ends the connection:
\* unregister_client announces a primary that was still registered, and the
\* socket is closed when handle_peer returns.
BrokerFinish ==
  /\ bpc = "serving"
  /\ registered' = FALSE
  /\ \/ registered /\ bpc' = "leave" /\ UNCHANGED bOpen
     \/ Close
  /\ UNCHANGED <<given, aaa, clientEnd, decision, lost, unanswered, toB, toC>>
BrokerLeave ==
  /\ bpc = "leave" /\ Close
  /\ UNCHANGED <<given, aaa, clientEnd, decision, registered, lost, unanswered, toB, toC>>

\* Another task takes the client out of the registry, with the socket open
\* or closed: a client of the same name displaces it, a sender that finds its
\* queue full evicts it, or its primary leaves.
Removed ==
  /\ registered /\ registered' = FALSE /\ lost' = TRUE
  /\ UNCHANGED <<given, aaa, clientEnd, bpc, decision, unanswered, bOpen, toB, toC>>

\* The owner of the broker changes the AAA map.  The task has taken a copy
\* of the entry when the name was read: later changes do not reach it.
AaaChange ==
  /\ bpc \in {"greet", "version", "name"}
  /\ aaa' \in {"allowed", "host", "absent"} \ {aaa}
  /\ UNCHANGED <<given, clientEnd, brokerEnd, toB, toC>>

-----------------------------------------------------------------------------
(* The client: chat *)

Say(m) == toB' = IF bOpen THEN Append(toB, m) ELSE toB
Fail(e) == cpc' = "failed" /\ got' = e /\ cOpen' = FALSE
Chatting == cpc \in {"greeting", "status", "answer"}

\* The client answers with the greeting it has read.
ClientGreeting ==
  /\ cpc = "greeting" /\ toC # <<>>
  /\ toC' = Tail(toC)
  /\ \/ /\ match \/ kind = "other"
        /\ Say(IF match THEN "same" ELSE "different")
        /\ cpc' = "status" /\ UNCHANGED <<got, cOpen>>
     \/ /\ ~match /\ kind # "other"
        /\ Fail("NotSupported") /\ UNCHANGED toB
  /\ UNCHANGED <<given, aaa, brokerEnd>>
ClientStatus ==
  /\ cpc = "status" /\ toC # <<>>
  /\ toC' = Tail(toC)
  /\ \/ /\ Head(toC) = "ok"
        /\ Say("name")
        /\ cpc' = "answer" /\ UNCHANGED <<got, cOpen>>
     \/ Head(toC) # "ok" /\ Fail(Head(toC)) /\ UNCHANGED toB
  /\ UNCHANGED <<given, aaa, brokerEnd>>
ClientAnswer ==
  /\ cpc = "answer" /\ toC # <<>>
  /\ toC' = Tail(toC)
  /\ \/ /\ Head(toC) = "ok"
        /\ cpc' = "connected" /\ got' = "ok" /\ UNCHANGED cOpen
     \/ Head(toC) # "ok" /\ Fail(Head(toC))
  /\ UNCHANGED <<given, aaa, brokerEnd, toB>>

\* The end of the stream.
ClientEof ==
  /\ Chatting /\ toC = <<>> /\ ~bOpen
  /\ Fail("io")
  /\ UNCHANGED <<given, aaa, brokerEnd, toB, toC>>

\* The timeout of connect, or its future is dropped; a write of the
\* synchronous client fails or times out.
ClientTimeout ==
  /\ Slow /\ Chatting
  /\ kind = "sync" => toC # <<>>
  /\ Fail("timeout") /\ toC' = <<>>
  /\ UNCHANGED <<given, aaa, brokerEnd, toB>>

-----------------------------------------------------------------------------

BrokerChat ==
  \/ BrokerGreet \/ BrokerVersion \/ BrokerName \/ BrokerRegister \/ BrokerAnswer
  \/ BrokerWriteFail \/ BrokerReadFail
ClientChat == ClientGreeting \/ ClientStatus \/ ClientAnswer \/ ClientEof \/ ClientTimeout

Abandoned == ~cOpen /\ BrokerFinish
Announced == BrokerAnnounce \/ BrokerLeave

ShakeNext == BrokerChat \/ ClientChat \/ BrokerFinish \/ Announced \/ Removed \/ AaaChange

\* Both ends go on, at the latest by their timeouts, except a client of
\* another make; the broker sees the end of the stream.  Nothing is assumed
\* of the announcements.
ShakeSpec ==
  /\ ShakeInit /\ [][ShakeNext]_shakeVars
  /\ WF_shakeVars(BrokerChat)
  /\ WF_shakeVars(kind # "other" /\ ClientChat)
  /\ WF_shakeVars(Abandoned)

-----------------------------------------------------------------------------
(* Properties *)

\* What connect returns is true.  A client whose connect has succeeded was
\* registered (the answer follows register_client), and is so until its
\* connection ends in the broker or another task takes it out (displacement,
\* eviction, the end of its primary): the task that serves it does not leave
\* it unregistered.  A client that was refused learns why, unless it has
\* given up by itself: the code it gets is the broker's, and the end of the
\* stream does not overtake the answer (write_and_flush! before every return).
AnswerIsTrue ==
  /\ cpc = "connected" =>
       decision = "ok" /\ (bpc \in {"leave", "closed"} \/ lost \/ registered)
  /\ got \in Errors => got = decision \/ (~match /\ got = "NotSupported")
  /\ got = "io" => decision \in {"none", "ok"}

\* connect returns.  The asynchronous client has a timeout for it.  The
\* synchronous one has none for its reads and relies on those of the broker,
\* so that for it the announcement of its registration must end.  If
\* announcements end, the broker's task goes on to serve the client or ends,
\* also when the client says nothing.  When connect has failed, the name does
\* not stay registered: the broker sees the end of the stream and unregisters
\* the client, unless it failed to write its last answer (handle_peer returns
\* before unregister_client).
ShakeEnds ==
  /\ (Chatting /\ kind = "async") ~> ~Chatting
  /\ []<>(bpc \notin {"announce", "leave"}) =>
       /\ (Chatting /\ kind = "sync") ~> ~Chatting
       /\ (bpc # "serving") ~> bpc \in {"serving", "closed"}
       /\ cpc = "failed" ~> ~registered \/ unanswered
=============================================================================
