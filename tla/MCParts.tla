------------------------------ MODULE MCParts ------------------------------
(***************************************************************************)
(* The parts of BUS/RT that do not touch each other, in one model for TLC: *)
(* the buffered writer, the handshake, the layout of frames, the cursors   *)
(* of an RPC server, the topic processor of a client and the daemon.  A    *)
(* behaviour is one of one part, which the initial state chooses; the      *)
(* others stay in their initial states.                                    *)
(***************************************************************************)
EXTENDS BufWriter, Daemon, TopicBroker, Wire

CONSTANTS
  Cursor, Caller, cleaner,
  Kind, Slow

VARIABLES
  map, made, finished, expired, call, cur, wait, dropped,
  kind, match, name, aaa, cpc, got, bpc, decision, registered, lost, unanswered,
  toB, toC, cOpen, bOpen,
  part   \* the part this behaviour is about

C == INSTANCE Cursors
H == INSTANCE Handshake

cursorVars == <<map, made, finished, expired, call, cur, wait, dropped>>
shakeVars == <<kind, match, name, aaa, cpc, got, bpc, decision, registered, lost,
               unanswered, toB, toC, cOpen, bOpen>>
vars == <<bufVars, cursorVars, topicVars, daemonVars, shakeVars, wireVars, part>>

MCTopic == {<<1>>, <<1, 2>>}
MCPrefix == {<<>>, <<1>>}
MCSender == <<115>>
MCTarget == <<116, 116>>
MCReceiver == <<114, 42>>
MCRpcId == {1, 256, 2147483647}
MCRpcCode == {-32768, -32001, 1}
MCMethod == {<<>>, <<109, 1>>}
MCData == {<<>>, <<0>>, <<1, 0, 17>>}
MCRaw == {<<>>} \cup {<<b>> \o t : b \in {0, 1, 5, 17, 18}, t \in BoundedSeq({0, 1}, 6)}

\* The handshake and the messages have several initial states; one stands
\* for them while the behaviour is about another part.
Init ==
  /\ part \in {"buffer", "cursors", "topics", "daemon", "handshake", "wire"}
  /\ BufInit /\ C!CursorInit /\ TopicInit /\ DaemonInit /\ H!ShakeInit
  /\ part # "handshake" => kind = "async" /\ match /\ name /\ aaa = "allowed"
  /\ WireInit
  /\ part # "wire" =>
       /\ sent = Nil /\ msg.op = "send" /\ msg.payload = <<>>
       /\ from = "internal" /\ to = "internal"

BufStep ==
  /\ part = "buffer" /\ BufNext
  /\ UNCHANGED <<cursorVars, topicVars, daemonVars, shakeVars, wireVars, part>>
CursorStep ==
  /\ part = "cursors" /\ C!CursorNext
  /\ UNCHANGED <<bufVars, topicVars, daemonVars, shakeVars, wireVars, part>>
TopicStep ==
  /\ part = "topics" /\ TopicNext
  /\ UNCHANGED <<bufVars, cursorVars, daemonVars, shakeVars, wireVars, part>>
DaemonStep ==
  /\ part = "daemon" /\ DaemonNext
  /\ UNCHANGED <<bufVars, cursorVars, topicVars, shakeVars, wireVars, part>>
ShakeStep ==
  /\ part = "handshake" /\ H!ShakeNext
  /\ UNCHANGED <<bufVars, cursorVars, topicVars, daemonVars, wireVars, part>>

WireStep ==
  /\ part = "wire" /\ WireNext
  /\ UNCHANGED <<bufVars, cursorVars, topicVars, daemonVars, shakeVars, part>>

Next == BufStep \/ CursorStep \/ TopicStep \/ DaemonStep \/ ShakeStep \/ WireStep

\* The fairness of BufSpec, CursorSpec, DaemonSpec and ShakeSpec,
\* each for the behaviours of its part.
FairSpec ==
  /\ Init /\ [][Next]_vars
  /\ WF_bufVars(part = "buffer" /\ WriteStep)
  /\ WF_bufVars(part = "buffer" /\ Flusher)
  /\ WF_bufVars(part = "buffer" /\ Dropper)
  /\ \A t \in Caller : WF_cursorVars(part = "cursors" /\ C!CallStep(t))
  /\ WF_cursorVars(part = "cursors" /\ C!Cleaner)
  /\ WF_daemonVars(part = "daemon" /\ Main)
  /\ \A s \in Signal : WF_daemonVars(part = "daemon" /\ Terminate(s))
  /\ WF_shakeVars(part = "handshake" /\ H!BrokerChat)
  /\ WF_shakeVars(part = "handshake" /\ kind # "other" /\ H!ClientChat)
  /\ WF_shakeVars(part = "handshake" /\ H!Abandoned)

-----------------------------------------------------------------------------

\* Every part keeps the types of its variables.
TypeOK ==
  /\ BufTypeOK /\ C!CursorTypeOK /\ TopicTypeOK /\ DaemonTypeOK
  /\ H!ShakeTypeOK /\ WireTypeOK

\* Every call of the map returns (the fair lock of cursors::Map).
CallReturns == C!CallReturns
\* A finished or expired cursor leaves the map (spawn_cleaner).
DeadLeaves == C!DeadLeaves

\* connect returns, the broker's task serves the client or ends, and the name
\* of a client whose connect has failed is free again (chat, handle_peer).
ShakeEnds == part = "handshake" => H!ShakeEnds
=============================================================================
