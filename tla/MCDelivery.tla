----------------------------- MODULE MCDelivery -----------------------------
(***************************************************************************)
(* Instances of Delivery for TLC: which client may ask for what.           *)
(***************************************************************************)
EXTENDS Delivery

CONSTANTS a, b, i, t1, t2   \* two connections, an in-process client, topics
CONSTANTS OpsA, OpsB, OpsI      \* how many operations each asks for

MCMaxOps == [c \in Client |-> CASE c = a -> OpsA [] c = b -> OpsB [] OTHER -> OpsI]

Plain(o, ack) == [op |-> o, to |-> None, mask |-> {}, topics |-> <<>>, ack |-> ack]
Msg(r, ack) == [Plain("message", ack) EXCEPT !.to = r]
Bcast(m, ack) == [Plain("broadcast", ack) EXCEPT !.mask = m]
Pub(x, ack) == [Plain("publish", ack) EXCEPT !.topics = <<x>>]
PubFor(x, r, ack) == [Pub(x, ack) EXCEPT !.op = "publish_for", !.to = r]
On(o, xs, ack) == [Plain(o, ack) EXCEPT !.topics = xs]

MCprimary == [c \in Client |-> c]

\* Frames of two senders towards one connection, towards each other and, by a
\* broadcast, towards the sender itself.
ScriptSend == [c \in Client |->
  CASE c = a -> {Msg(b, TRUE), Msg(i, TRUE), Bcast({a, b}, TRUE)}
    [] c = i -> {Msg(b, TRUE), Bcast({a, b}, FALSE), Msg(i, TRUE)}
    [] OTHER -> {}]

\* Subscriptions that change while there are publications.
ScriptTopics == [c \in Client |->
  CASE c = a -> {Pub(t1, TRUE), PubFor(t1, b, TRUE), Pub(t2, TRUE)}
    [] c = b -> {On("subscribe", <<t1>>, TRUE), On("unsubscribe", <<t1>>, FALSE),
                 On("subscribe", <<t1, t2>>, TRUE),
                 On("exclude", <<t1>>, TRUE), On("unexclude", <<t1>>, FALSE)}
    [] OTHER -> {On("subscribe", <<t1>>, TRUE)}]

\* Connection b may not subscribe to t2, and a may not publish to it.
DeniedU == {<<b, "subscribe", t2>>, <<a, "publish", t2>>}
=============================================================================
