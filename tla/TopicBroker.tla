---------------------------- MODULE TopicBroker ----------------------------
(***************************************************************************)
(* TopicBroker of src/tools/pubsub.rs: hands the publications a client     *)
(* receives to the channels of handlers, by topic or by topic prefix.      *)
(*                                                                         *)
(* A topic is a sequence of numbers, ordered as strings are.  A frame is a *)
(* topic with the task that processes it and its number there.  Handlers   *)
(* are registered before frames are processed (register_* takes &mut self, *)
(* process &self).  A handler has one bounded channel, under any number of *)
(* topics and prefixes (the register_*_tx functions).                      *)
(***************************************************************************)
EXTENDS Naturals, Sequences, SequencesExt

CONSTANTS
  Topic,        \* topics of frames
  Prefix,       \* prefixes that may be registered
  Handler,      \* handlers: receivers of channels
  Proc,         \* tasks that call process
  MaxFrames,    \* frames a task processes
  MaxRegs,      \* registrations
  ChanSize,     \* capacity of a channel
  None          \* no handler

ASSUME TopicAssumption ==
  /\ Topic \subseteq Seq(Nat) /\ Prefix \subseteq Seq(Nat)
  /\ None \notin Handler /\ MaxFrames \in Nat

VARIABLES
  topics,       \* TopicBroker.topics: the handler of a topic
  prefixes,     \* TopicBroker.prefixes: the handler of a prefix
  frame,        \* the frame a task processes, with the handler it is for
  count,        \* frames a task has begun to process
  chan,         \* the channel of a handler
  closed,       \* handlers that have closed their channel
  handled,      \* history: frames each handler has received
  returned,     \* history: frames process has given back as not processed
  failed        \* history: frames process has failed on

regVars   == <<topics, prefixes>>
topicVars == <<regVars, frame, count, chan, closed, handled, returned, failed>>

-----------------------------------------------------------------------------

Frame == [topic: Topic, proc: Proc, num: 1..MaxFrames]
Idle == [to |-> None]
Sending == [f: Frame, to: Handler]

TopicTypeOK ==
  /\ topics \in [Topic -> Handler \cup {None}]
  /\ prefixes \in [Prefix -> Handler \cup {None}]
  /\ frame \in [Proc -> Sending \cup {Idle}]
  /\ count \in [Proc -> 0..MaxFrames]
  /\ chan \in [Handler -> Seq(Frame)]
  /\ closed \subseteq Handler
  /\ handled \in [Handler -> Seq(Frame)]
  /\ returned \subseteq Frame /\ failed \subseteq Frame

TopicInit ==
  /\ topics = [t \in Topic |-> None] /\ prefixes = [x \in Prefix |-> None]
  /\ frame = [p \in Proc |-> Idle] /\ count = [p \in Proc |-> 0]
  /\ chan = [h \in Handler |-> <<>>] /\ closed = {}
  /\ handled = [h \in Handler |-> <<>>]
  /\ returned = {} /\ failed = {}

-----------------------------------------------------------------------------
(* Registration *)

Registering ==
  /\ \A p \in Proc : count[p] = 0
  /\ Cardinality({t \in Topic : topics[t] # None})
       + Cardinality({x \in Prefix : prefixes[x] # None}) < MaxRegs
  /\ UNCHANGED <<frame, count, chan, closed, handled, returned, failed>>

\* A name that is taken is an error (busy), and nothing changes.
RegisterTopic(t, h) ==
  /\ Registering /\ topics[t] = None
  /\ topics' = [topics EXCEPT ![t] = h] /\ UNCHANGED prefixes
RegisterPrefix(x, h) ==
  /\ Registering /\ prefixes[x] = None
  /\ prefixes' = [prefixes EXCEPT ![x] = h] /\ UNCHANGED topics

-----------------------------------------------------------------------------
(* process *)

\* The order of the keys of a BTreeMap.
Before(x, y) ==
  \E i \in 1..(Len(x) + 1) :
    /\ \A j \in 1..(i - 1) : j <= Len(y) /\ x[j] = y[j]
    /\ i <= Len(y) /\ (i <= Len(x) => x[i] < y[i])

Matching(t) == {x \in Prefix : prefixes[x] # None /\ IsPrefix(x, t)}

\* mutant: the last prefix that matches wins.
LookupLast(t) ==
  IF topics[t] # None THEN topics[t]
  ELSE IF Matching(t) = {} THEN None
  ELSE prefixes[CHOOSE x \in Matching(t) : \A y \in Matching(t) : y = x \/ Before(y, x)]

\* The topic itself, or the first prefix of the map that matches.
Lookup(t) ==
  IF topics[t] # None THEN topics[t]
  ELSE IF Matching(t) = {} THEN None
  ELSE prefixes[CHOOSE x \in Matching(t) : \A y \in Matching(t) : y = x \/ Before(x, y)]

Process(p, t) ==
  LET f == [topic |-> t, proc |-> p, num |-> count[p] + 1] IN
  /\ frame[p] = Idle /\ count[p] < MaxFrames
  /\ count' = [count EXCEPT ![p] = @ + 1]
  /\ \/ /\ Lookup(t) # None
        /\ frame' = [frame EXCEPT ![p] = [f |-> f, to |-> Lookup(t)]]
        /\ UNCHANGED returned
     \/ /\ Lookup(t) = None
        /\ returned' = returned \cup {f}
        /\ UNCHANGED frame
  /\ UNCHANGED <<regVars, chan, closed, handled, failed>>

\* tx.send: waits while the channel is full, fails when it is closed.
Send(p) ==
  LET h == frame[p].to IN
  /\ frame[p] # Idle /\ h \notin closed /\ Len(chan[h]) < ChanSize
  /\ chan' = [chan EXCEPT ![h] = Append(@, frame[p].f)]
  /\ frame' = [frame EXCEPT ![p] = Idle]
  /\ UNCHANGED <<regVars, count, closed, handled, returned, failed>>

SendFail(p) ==
  /\ frame[p] # Idle /\ frame[p].to \in closed
  /\ failed' = failed \cup {frame[p].f}
  /\ frame' = [frame EXCEPT ![p] = Idle]
  /\ UNCHANGED <<regVars, count, chan, closed, handled, returned>>

\* The handler takes a publication, or gives its receiver up.
Handle(h) ==
  /\ h \notin closed /\ chan[h] # <<>>
  /\ chan' = [chan EXCEPT ![h] = Tail(@)]
  /\ handled' = [handled EXCEPT ![h] = Append(@, Head(chan[h]))]
  /\ UNCHANGED <<regVars, frame, count, closed, returned, failed>>
Close(h) ==
  /\ h \notin closed
  /\ closed' = closed \cup {h}
  /\ UNCHANGED <<regVars, frame, count, chan, handled, returned, failed>>

-----------------------------------------------------------------------------

TopicNext ==
  \/ \E h \in Handler : \/ \E t \in Topic : RegisterTopic(t, h)
                        \/ \E x \in Prefix : RegisterPrefix(x, h)
                        \/ Handle(h) \/ Close(h)
  \/ \E p \in Proc : (\E t \in Topic : Process(p, t)) \/ Send(p) \/ SendFail(p)

TopicSpec == TopicInit /\ [][TopicNext]_topicVars

-----------------------------------------------------------------------------
(* Properties *)

\* The handler a frame is for: the one of its topic, else the one of the
\* SHORTEST registered prefix, which is what the order of the map makes of
\* overlapping prefixes.
Meant(t) ==
  IF topics[t] # None THEN {topics[t]}
  ELSE {prefixes[x] : x \in {y \in Matching(t) : \A z \in Matching(t) : Len(y) <= Len(z)}}

Taken(h) == handled[h] \o chan[h]

\* A frame goes to the handler it is meant for and to no other, once, in the
\* order in which one task processes its frames; it is given back only if
\* there is no handler for it, and fails only if that handler is gone
\* (TopicBroker::process).
FrameToItsHandler ==
  /\ \A h \in Handler : \A i \in 1..Len(Taken(h)) :
       /\ Meant(Taken(h)[i].topic) = {h}
       /\ \A j \in 1..(i - 1) :
            Taken(h)[i].proc = Taken(h)[j].proc => Taken(h)[j].num < Taken(h)[i].num
  /\ \A f \in returned : Meant(f.topic) = {}
  /\ \A f \in failed : Meant(f.topic) \subseteq closed
============================================================================
