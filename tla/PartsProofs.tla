----------------------------- MODULE PartsProofs -----------------------------
(***************************************************************************)
(* Theorems about the parts of MCParts.  A scheduled flush is never        *)
(* forgotten, for any number of writes and any capacity of the buffer;     *)
(* busrtd leaves nothing behind and tells its clients, whenever the signals*)
(* come, for any paths to bind to; a frame goes to its topic handler, for  *)
(* any topics, prefixes, handlers and tasks.  With WireProofs and          *)
(* HandshakeProofs: every part keeps its types and its promise.            *)
(***************************************************************************)
EXTENDS MCParts, WireProofs

HP == INSTANCE HandshakeProofs

-----------------------------------------------------------------------------
(* The buffered writer: what holds of it at any time. *)

\* The types the argument needs.
BufType ==
  /\ n \in Nat
  /\ buffer \in Seq(Nat)
  /\ due \subseteq 1..n

\* A write that is under way has not asked for its flush yet: what write_all
\* puts into the buffer while the flusher is idle is nothing that is due.
NotYetDue == wpc # "idle" => n # 0 /\ n \notin due

\* What is proved of every state of the writer.
FlushInv == BufType /\ NotYetDue /\ FlushComing

-----------------------------------------------------------------------------
(* What the operations on the buffer do to the set of its writes. *)

\* write_all adds the current write and nothing else.
LEMMA AppendSet ==
  ASSUME NEW s \in Seq(Nat), NEW x \in Nat
  PROVE  /\ Append(s, x) \in Seq(Nat)
         /\ ToSet(Append(s, x)) \subseteq ToSet(s) \cup {x}
  BY DEF ToSet

\* A flush only takes writes away from the buffer.
LEMMA TailSet ==
  ASSUME NEW s \in Seq(Nat), s # <<>>
  PROVE  /\ Tail(s) \in Seq(Nat)
         /\ ToSet(Tail(s)) \subseteq ToSet(s)
  BY DEF ToSet

\* An empty buffer holds nothing that is due.
LEMMA EmptySet == ToSet(<<>>) = {}
  BY DEF ToSet

\* A step that neither adds to the buffer nor to what is due, and keeps every
\* reason for a flush to come, keeps the invariant.
LEMMA FewerWaiting ==
  ASSUME FlushInv,
         n' = n, due' = due,
         buffer' \in Seq(Nat), ToSet(buffer') \subseteq ToSet(buffer),
         wpc' = "idle" \/ wpc # "idle",
         missed \subseteq missed',
         \/ token' \/ fpc' \in {"sleep", "flush"} \/ dpc' = "flush"
         \/ ~token /\ fpc \notin {"sleep", "flush"} /\ dpc # "flush"
         \/ ToSet(buffer') \subseteq missed'
  PROVE  FlushInv'
<1>1. BufType' /\ NotYetDue'
  BY DEF FlushInv, BufType, NotYetDue
<1>2. ASSUME NEW c \in due' \cap ToSet(buffer')
      PROVE  \/ token' \/ fpc' \in {"sleep", "flush"} \/ dpc' = "flush"
             \/ c \in missed'
  <2>1. c \in due \cap ToSet(buffer)
    BY <1>2
  <2>2. \/ token \/ fpc \in {"sleep", "flush"} \/ dpc = "flush"
        \/ c \in missed
    BY <2>1 DEF FlushInv, FlushComing
  <2> QED BY <1>2, <2>2
<1>3. FlushComing'
  BY <1>2 DEF FlushComing
<1> QED BY <1>1, <1>3 DEF FlushInv

-----------------------------------------------------------------------------

\* Every writer starts with nothing due.
LEMMA InitFlushInv == BufInit => FlushInv
  BY EmptySet DEF BufInit, FlushInv, BufType, NotYetDue, FlushComing

\* Draining the buffer only removes writes.
LEMMA DrainFewer ==
  ASSUME FlushInv, Drain
  PROVE  buffer' \in Seq(Nat) /\ ToSet(buffer') \subseteq ToSet(buffer)
  BY TailSet DEF FlushInv, BufType, Drain

\* Every step of write, of the flusher and of the drop keeps the invariant.
LEMMA StepFlushInv ==
  ASSUME FlushInv, [BufNext]_bufVars
  PROVE  FlushInv'
<1> USE DEF FlushInv
<1>t. BufType
  OBVIOUS
<1>k. buffer \in Seq(Nat) /\ ToSet(buffer) \subseteq ToSet(buffer)
  BY <1>t DEF BufType
<1>1. ASSUME NEW f \in Flush, Write(f) PROVE FlushInv'
  <2>1. BufType' /\ NotYetDue'
    BY <1>t, <1>1 DEF Write, BufType, NotYetDue
  <2>2. FlushComing'
    BY <1>1 DEF Write, FlushComing
  <2> QED BY <2>1, <2>2
<1>2. CASE WriteAll
  <2>1. n # 0 /\ n \notin due /\ n' = n /\ due' = due
    BY <1>2 DEF WriteAll, NotYetDue
  <2>2. buffer' \in Seq(Nat) /\ ToSet(buffer') \subseteq ToSet(buffer) \cup {n}
    <3>1. Append(buffer, n) \in Seq(Nat) /\ ToSet(Append(buffer, n)) \subseteq ToSet(buffer) \cup {n}
      BY <1>t, AppendSet DEF BufType
    <3>2. buffer = <<>> => Append(buffer, n) = <<n>>
      OBVIOUS
    <3>3. buffer' = Append(buffer, n) \/ buffer' = buffer
      BY <1>2, <3>2 DEF WriteAll
    <3> QED BY <1>k, <3>1, <3>3
  <2>3. BufType' /\ NotYetDue'
    BY <1>t, <2>1, <2>2 DEF BufType, NotYetDue
  <2>4. FlushComing'
    BY <1>2, <2>1, <2>2 DEF WriteAll, FlushComing
  <2> QED BY <2>3, <2>4
<1>3. CASE Spill
  BY <1>3, DrainFewer, FewerWaiting DEF Spill
<1>4. CASE WriteEnd
  <2>1. BufType' /\ NotYetDue'
    BY <1>t, <1>4 DEF WriteEnd, BufType, NotYetDue
  <2>2. FlushComing'
    BY <1>4 DEF WriteEnd, FlushComing, Flush
  <2> QED BY <2>1, <2>2
<1>5. CASE WriteFlush
  <2>1. CASE Drain /\ wpc' = "flush"
    BY <1>5, <2>1, DrainFewer, FewerWaiting DEF WriteFlush
  <2>2. CASE wpc' = "idle" /\ UNCHANGED <<buffer, sink>>
    BY <1>k, <1>5, <2>2, FewerWaiting DEF WriteFlush
  <2> QED BY <1>5, <2>1, <2>2 DEF WriteFlush
<1>6. CASE WriteError
  BY <1>k, <1>6, FewerWaiting DEF WriteError
<1>7. CASE WriteCancel
  BY <1>k, <1>7, FewerWaiting DEF WriteCancel
<1>8. CASE FlusherRecv
  BY <1>k, <1>8, FewerWaiting DEF FlusherRecv
<1>9. CASE FlusherLock
  BY <1>k, <1>9, FewerWaiting DEF FlusherLock
<1>10. CASE FlusherFlush
  <2>1. CASE Drain /\ UNCHANGED <<fpc, lock>>
    BY <1>10, <2>1, DrainFewer, FewerWaiting DEF FlusherFlush
  <2>2. CASE buffer = <<>> /\ UNCHANGED <<buffer, sink>>
    <3>1. ToSet(buffer') \subseteq missed'
      BY <2>2, EmptySet
    <3> QED BY <1>k, <1>10, <2>2, <3>1, FewerWaiting DEF FlusherFlush
  <2> QED BY <1>10, <2>1, <2>2 DEF FlusherFlush
<1>11. CASE FlusherGiveUp
  <2>1. ToSet(buffer') \subseteq missed' /\ missed \subseteq missed'
    BY <1>11 DEF FlusherGiveUp
  <2> QED BY <1>k, <1>11, <2>1, FewerWaiting DEF FlusherGiveUp
<1>12. CASE Drop
  BY <1>k, <1>12, FewerWaiting DEF Drop
<1>13. CASE DropFlush
  <2>1. CASE Drain /\ UNCHANGED <<dpc, lock>>
    BY <1>13, <2>1, DrainFewer, FewerWaiting DEF DropFlush
  <2>2. CASE buffer = <<>> /\ UNCHANGED <<buffer, sink>>
    <3>1. ToSet(buffer') \subseteq missed'
      BY <2>2, EmptySet
    <3> QED BY <1>k, <1>13, <2>2, <3>1, FewerWaiting DEF DropFlush
  <2> QED BY <1>13, <2>1, <2>2 DEF DropFlush
<1>14. CASE DropGiveUp
  <2>1. ToSet(buffer') \subseteq missed' /\ missed \subseteq missed'
    BY <1>14 DEF DropGiveUp
  <2> QED BY <1>k, <1>14, <2>1, FewerWaiting DEF DropGiveUp
<1>15. CASE UNCHANGED bufVars
  BY <1>k, <1>15, FewerWaiting DEF bufVars
<1>16. CASE NoRoom
  BY <1>k, <1>16, FewerWaiting DEF NoRoom
<1> QED
  BY <1>1, <1>2, <1>3, <1>4, <1>5, <1>6, <1>7, <1>8, <1>9, <1>10, <1>11, <1>12,
     <1>13, <1>14, <1>15, <1>16 DEF BufNext, WriteStep, Flusher, Dropper

\* What a scheduled write has left in the buffer is never forgotten, however
\* the writes, the flusher, its timeouts and the drop interleave
\* (TtlBufWriter::write, the flusher task, Drop).
THEOREM FlushNotForgotten == BufSpec => []FlushComing
<1>1. BufInit => FlushInv
  BY InitFlushInv
<1>2. FlushInv /\ [BufNext]_bufVars => FlushInv'
  BY StepFlushInv
<1>3. FlushInv => FlushComing
  BY DEF FlushInv
<1> QED BY <1>1, <1>2, <1>3, PTL DEF BufSpec

-----------------------------------------------------------------------------
(* The daemon: what holds of it at any time. *)

\* main has not spawned the handlers yet.
Starting == main \in {"off", "pid", "note"}

\* The domain of the handlers' positions.
HandlersOK == DOMAIN hpc = Signal

\* A pid file that exists is noted, unless main is about to note it or the
\* process has died.
PidNoted == pidFile => PID_FILE \/ main \in {"note", "panic", "killed"}

\* So is every socket file.
SocksNoted == files \subseteq SOCK_FILES

\* No handler runs, and none has finished, before main has spawned them.
HandlersLate ==
  Starting => SERVER_ACTIVE /\ \A s \in Signal : hpc[s] = "none"

\* The pid file is gone once a handler has removed it.
PidGone ==
  /\ ~SERVER_ACTIVE => ~pidFile
  /\ \A s \in Signal : hpc[s] \in {"sock", "broker", "announce", "store"} => ~pidFile

\* So are the socket files, and main has no more to bind, unless the list
\* was read too early.
SocksDone == hasty \/ (files = {} /\ ~Starting /\ main \notin {"spawn", "bind"})
SocksGone ==
  /\ ~SERVER_ACTIVE => SocksDone
  /\ \A s \in Signal : hpc[s] \in {"broker", "announce", "store"} => SocksDone

\* A handler that came when the broker was there finds it and announces.
Told ==
  /\ \A s \in Signal : hpc[s] \in {"pid", "sock", "broker"} => BROKER \/ early
  /\ \A s \in Signal : hpc[s] = "store" => announced \/ early
  /\ ~SERVER_ACTIVE => announced \/ early

\* main returns when a handler has cleared the flag.
ExitCleared == main = "exit" => ~SERVER_ACTIVE

\* What is proved of every state of the daemon.
ExitInv ==
  /\ HandlersOK /\ PidNoted /\ SocksNoted /\ HandlersLate
  /\ PidGone /\ SocksGone /\ Told /\ ExitCleared

-----------------------------------------------------------------------------

\* Nothing is there at the start.
LEMMA InitExitInv == DaemonInit => ExitInv
  BY DEF DaemonInit, ExitInv, HandlersOK, PidNoted, SocksNoted, HandlersLate,
         PidGone, SocksGone, SocksDone, Told, ExitCleared, Starting, Signal

\* The steps of main keep the invariant.
LEMMA MainExitInv ==
  ASSUME ExitInv, Start \/ Main \/ Kill
  PROVE  ExitInv'
<1> USE DEF ExitInv, HandlersOK, PidNoted, SocksNoted, HandlersLate, PidGone,
            SocksGone, SocksDone, Told, ExitCleared, Starting, fileVars, histVars
<1>1. CASE Start
  BY <1>1 DEF Start
<1>2. CASE WritePid
  BY <1>2 DEF WritePid
<1>3. CASE NotePid
  BY <1>3 DEF NotePid
<1>4. CASE LockSocks
  BY <1>4 DEF LockSocks
<1>5. ASSUME NEW x \in Path, Bind(x) PROVE ExitInv'
  BY <1>5 DEF Bind
<1>6. CASE UnlockSocks
  BY <1>6 DEF UnlockSocks
<1>7. CASE Ready
  BY <1>7 DEF Ready
<1>8. CASE Return
  BY <1>8 DEF Return
<1>9. CASE Kill
  BY <1>9 DEF Kill, Ended
<1> QED BY <1>1, <1>2, <1>3, <1>4, <1>5, <1>6, <1>7, <1>8, <1>9 DEF Main

\* The steps of the handler of a signal keep the invariant.
LEMMA HandlerExitInv ==
  ASSUME ExitInv, NEW s \in Signal, Listen(s) \/ Recv(s) \/ Terminate(s) \/ Announce(s)
  PROVE  ExitInv'
<1> USE DEF ExitInv, HandlersOK, PidNoted, SocksNoted, HandlersLate, PidGone,
            SocksGone, SocksDone, Told, ExitCleared, Starting, fileVars, histVars,
            Running
<1>1. CASE Listen(s)
  BY <1>1 DEF Listen
<1>2. CASE Recv(s)
  BY <1>2 DEF Recv
<1>3. CASE RemovePid(s)
  BY <1>3 DEF RemovePid
<1>4. CASE RemoveSocks(s)
  BY <1>4 DEF RemoveSocks
<1>5. CASE LockBroker(s)
  BY <1>5 DEF LockBroker
<1>6. CASE Announce(s)
  BY <1>6 DEF Announce
<1>7. CASE Store(s)
  BY <1>7 DEF Store
<1> QED BY <1>1, <1>2, <1>3, <1>4, <1>5, <1>6, <1>7 DEF Terminate

\* Every step of the daemon keeps the invariant.
LEMMA StepExitInv ==
  ASSUME ExitInv, [DaemonNext]_daemonVars
  PROVE  ExitInv'
<1>1. CASE UNCHANGED daemonVars
  BY <1>1 DEF daemonVars, ExitInv, HandlersOK, PidNoted, SocksNoted,
              HandlersLate, PidGone, SocksGone, SocksDone, Told, ExitCleared,
              Starting
<1>2. CASE Start \/ Main \/ Kill
  BY <1>2, MainExitInv
<1>3. ASSUME NEW s \in Signal, Listen(s) \/ Recv(s) \/ Terminate(s) \/ Announce(s) PROVE ExitInv'
  BY <1>3, HandlerExitInv
<1> QED BY <1>1, <1>2, <1>3 DEF DaemonNext

\* At the exit it leaves nothing behind.
LEMMA InvCleanExit == ExitInv => CleanExit
  BY DEF ExitInv, PidGone, SocksGone, SocksDone, Told, ExitCleared, CleanExit

\* When main has returned, neither the pid file nor a socket file is left and
\* the clients have been told, whatever signals came and when, except for a
\* list of sockets read too early and a signal before the start was over
\* (main, terminate, handle_term_signal!).
THEOREM ExitIsClean == DaemonSpec => []CleanExit
<1>1. ExitInv /\ [DaemonNext]_daemonVars => ExitInv'
  BY StepExitInv
<1> QED BY InitExitInv, <1>1, InvCleanExit, PTL DEF DaemonSpec
-----------------------------------------------------------------------------
(* The first prefix of the map that matches a topic is the shortest one.   *)

\* Prefixes of one topic agree as far as both go.
LEMMA PrefixPoint ==
  ASSUME NEW s \in Seq(Nat), NEW t \in Seq(Nat), IsPrefix(s, t)
  PROVE  Len(s) \in Nat /\ \A i \in 1..Len(s) : s[i] = t[i] /\ s[i] \in Nat
<1>1. Len(s) \in Nat /\ Len(t) \in Nat /\ Len(s) <= Len(t)
  BY DEF IsPrefix
<1>2. ASSUME NEW i \in 1..Len(s) PROVE s[i] = t[i]
  <2>1. SubSeq(s, 1, Len(s))[i] = s[i] BY <1>1, <1>2
  <2>2. SubSeq(t, 1, Len(s))[i] = t[i] BY <1>1, <1>2
  <2> QED BY <2>1, <2>2 DEF IsPrefix
<1> QED BY <1>1, <1>2

\* There is a shortest one among them.
LEMMA Shortest ==
  ASSUME NEW S, S # {}, S \subseteq Seq(Nat)
  PROVE  \E x \in S : \A y \in S : Len(x) <= Len(y)
<1> DEFINE L == {Len(x) : x \in S}
<1> DEFINE R == OpToRel(<, Nat)
<1>0. \A x \in S : Len(x) \in Nat
  BY LenProperties
<1>1. L \subseteq Nat /\ L # {}
  BY <1>0
<1>2. IsWellFoundedOn(R, Nat)
  BY NatLessThanWellFounded
<1>3. PICK m \in L : \A k \in L : ~(<<k, m>> \in R)
  <2> HIDE DEF L, R
  <2> QED BY <1>1, <1>2, WFMin
<1>4. \A k \in L : ~(k < m)
  BY <1>1, <1>3 DEF OpToRel
<1>5. PICK x \in S : m = Len(x)
  OBVIOUS
<1>6. ASSUME NEW y \in S PROVE Len(x) <= Len(y)
  <2>1. Len(y) \in L /\ Len(y) \in Nat /\ Len(x) \in Nat BY <1>0, <1>6
  <2> HIDE DEF L, R
  <2> QED BY <1>4, <1>5, <2>1
<1> QED BY <1>6

\* Lookup finds the handler a frame is meant for.
LEMMA LookupMeant ==
  ASSUME Prefix \subseteq Seq(Nat), NEW t \in Seq(Nat), None \notin Handler,
         topics[t] \in Handler \cup {None},
         prefixes \in [Prefix -> Handler \cup {None}]
  PROVE  /\ Lookup(t) \in Handler \cup {None}
         /\ Lookup(t) = None => Meant(t) = {}
         /\ Lookup(t) # None => Meant(t) = {Lookup(t)}
<1>1. CASE topics[t] # None
  BY <1>1 DEF Lookup, Meant
<1>2. CASE topics[t] = None /\ Matching(t) = {}
  BY <1>2 DEF Lookup, Meant
<1>3. CASE topics[t] = None /\ Matching(t) # {}
  <2> DEFINE First(x) == \A y \in Matching(t) : y = x \/ Before(x, y)
  <2>0. Matching(t) \subseteq Seq(Nat) /\ \A x \in Matching(t) : IsPrefix(x, t) /\ prefixes[x] \in Handler
    BY DEF Matching
  <2>1. PICK x \in Matching(t) : \A y \in Matching(t) : Len(x) <= Len(y)
    <3> DEFINE M == Matching(t)
    <3>1. M # {} /\ M \subseteq Seq(Nat) BY <1>3, <2>0
    <3> HIDE DEF M
    <3>2. \E x \in M : \A y \in M : Len(x) <= Len(y) BY <3>1, Shortest
    <3> QED BY <3>2 DEF M
  <2>2. \A y \in Matching(t) :
          y \in Seq(Nat) /\ Len(y) \in Nat /\ \A i \in 1..Len(y) : y[i] = t[i] /\ y[i] \in Nat
    BY <2>0, PrefixPoint
  <2>3. ASSUME NEW y \in Matching(t), Len(y) <= Len(x) PROVE y = x
    <3>1. Len(y) = Len(x) BY <2>1, <2>2, <2>3
    <3>2. \A i \in 1..Len(x) : y[i] = x[i] BY <2>2, <3>1
    <3> QED BY <2>2, <3>1, <3>2, SeqEqual
  <2>4. First(x)
    <3> SUFFICES ASSUME NEW y \in Matching(t), y # x PROVE Before(x, y)
      OBVIOUS
    <3>1. Len(x) \in Nat /\ Len(y) \in Nat /\ Len(x) < Len(y)
      BY <2>1, <2>2, <2>3
    <3>2. \A j \in 1..(Len(x) + 1 - 1) : j <= Len(y) /\ x[j] = y[j]
      BY <2>2, <3>1
    <3>3. Len(x) + 1 \in 1..(Len(x) + 1) /\ Len(x) + 1 <= Len(y) /\ ~(Len(x) + 1 <= Len(x))
      BY <3>1
    <3> QED BY <3>2, <3>3 DEF Before
  <2>5. ASSUME NEW z \in Matching(t), First(z) PROVE z = x
    <3> SUFFICES ASSUME Before(z, x) PROVE FALSE
      BY <2>5
    <3>1. PICK i \in 1..(Len(z) + 1) :
            /\ \A j \in 1..(i - 1) : j <= Len(x) /\ z[j] = x[j]
            /\ i <= Len(x) /\ (i <= Len(z) => z[i] < x[i])
      BY DEF Before
    <3>2. Len(x) \in Nat /\ Len(z) \in Nat /\ Len(x) <= Len(z)
      BY <2>1, <2>2
    <3>3. i \in 1..Len(x) /\ i \in 1..Len(z) BY <3>1, <3>2
    <3>4. z[i] = x[i] /\ x[i] \in Nat BY <2>2, <3>3
    <3> QED BY <3>1, <3>3, <3>4
  <2>6. (CHOOSE z \in Matching(t) : First(z)) = x
    <3> HIDE DEF First
    <3> QED BY <2>4, <2>5
  <2>7. Lookup(t) = prefixes[x]
    BY <1>3, <2>6 DEF Lookup
  <2>8. {y \in Matching(t) : \A z \in Matching(t) : Len(y) <= Len(z)} = {x}
    BY <2>1, <2>3
  <2>9. Meant(t) = {prefixes[x]}
    BY <1>3, <2>8 DEF Meant
  <2> QED BY <2>0, <2>7, <2>9
<1> QED BY <1>1, <1>2, <1>3

-----------------------------------------------------------------------------
(* The invariant *)

\* The frame a task is about to send is the last one it began to process, and
\* is on its way to the handler it is meant for.
InFlight(p) ==
  frame[p] # Idle =>
    /\ frame[p].f.proc = p /\ frame[p].f.num = count[p]
    /\ Meant(frame[p].f.topic) = {frame[p].to}

\* A frame that a handler has got, or will get, was meant for it; its task
\* has begun no fewer frames, and more if it is sending one now.
Got(h, f) ==
  /\ Meant(f.topic) = {h} /\ f.num <= count[f.proc]
  /\ frame[f.proc] # Idle => f.num < count[f.proc]

\* The frames of one task reach a handler in their order.
InLine(s) ==
  \A i \in 1..Len(s) : \A j \in 1..(i - 1) : s[i].proc = s[j].proc => s[j].num < s[i].num

ChanInv ==
  /\ \A p \in Proc : InFlight(p)
  /\ \A h \in Handler : InLine(Taken(h)) /\ \A i \in 1..Len(Taken(h)) : Got(h, Taken(h)[i])
BackInv ==
  /\ \A f \in returned : Meant(f.topic) = {} /\ f.num <= count[f.proc]
  /\ \A f \in failed : Meant(f.topic) \subseteq closed /\ f.num <= count[f.proc]

\* What is proved of every state of the topic processor.
TopicInv == TopicTypeOK /\ ChanInv /\ BackInv

-----------------------------------------------------------------------------
(* What the steps do to what a handler takes. *)

\* They are frames.
LEMMA TakenType ==
  ASSUME TopicTypeOK, NEW h \in Handler
  PROVE  Taken(h) \in Seq(Frame)
BY ConcatProperties DEF TopicTypeOK, Taken

\* A frame that is sent comes last.
LEMMA ConcatAppend ==
  ASSUME NEW S, NEW a \in Seq(S), NEW b \in Seq(S), NEW e \in S
  PROVE  a \o Append(b, e) = Append(a \o b, e)
<1>1. /\ Append(b, e) \in Seq(S) /\ a \o b \in Seq(S) /\ a \o Append(b, e) \in Seq(S)
      /\ Append(a \o b, e) \in Seq(S)
      /\ Len(a \o Append(b, e)) = Len(a) + Len(b) + 1 /\ Len(Append(a \o b, e)) = Len(a) + Len(b) + 1
      /\ Len(a) \in Nat /\ Len(b) \in Nat
  BY ConcatProperties, AppendProperties, LenProperties
<1>2. ASSUME NEW i \in 1..(Len(a) + Len(b) + 1) PROVE (a \o Append(b, e))[i] = Append(a \o b, e)[i]
  BY <1>1, <1>2
<1> QED BY <1>1, <1>2, SeqEqual

\* A frame that is handled stays where it was.
LEMMA ConcatTail ==
  ASSUME NEW S, NEW a \in Seq(S), NEW b \in Seq(S), b # <<>>
  PROVE  Append(a, Head(b)) \o Tail(b) = a \o b
<1>1. /\ Head(b) \in S /\ Tail(b) \in Seq(S) /\ Len(Tail(b)) = Len(b) - 1
      /\ Len(a) \in Nat /\ Len(b) \in Nat /\ Head(b) = b[1]
      /\ \A i \in 1..Len(Tail(b)) : Tail(b)[i] = b[i + 1]
  BY HeadTailProperties, LenProperties
<1>2. /\ Append(a, Head(b)) \in Seq(S) /\ Len(Append(a, Head(b))) = Len(a) + 1
      /\ \A i \in 1..Len(a) : Append(a, Head(b))[i] = a[i]
      /\ Append(a, Head(b))[Len(a) + 1] = b[1]
  BY <1>1, AppendProperties
<1> DEFINE c == Append(a, Head(b))
<1>3. c \o Tail(b) \in Seq(S) /\ Len(c \o Tail(b)) = Len(a) + Len(b)
      /\ \A i \in 1..(Len(a) + Len(b)) :
           (c \o Tail(b))[i] = IF i <= Len(a) + 1 THEN c[i] ELSE Tail(b)[i - (Len(a) + 1)]
  <2> HIDE DEF c
  <2>1. c \in Seq(S) /\ Len(c) = Len(a) + 1 BY <1>2 DEF c
  <2>2. /\ c \o Tail(b) \in Seq(S) /\ Len(c \o Tail(b)) = Len(c) + Len(Tail(b))
        /\ \A i \in 1..(Len(c) + Len(Tail(b))) :
             (c \o Tail(b))[i] = IF i <= Len(c) THEN c[i] ELSE Tail(b)[i - Len(c)]
    BY <1>1, <2>1, ConcatProperties
  <2>3. Len(c) + Len(Tail(b)) = Len(a) + Len(b) BY <1>1, <2>1
  <2> QED BY <2>1, <2>2, <2>3
<1>4. a \o b \in Seq(S) /\ Len(a \o b) = Len(a) + Len(b)
      /\ \A i \in 1..(Len(a) + Len(b)) : (a \o b)[i] = IF i <= Len(a) THEN a[i] ELSE b[i - Len(a)]
  BY ConcatProperties
<1>5. ASSUME NEW i \in 1..(Len(a) + Len(b)) PROVE (c \o Tail(b))[i] = (a \o b)[i]
  <2> HIDE DEF c
  <2>1. CASE i <= Len(a)
    BY <1>1, <1>2, <1>3, <1>4, <1>5, <2>1 DEF c
  <2>2. CASE i = Len(a) + 1
    BY <1>1, <1>2, <1>3, <1>4, <1>5, <2>2 DEF c
  <2>3. CASE i > Len(a) + 1
    <3>1. i - (Len(a) + 1) \in 1..Len(Tail(b)) /\ (i - (Len(a) + 1)) + 1 = i - Len(a)
      BY <1>1, <1>5, <2>3
    <3>2. Tail(b)[i - (Len(a) + 1)] = b[i - Len(a)]
      BY <1>1, <3>1
    <3> QED BY <1>1, <1>3, <1>4, <1>5, <2>3, <3>2
  <2>4. i <= Len(a) \/ i = Len(a) + 1 \/ i > Len(a) + 1
    BY <1>1, <1>5
  <2> QED BY <2>1, <2>2, <2>3, <2>4
<1>6. c \o Tail(b) = a \o b
  <2> DEFINE d == c \o Tail(b)
  <2> DEFINE e == a \o b
  <2>1. d \in Seq(S) /\ e \in Seq(S) /\ Len(d) = Len(e) /\ \A i \in 1..Len(d) : d[i] = e[i]
    BY <1>3, <1>4, <1>5
  <2> HIDE DEF d, e
  <2>2. d = e BY <2>1, SeqEqual
  <2> QED BY <2>2 DEF d, e
<1> QED BY <1>6

\* Registration changes what frames are meant for, before there are any.
LEMMA RegisterInv ==
  ASSUME TopicInv, Registering,
         topics' \in [Topic -> Handler \cup {None}], prefixes' \in [Prefix -> Handler \cup {None}]
  PROVE  TopicInv'
<1>1. TopicTypeOK' BY DEF TopicInv, TopicTypeOK, Registering
<1>2. \A p \in Proc : count[p] = 0 BY DEF Registering
<1>3. ASSUME NEW f \in Frame PROVE ~(f.num <= count[f.proc])
  <2>1. f.num \in 1..MaxFrames /\ f.proc \in Proc BY <1>3 DEF Frame
  <2> QED BY <1>2, <2>1, TopicAssumption
<1>4. \A p \in Proc : frame[p] = Idle
  <2> SUFFICES ASSUME NEW p \in Proc, frame[p] # Idle PROVE FALSE
    OBVIOUS
  <2>1. frame[p].f \in Frame /\ frame[p].f.proc = p /\ frame[p].f.num = count[p]
    BY DEF TopicInv, TopicTypeOK, Sending, ChanInv, InFlight
  <2>2. count[p] = 0 BY <1>2
  <2> QED BY <1>3, <2>1, <2>2
<1>5. \A h \in Handler : Len(Taken(h)) = 0
  <2> SUFFICES ASSUME NEW h \in Handler, Len(Taken(h)) # 0 PROVE FALSE
    OBVIOUS
  <2>1. Taken(h) \in Seq(Frame) /\ Len(Taken(h)) \in Nat BY TakenType, LenProperties DEF TopicInv
  <2>2. 1 \in 1..Len(Taken(h)) /\ Taken(h)[1] \in Frame BY <2>1
  <2> QED BY <1>3, <2>2 DEF TopicInv, ChanInv, Got
<1>6. returned = {} /\ failed = {}
  BY <1>3 DEF TopicInv, TopicTypeOK, BackInv
<1>7. \A h \in Handler : Taken(h)' = Taken(h) BY DEF Taken, Registering
<1>8. ChanInv'
  BY <1>4, <1>5, <1>7 DEF ChanInv, InFlight, InLine, Registering
<1>9. BackInv' BY <1>6 DEF BackInv, Registering
<1> QED BY <1>1, <1>8, <1>9 DEF TopicInv

\* process looks the handler up.
LEMMA ProcessInv ==
  ASSUME TopicInv, NEW p \in Proc, NEW t \in Topic, Process(p, t)
  PROVE  TopicInv'
<1>2. /\ topics \in [Topic -> Handler \cup {None}] /\ prefixes \in [Prefix -> Handler \cup {None}]
      /\ frame \in [Proc -> Sending \cup {Idle}] /\ count \in [Proc -> 0..MaxFrames]
      /\ returned \subseteq Frame /\ failed \subseteq Frame /\ MaxFrames \in Nat
  BY TopicAssumption DEF TopicInv, TopicTypeOK
<1>0. count[p] + 1 \in 1..MaxFrames
  <2>1. count[p] \in 0..MaxFrames /\ count[p] < MaxFrames BY <1>2 DEF Process
  <2> QED BY <1>2, <2>1
<1>7. PICK g \in Frame : g = [topic |-> t, proc |-> p, num |-> count[p] + 1]
  BY <1>0 DEF Frame
<1>1. /\ frame[p] = Idle /\ count[p] < MaxFrames /\ count' = [count EXCEPT ![p] = @ + 1]
      /\ UNCHANGED <<topics, prefixes, chan, closed, handled, failed>>
      /\ \/ Lookup(t) # None /\ frame' = [frame EXCEPT ![p] = [f |-> g, to |-> Lookup(t)]] /\ UNCHANGED returned
         \/ Lookup(t) = None /\ returned' = returned \cup {g} /\ UNCHANGED frame
  BY <1>7 DEF Process, regVars
<1>3. /\ Lookup(t) \in Handler \cup {None}
      /\ Lookup(t) = None => Meant(t) = {}
      /\ Lookup(t) # None => Meant(t) = {Lookup(t)}
  BY <1>2, LookupMeant, TopicAssumption
<1>4. \A x : Meant(x)' = Meant(x) BY <1>1 DEF Meant, Matching
<1>5. \A h \in Handler : Taken(h)' = Taken(h) BY <1>1 DEF Taken
<1>6. /\ count' \in [Proc -> 0..MaxFrames] /\ count'[p] = count[p] + 1 /\ count[p] \in Nat
      /\ \A q \in Proc : q # p => count'[q] = count[q]
      /\ \A q \in Proc : count'[q] \in Nat /\ count[q] <= count'[q]
  BY <1>1, <1>2
<1>8. \A q \in Proc : q # p => frame'[q] = frame[q]
  BY <1>1, <1>2
<1>9. frame' \in [Proc -> Sending \cup {Idle}]
  BY <1>1, <1>2, <1>3, <1>7 DEF Sending
<1>10. TopicTypeOK'
  <2>1. returned' \subseteq Frame BY <1>1, <1>2
  <2> QED BY <1>1, <1>6, <1>9, <2>1 DEF TopicInv, TopicTypeOK
<1>11. InFlight(p)'
  <2>1. CASE Lookup(t) # None
    <3>1. frame'[p] = [f |-> g, to |-> Lookup(t)] BY <1>1, <1>2, <2>1
    <3> QED BY <1>3, <1>4, <1>6, <1>7, <2>1, <3>1 DEF InFlight
  <2>2. CASE Lookup(t) = None
    <3>1. frame'[p] = Idle BY <1>1, <2>2
    <3> QED BY <3>1 DEF InFlight
  <2> QED BY <2>1, <2>2
<1>12. \A q \in Proc : InFlight(q)'
  BY <1>4, <1>6, <1>8, <1>11 DEF TopicInv, ChanInv, InFlight
<1>13. ASSUME NEW h \in Handler, NEW f \in Frame, Got(h, f) PROVE Got(h, f)'
  <2>1. f.proc \in Proc /\ f.num \in Nat BY <1>2, <1>13 DEF Frame
  <2>2. CASE f.proc = p BY <1>4, <1>6, <1>13, <2>1, <2>2 DEF Got
  <2>3. CASE f.proc # p BY <1>4, <1>6, <1>8, <1>13, <2>1, <2>3 DEF Got
  <2> QED BY <2>2, <2>3
<1>14. ASSUME NEW h \in Handler
       PROVE  InLine(Taken(h))' /\ \A i \in 1..Len(Taken(h)') : Got(h, Taken(h)[i])'
  <2>1. Taken(h) \in Seq(Frame) BY TakenType DEF TopicInv
  <2>2. \A i \in 1..Len(Taken(h)) : Taken(h)[i] \in Frame BY <2>1
  <2>3. InLine(Taken(h)) /\ \A i \in 1..Len(Taken(h)) : Got(h, Taken(h)[i])
    BY DEF TopicInv, ChanInv
  <2>4. \A i \in 1..Len(Taken(h)) : Got(h, Taken(h)[i])'
    BY <1>5, <1>13, <2>2, <2>3
  <2> QED BY <1>5, <2>3, <2>4 DEF InLine
<1>15. BackInv'
  <2>1. ASSUME NEW f \in Frame, f.num <= count[f.proc] PROVE f.num <= count'[f.proc]
    <3>1. f.proc \in Proc /\ f.num \in Nat BY <1>2, <2>1 DEF Frame
    <3>2. count[f.proc] \in Nat BY <1>2, <3>1
    <3> QED BY <1>6, <2>1, <3>1, <3>2
  <2>2. \A f \in failed' : Meant(f.topic)' \subseteq closed' /\ f.num <= count'[f.proc]
    BY <1>1, <1>2, <1>4, <2>1 DEF TopicInv, BackInv
  <2>3. \A f \in returned : Meant(f.topic)' = {} /\ f.num <= count'[f.proc]
    BY <1>2, <1>4, <2>1 DEF TopicInv, BackInv
  <2>4. CASE Lookup(t) # None BY <1>1, <2>2, <2>3, <2>4 DEF BackInv
  <2>5. CASE Lookup(t) = None
    <3>1. Meant(g.topic)' = {} /\ g.num <= count'[g.proc] BY <1>3, <1>4, <1>6, <1>7, <2>5
    <3>2. returned' = returned \cup {g} BY <1>1, <2>5
    <3>3. \A f \in returned' : Meant(f.topic)' = {} /\ f.num <= count'[f.proc]
      BY <2>3, <3>1, <3>2
    <3> QED BY <2>2, <3>3 DEF BackInv
  <2> QED BY <2>4, <2>5
<1> QED BY <1>10, <1>12, <1>14, <1>15 DEF TopicInv, ChanInv

\* The frame goes to the end of the channel: it is later than all others of
\* its task that the handler has got.
LEMMA SendInv ==
  ASSUME TopicInv, NEW p \in Proc, Send(p)
  PROVE  TopicInv'
<1>2. /\ frame \in [Proc -> Sending \cup {Idle}] /\ count \in [Proc -> 0..MaxFrames] /\ MaxFrames \in Nat
      /\ chan \in [Handler -> Seq(Frame)] /\ handled \in [Handler -> Seq(Frame)]
  BY TopicAssumption DEF TopicInv, TopicTypeOK
<1>s. frame[p] \in Sending BY <1>2 DEF Send
<1>k. PICK k \in Handler : k = frame[p].to BY <1>s DEF Sending
<1>g. PICK g \in Frame : g = frame[p].f BY <1>s DEF Sending
<1>1. /\ frame[p] # Idle /\ chan' = [chan EXCEPT ![k] = Append(@, g)]
      /\ frame' = [frame EXCEPT ![p] = Idle]
      /\ UNCHANGED <<topics, prefixes, count, closed, handled, returned, failed>>
  BY <1>k, <1>g DEF Send, regVars
<1>3. k \in Handler /\ g \in Frame /\ g.proc = p /\ g.num = count[p] /\ Meant(g.topic) = {k}
  BY <1>1, <1>k, <1>g DEF TopicInv, ChanInv, InFlight
<1>4. \A x : Meant(x)' = Meant(x) BY <1>1 DEF Meant, Matching
<1>5. frame'[p] = Idle /\ \A q \in Proc : q # p => frame'[q] = frame[q]
  BY <1>1, <1>2
<1>6. TopicTypeOK'
  <2>1. chan' \in [Handler -> Seq(Frame)]
    BY <1>1, <1>2, <1>3, AppendProperties
  <2>2. frame' \in [Proc -> Sending \cup {Idle}] BY <1>1, <1>2
  <2> QED BY <1>1, <2>1, <2>2 DEF TopicInv, TopicTypeOK
<1>7. \A q \in Proc : InFlight(q)'
  BY <1>1, <1>4, <1>5 DEF TopicInv, ChanInv, InFlight
<1>8. ASSUME NEW h \in Handler, NEW f \in Frame, Got(h, f) PROVE Got(h, f)'
  <2>1. f.proc \in Proc BY <1>8 DEF Frame
  <2> QED BY <1>1, <1>4, <1>5, <1>8, <2>1 DEF Got
<1>9. ASSUME NEW h \in Handler
      PROVE  InLine(Taken(h))' /\ \A i \in 1..Len(Taken(h)') : Got(h, Taken(h)[i])'
  <2>0. PICK s \in Seq(Frame) : s = Taken(h) BY TakenType DEF TopicInv
  <2>1. s \in Seq(Frame) /\ Len(s) \in Nat /\ \A i \in 1..Len(s) : s[i] \in Frame
    BY LenProperties
  <2>2. InLine(s) /\ \A i \in 1..Len(s) : Got(h, s[i])
    BY <2>0 DEF TopicInv, ChanInv
  <2>3. CASE h # k
    <3>1. Taken(h)' = s BY <1>1, <1>2, <2>0, <2>3 DEF Taken
    <3>2. \A i \in 1..Len(s) : Got(h, s[i])' BY <1>8, <2>1, <2>2, <3>1
    <3> QED BY <2>2, <3>1, <3>2 DEF InLine
  <2>4. CASE h = k
    <3>1. Taken(h)' = Append(s, g)
      <4>1. chan'[h] = Append(chan[h], g) /\ handled'[h] = handled[h]
        BY <1>1, <1>2, <1>3, <2>4
      <4> QED BY <1>2, <1>3, <2>0, <4>1, ConcatAppend DEF Taken
    <3>2. /\ Len(Append(s, g)) = Len(s) + 1 /\ Append(s, g)[Len(s) + 1] = g
          /\ \A i \in 1..Len(s) : Append(s, g)[i] = s[i]
      BY <1>3, <2>1, AppendProperties
    <3>3. Got(h, g)'
      BY <1>1, <1>2, <1>3, <1>4, <1>5, <2>4 DEF Got
    <3>4. \A i \in 1..Len(s) : s[i].proc = p => s[i].num < g.num
      BY <1>1, <1>3, <2>2 DEF Got
    <3>5. ASSUME NEW i \in 1..(Len(s) + 1), NEW j \in 1..(i - 1),
                 Append(s, g)[i].proc = Append(s, g)[j].proc
          PROVE  Append(s, g)[j].num < Append(s, g)[i].num
      <4>1. j \in 1..Len(s) BY <2>1, <3>5
      <4>2. CASE i = Len(s) + 1 BY <1>3, <3>2, <3>4, <3>5, <4>1, <4>2
      <4>3. CASE i # Len(s) + 1
        <5>1. i \in 1..Len(s) BY <2>1, <3>5, <4>3
        <5> QED BY <2>2, <3>2, <3>5, <4>1, <5>1 DEF InLine
      <4> QED BY <4>2, <4>3
    <3>6. ASSUME NEW i \in 1..(Len(s) + 1) PROVE Got(h, Append(s, g)[i])'
      <4>1. CASE i = Len(s) + 1
        <5>1. Append(s, g)[i] = g BY <3>2, <4>1
        <5> QED BY <3>3, <5>1
      <4>2. CASE i # Len(s) + 1
        <5>1. i \in 1..Len(s) BY <2>1, <3>6, <4>2
        <5> QED BY <1>8, <2>1, <2>2, <3>2, <5>1
      <4> QED BY <4>1, <4>2
    <3> QED BY <3>1, <3>2, <3>5, <3>6 DEF InLine
  <2> QED BY <2>3, <2>4
<1>10. BackInv' BY <1>1, <1>4 DEF TopicInv, BackInv
<1> QED BY <1>6, <1>7, <1>9, <1>10 DEF TopicInv, ChanInv

\* A send that fails is one to a handler that is gone.
LEMMA SendFailInv ==
  ASSUME TopicInv, NEW p \in Proc, SendFail(p)
  PROVE  TopicInv'
<1>2. /\ frame \in [Proc -> Sending \cup {Idle}] /\ count \in [Proc -> 0..MaxFrames]
      /\ MaxFrames \in Nat /\ failed \subseteq Frame
  BY TopicAssumption DEF TopicInv, TopicTypeOK
<1>s. frame[p] \in Sending BY <1>2 DEF SendFail
<1>k. PICK k \in Handler : k = frame[p].to BY <1>s DEF Sending
<1>g. PICK g \in Frame : g = frame[p].f BY <1>s DEF Sending
<1>1. /\ frame[p] # Idle /\ k \in closed /\ failed' = failed \cup {g}
      /\ frame' = [frame EXCEPT ![p] = Idle]
      /\ UNCHANGED <<topics, prefixes, count, chan, closed, handled, returned>>
  BY <1>k, <1>g DEF SendFail, regVars
<1>3. g.proc = p /\ g.num = count[p] /\ Meant(g.topic) = {k}
  BY <1>1, <1>k, <1>g DEF TopicInv, ChanInv, InFlight
<1>4. \A x : Meant(x)' = Meant(x) BY <1>1 DEF Meant, Matching
<1>5. frame'[p] = Idle /\ \A q \in Proc : q # p => frame'[q] = frame[q]
  BY <1>1, <1>2
<1>6. TopicTypeOK'
  <2>1. failed' \subseteq Frame BY <1>1, <1>2
  <2>2. frame' \in [Proc -> Sending \cup {Idle}] BY <1>1, <1>2
  <2> QED BY <1>1, <2>1, <2>2 DEF TopicInv, TopicTypeOK
<1>7. \A q \in Proc : InFlight(q)'
  BY <1>1, <1>4, <1>5 DEF TopicInv, ChanInv, InFlight
<1>8. ASSUME NEW h \in Handler, NEW f \in Frame, Got(h, f) PROVE Got(h, f)'
  <2>1. f.proc \in Proc BY <1>8 DEF Frame
  <2> QED BY <1>1, <1>4, <1>5, <1>8, <2>1 DEF Got
<1>9. ASSUME NEW h \in Handler
      PROVE  InLine(Taken(h))' /\ \A i \in 1..Len(Taken(h)') : Got(h, Taken(h)[i])'
  <2>0. PICK s \in Seq(Frame) : s = Taken(h) BY TakenType DEF TopicInv
  <2>1. \A i \in 1..Len(s) : s[i] \in Frame OBVIOUS
  <2>2. InLine(s) /\ \A i \in 1..Len(s) : Got(h, s[i])
    BY <2>0 DEF TopicInv, ChanInv
  <2>3. Taken(h)' = s BY <1>1, <2>0 DEF Taken
  <2>4. \A i \in 1..Len(s) : Got(h, s[i])' BY <1>8, <2>1, <2>2
  <2> QED BY <2>2, <2>3, <2>4 DEF InLine
<1>10. BackInv'
  <2>1. Meant(g.topic)' \subseteq closed' /\ g.num <= count'[g.proc]
    BY <1>1, <1>2, <1>3, <1>4
  <2>2. \A f \in failed : Meant(f.topic)' \subseteq closed' /\ f.num <= count'[f.proc]
    BY <1>1, <1>4 DEF TopicInv, BackInv
  <2>3. \A f \in returned' : Meant(f.topic)' = {} /\ f.num <= count'[f.proc]
    BY <1>1, <1>4 DEF TopicInv, BackInv
  <2>4. \A f \in failed' : Meant(f.topic)' \subseteq closed' /\ f.num <= count'[f.proc]
    BY <1>1, <2>1, <2>2
  <2> QED BY <2>3, <2>4 DEF BackInv
<1> QED BY <1>6, <1>7, <1>9, <1>10 DEF TopicInv, ChanInv

\* A step that leaves the registrations and the tasks alone, and what each
\* handler has got or will get, keeps the invariant.
LEMMA SameTaken ==
  ASSUME TopicInv, TopicTypeOK', UNCHANGED <<topics, prefixes, frame, count, returned, failed>>,
         closed \subseteq closed', \A h \in Handler : Taken(h)' = Taken(h)
  PROVE  TopicInv'
<1>1. \A x : Meant(x)' = Meant(x) BY DEF Meant, Matching
<1>2. \A q \in Proc : InFlight(q)' BY <1>1 DEF TopicInv, ChanInv, InFlight
<1>3. ASSUME NEW h \in Handler
      PROVE  InLine(Taken(h))' /\ \A i \in 1..Len(Taken(h)') : Got(h, Taken(h)[i])'
  BY <1>1 DEF TopicInv, ChanInv, InLine, Got
<1>4. BackInv' BY <1>1 DEF TopicInv, BackInv
<1> QED BY <1>2, <1>3, <1>4 DEF TopicInv, ChanInv

\* A handler takes the first frame of its channel.
LEMMA HandleInv ==
  ASSUME TopicInv, NEW k \in Handler, Handle(k)
  PROVE  TopicInv'
<1>1. chan \in [Handler -> Seq(Frame)] /\ handled \in [Handler -> Seq(Frame)]
  BY DEF TopicInv, TopicTypeOK
<1>2. PICK b \in Seq(Frame) : b = chan[k] BY <1>1
<1>3. PICK a \in Seq(Frame) : a = handled[k] BY <1>1
<1>4. /\ b # <<>> /\ chan' = [chan EXCEPT ![k] = Tail(b)]
      /\ handled' = [handled EXCEPT ![k] = Append(a, Head(b))]
      /\ UNCHANGED <<topics, prefixes, frame, count, closed, returned, failed>>
  BY <1>2, <1>3 DEF Handle, regVars
<1>5. Tail(b) \in Seq(Frame) /\ Head(b) \in Frame /\ Append(a, Head(b)) \in Seq(Frame)
  BY <1>4, HeadTailProperties, AppendProperties
<1>6. TopicTypeOK'
  <2>1. chan' \in [Handler -> Seq(Frame)] BY <1>1, <1>4, <1>5
  <2>2. handled' \in [Handler -> Seq(Frame)] BY <1>1, <1>4, <1>5
  <2> QED BY <1>4, <2>1, <2>2 DEF TopicInv, TopicTypeOK
<1>7. ASSUME NEW h \in Handler PROVE Taken(h)' = Taken(h)
  <2>1. CASE h = k
    <3>1. chan'[h] = Tail(b) /\ handled'[h] = Append(a, Head(b)) BY <1>1, <1>4, <2>1
    <3>2. Append(a, Head(b)) \o Tail(b) = a \o b BY <1>4, ConcatTail
    <3> QED BY <1>2, <1>3, <2>1, <3>1, <3>2 DEF Taken
  <2>2. CASE h # k
    BY <1>1, <1>4, <2>2 DEF Taken
  <2> QED BY <2>1, <2>2
<1> QED BY <1>4, <1>6, <1>7, SameTaken

\* A handler that gives its receiver up is gone for good.
LEMMA CloseInv ==
  ASSUME TopicInv, NEW k \in Handler, Close(k)
  PROVE  TopicInv'
<1>1. /\ closed' = closed \cup {k}
      /\ UNCHANGED <<topics, prefixes, frame, count, chan, handled, returned, failed>>
  BY DEF Close, regVars
<1>2. TopicTypeOK' BY <1>1 DEF TopicInv, TopicTypeOK
<1>3. \A h \in Handler : Taken(h)' = Taken(h) BY <1>1 DEF Taken
<1> QED BY <1>1, <1>2, <1>3, SameTaken

-----------------------------------------------------------------------------

\* A broker of topics starts with no frames.
LEMMA InitTopicInv ==
  ASSUME TopicInit
  PROVE  TopicInv
<1>1. TopicTypeOK BY TopicAssumption DEF TopicInit, TopicTypeOK
<1>2. \A h \in Handler : Len(Taken(h)) = 0
  BY DEF TopicInit, Taken
<1>3. ChanInv BY <1>2 DEF ChanInv, InFlight, InLine, TopicInit
<1>4. BackInv BY DEF BackInv, TopicInit
<1> QED BY <1>1, <1>3, <1>4 DEF TopicInv

\* Every step of the registration, of process and of the handlers keeps it.
LEMMA StepTopicInv ==
  ASSUME TopicInv, [TopicNext]_topicVars
  PROVE  TopicInv'
<1>1. ASSUME NEW h \in Handler, NEW t \in Topic, RegisterTopic(t, h) PROVE TopicInv'
  <2>1. /\ topics' \in [Topic -> Handler \cup {None}] /\ prefixes' \in [Prefix -> Handler \cup {None}]
        /\ Registering
    BY <1>1 DEF RegisterTopic, TopicInv, TopicTypeOK
  <2> QED BY <2>1, RegisterInv
<1>2. ASSUME NEW h \in Handler, NEW x \in Prefix, RegisterPrefix(x, h) PROVE TopicInv'
  <2>1. /\ topics' \in [Topic -> Handler \cup {None}] /\ prefixes' \in [Prefix -> Handler \cup {None}]
        /\ Registering
    BY <1>2 DEF RegisterPrefix, TopicInv, TopicTypeOK
  <2> QED BY <2>1, RegisterInv
<1>3. ASSUME NEW h \in Handler, Handle(h) PROVE TopicInv'
  BY <1>3, HandleInv
<1>4. ASSUME NEW h \in Handler, Close(h) PROVE TopicInv'
  BY <1>4, CloseInv
<1>5. ASSUME NEW p \in Proc, NEW t \in Topic, Process(p, t) PROVE TopicInv'
  BY <1>5, ProcessInv
<1>6. ASSUME NEW p \in Proc, Send(p) PROVE TopicInv'
  BY <1>6, SendInv
<1>7. ASSUME NEW p \in Proc, SendFail(p) PROVE TopicInv'
  BY <1>7, SendFailInv
<1>8. CASE UNCHANGED topicVars
  <2>1. UNCHANGED <<topics, prefixes, frame, count, chan, closed, handled, returned, failed>>
    BY <1>8 DEF topicVars, regVars
  <2>2. TopicTypeOK' BY <2>1 DEF TopicInv, TopicTypeOK
  <2>3. \A h \in Handler : Taken(h)' = Taken(h) BY <2>1 DEF Taken
  <2> QED BY <2>1, <2>2, <2>3, SameTaken
<1> QED BY <1>1, <1>2, <1>3, <1>4, <1>5, <1>6, <1>7, <1>8 DEF TopicNext

\* It says where each frame goes.
LEMMA InvFrames == TopicInv => FrameToItsHandler
  BY DEF TopicInv, ChanInv, BackInv, InLine, Got, FrameToItsHandler

\* A frame goes to the handler of its topic, else to that of the shortest
\* registered prefix, once and in the order of its task, or the caller is
\* told (TopicBroker::process), whatever is registered and whichever tasks
\* process frames.
THEOREM FramesReachHandlers == TopicSpec => []FrameToItsHandler
<1>1. TopicInit => TopicInv
  BY InitTopicInv
<1>2. TopicInv /\ [TopicNext]_topicVars => TopicInv'
  BY StepTopicInv
<1> QED BY <1>1, <1>2, InvFrames, PTL DEF TopicSpec

-----------------------------------------------------------------------------
(* The types of the buffered writer.                                       *)

\* A queue keeps its type when the first occurrence of a task leaves it.
LEMMA RemoveFirstType ==
  ASSUME NEW S, NEW s \in Seq(S), NEW e
  PROVE  RemoveFirst(s, e) \in Seq(S)
<1> DEFINE I == {i \in 1..Len(s) : s[i] = e}
<1> DEFINE R == OpToRel(<, Nat)
<1>0. Len(s) \in Nat BY LenProperties
<1>1. I \subseteq Nat /\ I \subseteq 1..Len(s) BY <1>0
<1>2. CASE I = {}
  <2>1. RemoveFirst(s, e) = s BY <1>2 DEF RemoveFirst
  <2> QED BY <2>1
<1>3. CASE I # {}
  <2>1. IsWellFoundedOn(R, Nat)
    BY NatLessThanWellFounded
  <2>2. PICK m \in I : \A k \in I : ~(<<k, m>> \in R)
    <3> HIDE DEF I, R
    <3> QED BY <1>1, <1>3, <2>1, WFMin
  <2>3. RemoveFirst(s, e) = RemoveAt(s, Min(I))
    BY <1>3 DEF RemoveFirst, SelectInSeq
  <2> HIDE DEF I
  <2>4. \A k \in I : ~(k < m)
    BY <1>1, <2>2 DEF OpToRel
  <2> HIDE DEF R
  <2>5. \A k \in I : m <= k
    BY <1>1, <2>4
  <2>6. Min(I) \in I
    BY <2>5 DEF Min
  <2>7. Min(I) \in 1..Len(s) BY <1>1, <2>6
  <2>8. ASSUME NEW i \in 1..Len(s) PROVE RemoveAt(s, i) \in Seq(S)
    <3>1. SubSeq(s, 1, i - 1) \in Seq(S) /\ SubSeq(s, i + 1, Len(s)) \in Seq(S)
      BY <1>0, <2>8
    <3> QED BY <3>1 DEF RemoveAt
  <2> QED BY <2>3, <2>7, <2>8
<1> QED BY <1>2, <1>3

\* The numbers of the writes so far are among those of the writes to come.
LEMMA SeqWiden ==
  ASSUME NEW S, NEW T, S \subseteq T, NEW s \in Seq(S)
  PROVE  s \in Seq(T)
  OBVIOUS

\* What is in a sequence is of its type.
LEMMA ToSetType ==
  ASSUME NEW S, NEW s \in Seq(S)
  PROVE  ToSet(s) \subseteq S
  BY DEF ToSet

\* A task that leaves the queue of the lock, the flusher that is aborted
\* included.
LEMMA LockTypes ==
  ASSUME BufTypeOK, NEW t \in Tasks
  PROVE  /\ RemoveFirst(lock, t) \in Seq(Tasks)
         /\ Append(lock, t) \in Seq(Tasks)
         /\ Append(RemoveFirst(lock, "flusher"), t) \in Seq(Tasks)
<1>1. lock \in Seq(Tasks)
  BY DEF BufTypeOK
<1>2. RemoveFirst(lock, t) \in Seq(Tasks) /\ RemoveFirst(lock, "flusher") \in Seq(Tasks)
  BY <1>1, RemoveFirstType
<1> QED BY <1>1, <1>2

\* Writing the buffer out from the front.
LEMMA DrainTypes ==
  ASSUME BufTypeOK, Drain
  PROVE  /\ buffer' \in Seq(1..n) /\ Len(buffer') <= Cap
         /\ sink' \in Seq(1..n)
<1>1. buffer \in Seq(1..n) /\ Len(buffer) <= Cap /\ sink \in Seq(1..n) /\ buffer # <<>>
  BY DEF BufTypeOK, Drain
<1>2. Head(buffer) \in 1..n /\ Tail(buffer) \in Seq(1..n)
  BY <1>1, HeadTailProperties
<1>3. Len(Tail(buffer)) = Len(buffer) - 1 /\ Len(buffer) \in Nat
  BY <1>1
<1> QED BY <1>1, <1>2, <1>3, BufAssumption DEF Drain

\* Every step of write, of the flusher and of the drop keeps the types; that
\* write_all has a write to store comes from FlushInv.
LEMMA StepBufTypes ==
  ASSUME BufTypeOK, FlushInv, [BufNext]_bufVars
  PROVE  BufTypeOK'
<1>l. \A t \in Tasks : /\ RemoveFirst(lock, t) \in Seq(Tasks)
                       /\ Append(lock, t) \in Seq(Tasks)
                       /\ Append(RemoveFirst(lock, "flusher"), t) \in Seq(Tasks)
  BY LockTypes
<1>s. ToSet(buffer) \subseteq 1..n
  BY ToSetType DEF BufTypeOK
<1>k. {"writer", "flusher", "dropper"} \subseteq Tasks
  BY DEF Tasks
<1>1. ASSUME NEW f \in Flush, Write(f) PROVE BufTypeOK'
  <2>1. n' \in 0..MaxWrites /\ 1..n \subseteq 1..n'
    BY <1>1, BufAssumption DEF Write, BufTypeOK
  <2>2. buffer' \in Seq(1..n') /\ sink' \in Seq(1..n')
    <3>1. buffer' = buffer /\ sink' = sink /\ buffer \in Seq(1..n) /\ sink \in Seq(1..n)
      BY <1>1 DEF Write, BufTypeOK
    <3> QED BY <2>1, <3>1, SeqWiden
  <2> QED BY <1>l, <1>k, <1>1, <2>1, <2>2 DEF Write, BufTypeOK
<1>2. CASE WriteAll
  <2>1. n \in 1..n
    BY <1>2 DEF WriteAll, FlushInv, NotYetDue, BufTypeOK
  <2>2. buffer \in Seq(1..n) /\ Len(buffer) < Cap
    BY <1>2, BufAssumption DEF WriteAll, BufTypeOK
  <2>3. Append(buffer, n) \in Seq(1..n) /\ Len(Append(buffer, n)) <= Cap
    <3>1. Len(Append(buffer, n)) = Len(buffer) + 1 /\ Len(buffer) \in Nat
      BY <2>2
    <3> QED BY <2>1, <2>2, <3>1, BufAssumption
  <2>4. sink \in Seq(1..n) /\ Append(sink, n) \in Seq(1..n)
    BY <2>1 DEF BufTypeOK
  <2>5. buffer = <<>> => Append(buffer, n) = <<n>>
    OBVIOUS
  <2>6. /\ buffer' = Append(buffer, n) \/ buffer' = buffer
        /\ sink' = Append(sink, n) \/ sink' = sink
    BY <1>2, <2>5 DEF WriteAll
  <2>7. buffer' \in Seq(1..n) /\ Len(buffer') <= Cap /\ sink' \in Seq(1..n)
    BY <2>2, <2>3, <2>4, <2>6 DEF BufTypeOK
  <2> QED BY <1>2, <2>7 DEF WriteAll, BufTypeOK
<1>3. CASE Spill
  BY <1>3, DrainTypes DEF Spill, BufTypeOK
<1>4. CASE WriteEnd
  <2>1. n \in 1..n
    BY <1>4 DEF WriteEnd, FlushInv, NotYetDue, BufTypeOK
  <2>2. token' \in BOOLEAN
    BY <1>4 DEF WriteEnd
  <2> QED BY <1>l, <1>k, <1>4, <2>1, <2>2 DEF WriteEnd, BufTypeOK, Leave
<1>5. CASE WriteFlush
  <2>1. CASE Drain /\ wpc' = "flush" /\ UNCHANGED lock
    BY <1>5, <2>1, DrainTypes DEF WriteFlush, BufTypeOK
  <2>2. CASE buffer = <<>> /\ wpc' = "idle" /\ Leave("writer") /\ UNCHANGED <<buffer, sink>>
    BY <1>l, <1>k, <1>5, <2>2 DEF WriteFlush, BufTypeOK, Leave
  <2> QED BY <1>5, <2>1, <2>2 DEF WriteFlush
<1>6. CASE WriteError
  <2>1. token' \in BOOLEAN
    BY <1>6 DEF WriteError
  <2> QED BY <1>l, <1>k, <1>6, <2>1 DEF WriteError, BufTypeOK, Leave
<1>7. CASE WriteCancel
  BY <1>l, <1>k, <1>7 DEF WriteCancel, BufTypeOK, Leave
<1>8. CASE FlusherRecv
  BY <1>8 DEF FlusherRecv, BufTypeOK
<1>9. CASE FlusherLock
  BY <1>l, <1>k, <1>9 DEF FlusherLock, BufTypeOK
<1>10. CASE FlusherFlush
  <2>1. CASE Drain /\ UNCHANGED <<fpc, lock>>
    BY <1>10, <2>1, DrainTypes DEF FlusherFlush, BufTypeOK
  <2>2. CASE buffer = <<>> /\ fpc' = "recv" /\ Leave("flusher") /\ UNCHANGED <<buffer, sink>>
    BY <1>l, <1>k, <1>10, <2>2 DEF FlusherFlush, BufTypeOK, Leave
  <2> QED BY <1>10, <2>1, <2>2 DEF FlusherFlush
<1>11. CASE FlusherGiveUp
  BY <1>l, <1>k, <1>s, <1>11 DEF FlusherGiveUp, BufTypeOK, Leave
<1>12. CASE Drop
  BY <1>l, <1>k, <1>12 DEF Drop, BufTypeOK
<1>13. CASE DropFlush
  <2>1. CASE Drain /\ UNCHANGED <<dpc, lock>>
    BY <1>13, <2>1, DrainTypes DEF DropFlush, BufTypeOK
  <2>2. CASE buffer = <<>> /\ dpc' = "done" /\ Leave("dropper") /\ UNCHANGED <<buffer, sink>>
    BY <1>l, <1>k, <1>13, <2>2 DEF DropFlush, BufTypeOK, Leave
  <2> QED BY <1>13, <2>1, <2>2 DEF DropFlush
<1>14. CASE DropGiveUp
  BY <1>l, <1>k, <1>s, <1>14 DEF DropGiveUp, BufTypeOK, Leave
<1>15. CASE UNCHANGED bufVars
  BY <1>15 DEF bufVars, BufTypeOK
<1>16. CASE NoRoom
  BY <1>16 DEF NoRoom, BufTypeOK
<1> QED
  BY <1>1, <1>2, <1>3, <1>4, <1>5, <1>6, <1>7, <1>8, <1>9, <1>10, <1>11, <1>12,
     <1>13, <1>14, <1>15, <1>16 DEF BufNext, WriteStep, Flusher, Dropper

\* They hold at the start.
LEMMA InitBufTypes == BufInit => BufTypeOK
<1> SUFFICES ASSUME BufInit PROVE BufTypeOK
  OBVIOUS
<1>1. n = 0 /\ buffer = <<>> /\ sink = <<>> /\ lock = <<>>
  BY DEF BufInit
<1>2. buffer \in Seq(1..n) /\ sink \in Seq(1..n) /\ lock \in Seq(Tasks) /\ Len(buffer) = 0
  BY <1>1, EmptySeq
<1>3. n \in 0..MaxWrites /\ Len(buffer) <= Cap
  BY <1>1, <1>2, BufAssumption
<1> QED BY <1>2, <1>3 DEF BufInit, BufTypeOK, Flush

-----------------------------------------------------------------------------
(* The types of the daemon.                                                *)

\* Every step of main and of a handler keeps the types.
LEMMA StepDaemonTypes ==
  ASSUME DaemonTypeOK, [DaemonNext]_daemonVars
  PROVE  DaemonTypeOK'
<1> USE DEF DaemonTypeOK, fileVars, histVars
<1>1. CASE Start \/ WritePid \/ NotePid \/ LockSocks \/ UnlockSocks \/ Ready \/ Return \/ Kill
  BY <1>1 DEF Start, WritePid, NotePid, LockSocks, UnlockSocks, Ready, Return, Kill
<1>2. ASSUME NEW x \in Path, Bind(x) PROVE DaemonTypeOK'
  BY <1>2 DEF Bind
<1>3. ASSUME NEW s \in Signal, Listen(s) \/ RemoveSocks(s) \/ LockBroker(s) \/ Announce(s) \/ Store(s)
      PROVE  DaemonTypeOK'
  <2>1. hpc' \in [Signal -> {"none", "recv", "pid", "sock", "broker", "announce", "store", "sleep"}]
    BY <1>3 DEF Listen, RemoveSocks, LockBroker, Announce, Store
  <2>2. hasty' \in BOOLEAN
    BY <1>3 DEF Listen, RemoveSocks, LockBroker, Announce, Store
  <2> QED BY <1>3, <2>1, <2>2 DEF Listen, RemoveSocks, LockBroker, Announce, Store
<1>4. ASSUME NEW s \in Signal, Recv(s) PROVE DaemonTypeOK'
  <2>1. early' \in BOOLEAN
    BY <1>4 DEF Recv
  <2> QED BY <1>4, <2>1 DEF Recv
<1>5. ASSUME NEW s \in Signal, RemovePid(s) PROVE DaemonTypeOK'
  <2>1. pidFile' \in BOOLEAN
    BY <1>5 DEF RemovePid
  <2> QED BY <1>5, <2>1 DEF RemovePid
<1>6. CASE UNCHANGED daemonVars
  BY <1>6 DEF daemonVars
<1> QED BY <1>1, <1>2, <1>3, <1>4, <1>5, <1>6 DEF DaemonNext, Main, Terminate

\* They hold at the start.
LEMMA InitDaemonTypes == DaemonInit => DaemonTypeOK
  BY DEF DaemonInit, DaemonTypeOK

-----------------------------------------------------------------------------
(* The types of the cursors.                                               *)

\* A call that is about a cursor is about one that exists: what add puts into
\* the map, what next marks as finished.
CallKnown ==
  \A t \in C!Task : call[t] \in {"add", "remove", "next", "run"} => cur[t] \in made

\* What is proved of every state of the map of cursors.
CursorInv == C!CursorTypeOK /\ CallKnown

\* The queue of the map's lock is handled like the one of the writer's.
LEMMA SameRemoval ==
  ASSUME NEW s, NEW e
  PROVE  C!RemoveFirst(s, e) = RemoveFirst(s, e)
  BY DEF C!RemoveFirst, C!RemoveAt, C!SelectInSeq, C!Min, RemoveFirst, RemoveAt, SelectInSeq, Min

\* There is no call at the start.
LEMMA InitCursorInv == C!CursorInit => CursorInv
<1> SUFFICES ASSUME C!CursorInit PROVE CursorInv
  OBVIOUS
<1>1. <<>> \in Seq(C!Task)
  OBVIOUS
<1>2. C!CursorTypeOK
  BY <1>1 DEF C!CursorInit, C!CursorTypeOK, C!Writers
<1>3. CallKnown
  BY DEF C!CursorInit, CallKnown
<1> QED BY <1>2, <1>3 DEF CursorInv

\* A call begins.
LEMMA AskInv ==
  ASSUME CursorInv, NEW t \in C!Task, NEW k \in {"add", "remove", "next", "clean"},
         NEW c \in Cursor \cup {None}, C!Ask(t, k, c),
         made \subseteq made', made' \subseteq Cursor, k # "clean" => c \in made'
  PROVE  CursorInv'
<1>1. Append(wait, t) \in Seq(C!Task)
  BY DEF CursorInv, C!CursorTypeOK
<1>2. C!CursorTypeOK'
  BY <1>1 DEF CursorInv, C!CursorTypeOK, C!Ask, C!metaVars, C!Writers
<1>3. CallKnown'
  BY DEF CursorInv, CallKnown, C!CursorTypeOK, C!Ask
<1> QED BY <1>2, <1>3 DEF CursorInv

\* A call ends.
LEMMA ReturnInv ==
  ASSUME CursorInv, NEW t \in C!Task, C!Return(t),
         map' \subseteq made, finished' \subseteq made, expired' \subseteq made,
         wait' \in Seq(C!Task)
  PROVE  CursorInv'
<1>1. C!CursorTypeOK'
  BY DEF CursorInv, C!CursorTypeOK, C!Return, C!Writers
<1>2. CallKnown'
  BY DEF CursorInv, CallKnown, C!CursorTypeOK, C!Return
<1> QED BY <1>1, <1>2 DEF CursorInv

\* Every step of a call, of the cleaner and of the drop keeps the invariant.
LEMMA StepCursorInv ==
  ASSUME CursorInv, [C!CursorNext]_cursorVars
  PROVE  CursorInv'
<1>t. /\ map \subseteq made /\ made \subseteq Cursor
      /\ finished \subseteq made /\ expired \subseteq made
  BY DEF CursorInv, C!CursorTypeOK
<1>l. \A t : C!RemoveFirst(wait, t) \in Seq(C!Task)
  BY RemoveFirstType, SameRemoval DEF CursorInv, C!CursorTypeOK
<1>c. Caller \subseteq C!Task /\ cleaner \in C!Task
  BY DEF C!Task
<1>1. ASSUME NEW t \in Caller, NEW c \in Cursor,
             C!Add(t, c) \/ C!RemoveCursor(t, c) \/ C!Next(t, c)
      PROVE  CursorInv'
  <2>1. CASE C!Add(t, c)
    BY <1>t, <1>c, <2>1, AskInv DEF C!Add
  <2>2. CASE C!RemoveCursor(t, c)
    BY <1>t, <1>c, <2>2, AskInv DEF C!RemoveCursor
  <2>3. CASE C!Next(t, c)
    BY <1>t, <1>c, <2>3, AskInv DEF C!Next
  <2> QED BY <1>1, <2>1, <2>2, <2>3
<1>2. ASSUME NEW t \in Caller, C!CallStep(t) PROVE CursorInv'
  <2>0. t \in C!Task BY <1>c
  <2>1. CASE C!Change(t)
    <3>1. cur[t] \in made
      BY <2>0, <2>1 DEF C!Change, CursorInv, CallKnown
    <3>2. map' \subseteq made /\ UNCHANGED <<finished, expired>> /\ C!Return(t)
      BY <1>t, <2>1, <3>1 DEF C!Change, C!metaVars
    <3>3. wait' \in Seq(C!Task)
      BY <1>l, <2>1 DEF C!Change, C!Leave
    <3> QED BY <1>t, <2>0, <3>2, <3>3, ReturnInv
  <2>2. CASE C!Found(t)
    <3>1. wait' \in Seq(C!Task)
      BY <1>l, <2>2 DEF C!Found, C!Leave
    <3>2. C!CursorTypeOK'
      BY <2>0, <2>2, <3>1 DEF C!Found, CursorInv, C!CursorTypeOK, C!Writers
    <3>3. CallKnown'
      BY <2>0, <2>2 DEF C!Found, CursorInv, C!CursorTypeOK, CallKnown
    <3> QED BY <3>2, <3>3 DEF CursorInv
  <2>3. CASE C!NotFound(t)
    <3>1. wait' \in Seq(C!Task)
      BY <1>l, <2>3 DEF C!NotFound, C!Leave
    <3> QED BY <1>t, <2>0, <2>3, <3>1, ReturnInv DEF C!NotFound, C!metaVars
  <2>4. CASE C!Ran(t)
    <3>1. cur[t] \in made
      BY <2>0, <2>4 DEF C!Ran, CursorInv, CallKnown
    <3>2. wait' \in Seq(C!Task)
      BY <2>4 DEF C!Ran, CursorInv, C!CursorTypeOK
    <3> QED BY <1>t, <2>0, <2>4, <3>1, <3>2, ReturnInv DEF C!Ran
  <2> QED BY <1>2, <2>1, <2>2, <2>3, <2>4 DEF C!CallStep
<1>3. ASSUME NEW c \in Cursor, C!Expire(c) PROVE CursorInv'
  BY <1>3 DEF C!Expire, CursorInv, C!CursorTypeOK, CallKnown
<1>4. CASE C!Tick
  BY <1>t, <1>c, <1>4, AskInv DEF C!Tick
<1>5. CASE C!Clean
  <2>1. wait' \in Seq(C!Task)
    BY <1>l, <1>5 DEF C!Clean, C!Leave
  <2>2. map' \subseteq map /\ UNCHANGED <<finished, expired>> /\ C!Return(cleaner)
    BY <1>5 DEF C!Clean, C!metaVars
  <2> QED BY <1>t, <1>c, <2>1, <2>2, ReturnInv
<1>6. CASE C!DropMap
  <2>0. <<>> \in Seq(C!Task)
    OBVIOUS
  <2>1. C!CursorTypeOK'
    BY <1>6, <2>0 DEF C!DropMap, C!metaVars, CursorInv, C!CursorTypeOK, C!Writers
  <2>2. CallKnown'
    BY <1>6 DEF C!DropMap, C!metaVars, CursorInv, C!CursorTypeOK, CallKnown
  <2> QED BY <2>1, <2>2 DEF CursorInv
<1>7. CASE UNCHANGED cursorVars
  BY <1>7 DEF cursorVars, CursorInv, C!CursorTypeOK, CallKnown
<1> QED BY <1>1, <1>2, <1>3, <1>4, <1>5, <1>6, <1>7 DEF C!CursorNext, C!Cleaner

-----------------------------------------------------------------------------
(* The parts together: a behaviour of FairSpec is one of one part, and the *)
(* others rest in their initial states.                                    *)

\* The handshake among the parts is the one HandshakeProofs is about.
LEMMA SameShake ==
  ASSUME H!ShakeNext
  PROVE  HP!ShakeNext
  BY SMT DEF HP!ShakeNext, H!ShakeNext, H!BrokerChat, H!ClientChat, H!BrokerGreet, H!BrokerVersion,
             H!BrokerName, H!BrokerRegister, H!BrokerAnswer, H!BrokerWriteFail, H!BrokerReadFail,
             H!ClientGreeting, H!ClientStatus, H!ClientAnswer, H!ClientEof, H!ClientTimeout,
             H!BrokerFinish, H!BrokerLeave, H!BrokerAnnounce, H!Announced, H!Removed, H!AaaChange,
             H!Answer, H!Close, H!Refuse, H!Say, H!Fail, H!Chatting,
             H!given, H!clientEnd, H!brokerEnd, HP!BrokerChat, HP!ClientChat, HP!BrokerGreet,
             HP!BrokerVersion, HP!BrokerName, HP!BrokerRegister, HP!BrokerAnswer,
             HP!BrokerWriteFail, HP!BrokerReadFail, HP!ClientGreeting, HP!ClientStatus,
             HP!ClientAnswer, HP!ClientEof, HP!ClientTimeout, HP!BrokerFinish, HP!BrokerLeave,
             HP!BrokerAnnounce, HP!Announced, HP!Removed, HP!AaaChange,
             HP!Answer, HP!Close, HP!Refuse, HP!Say, HP!Fail, HP!Chatting, HP!given,
             HP!clientEnd, HP!brokerEnd

\* The invariants of the parts, each with the types it keeps.
BufInv    == BufTypeOK /\ FlushInv
DaemonInv == DaemonTypeOK /\ ExitInv
GreetInv  == HP!ShakeTypeOK /\ HP!ShakeInv
PartsInv  == BufInv /\ CursorInv /\ TopicInv /\ DaemonInv /\ GreetInv /\ WireInv

\* Every part begins in its initial state.
LEMMA InitPartsInv == Init => PartsInv
<1> SUFFICES ASSUME Init PROVE PartsInv
  OBVIOUS
<1>1. BufInit /\ C!CursorInit /\ TopicInit /\ DaemonInit /\ H!ShakeInit /\ WireInit
  BY DEF Init
<1>2. HP!ShakeInit
  BY <1>1 DEF H!ShakeInit, HP!ShakeInit
<1>3. BufInv
  BY <1>1, InitBufTypes, InitFlushInv DEF BufInv
<1>4. CursorInv /\ TopicInv
  BY <1>1, InitCursorInv, InitTopicInv
<1>5. DaemonInv
  BY <1>1, InitDaemonTypes, InitExitInv DEF DaemonInv
<1>6. GreetInv
  BY <1>2, HP!InitShakeInv, HP!InitShakeTypes DEF GreetInv
<1>7. WireInv
  BY <1>1, InitWireInv
<1> QED BY <1>3, <1>4, <1>5, <1>6, <1>7 DEF PartsInv

\* A step is one of a part, or leaves it alone, whichever part it is.
LEMMA StepOfParts ==
  ASSUME [Next]_vars
  PROVE  /\ [BufNext]_bufVars /\ [C!CursorNext]_cursorVars /\ [TopicNext]_topicVars
         /\ [DaemonNext]_daemonVars /\ [HP!ShakeNext]_HP!shakeVars /\ [WireNext]_wireVars
<1>1. [H!ShakeNext]_shakeVars => [HP!ShakeNext]_HP!shakeVars
  BY SameShake DEF shakeVars, HP!shakeVars, HP!given, HP!clientEnd, HP!brokerEnd
<1>2. /\ [BufNext]_bufVars /\ [C!CursorNext]_cursorVars /\ [TopicNext]_topicVars
      /\ [DaemonNext]_daemonVars /\ [H!ShakeNext]_shakeVars /\ [WireNext]_wireVars
  BY DEF Next, BufStep, CursorStep, TopicStep, DaemonStep, ShakeStep, WireStep, vars
<1> QED BY <1>1, <1>2

\* Every step of a part keeps the invariant of that part.
LEMMA NextPartsInv == PartsInv /\ [Next]_vars => PartsInv'
<1> SUFFICES ASSUME PartsInv, [Next]_vars PROVE PartsInv'
  OBVIOUS
<1>1. BufInv'
  BY StepOfParts, StepBufTypes, StepFlushInv DEF PartsInv, BufInv
<1>2. CursorInv'
  BY StepOfParts, StepCursorInv DEF PartsInv
<1>3. TopicInv'
  BY StepOfParts, StepTopicInv DEF PartsInv
<1>4. DaemonInv'
  BY StepOfParts, StepDaemonTypes, StepExitInv DEF PartsInv, DaemonInv
<1>5. GreetInv'
  BY StepOfParts, HP!NextShakeInv, HP!NextShakeTypes DEF PartsInv, GreetInv
<1>6. WireInv'
  BY StepOfParts, NextWireInv DEF PartsInv
<1> QED BY <1>1, <1>2, <1>3, <1>4, <1>5, <1>6 DEF PartsInv

\* Every part keeps the types of its variables: the buffer stays within its
\* capacity, the queues of the locks hold tasks, the map of cursors those that
\* were made, and so on, for all values of the parts' constants.
THEOREM PartsTypes == FairSpec => []TypeOK
<1>1. PartsInv => H!ShakeTypeOK
  BY DEF PartsInv, GreetInv, H!ShakeTypeOK, HP!ShakeTypeOK, H!Answers, HP!Answers, H!Errors,
         HP!Errors
<1>2. PartsInv => TypeOK
  BY <1>1, InvWireTypes DEF PartsInv, BufInv, CursorInv, TopicInv, DaemonInv, TypeOK
<1> QED BY InitPartsInv, NextPartsInv, <1>2, PTL DEF FairSpec

\* The parts keep their promises side by side as they do alone: a flush is
\* not forgotten (TtlBufWriter), a frame goes to its handler (TopicBroker),
\* the daemon exits clean (main, terminate), and a message arrives as it was
\* sent and is read without a panic (send, handle_reader, RpcEvent).
THEOREM PartsSafe ==
  FairSpec => [](/\ FlushComing /\ FrameToItsHandler /\ CleanExit
                 /\ MessageArrives /\ AccessorsInRange)
<1>1. PartsInv => FlushComing /\ FrameToItsHandler /\ CleanExit
  BY InvFrames, InvCleanExit DEF PartsInv, BufInv, FlushInv, DaemonInv
<1>2. PartsInv => MessageArrives /\ AccessorsInRange
  BY InvArrives, AcceptedInRange DEF PartsInv
<1> QED BY InitPartsInv, NextPartsInv, <1>1, <1>2, PTL DEF FairSpec

==============================================================================
