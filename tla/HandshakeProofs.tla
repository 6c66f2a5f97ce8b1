--------------------------- MODULE HandshakeProofs ---------------------------
(***************************************************************************)
(* Theorem about Handshake: what connect returns is true, for every mix of *)
(* clients, whatever fails or times out.                                   *)
(***************************************************************************)
EXTENDS Handshake, TLAPS

-----------------------------------------------------------------------------
(* The invariant *)

\* Where the two ends can be.
Positions ==
  /\ cpc \in {"greeting", "status", "answer", "connected", "failed"}
  /\ bpc \in {"greet", "version", "name", "register", "announce", "answer", "serving", "leave", "closed"}

\* An end that has given up has closed its side of the socket, and only then.
Ends == (cOpen <=> cpc # "failed") /\ (bOpen <=> bpc # "closed")

\* The broker decides once: nothing is decided before the name was taken, and
\* a client that is answered or served has been registered, and is so unless
\* another task has taken it out.
Decided ==
  /\ bpc \in {"greet", "version", "name", "register"} => decision = "none"
  /\ bpc \in {"announce", "answer", "serving"} => registered \/ lost
  /\ bpc \in {"announce", "answer", "serving", "leave"} => decision = "ok"
  /\ decision \in {"none"} \cup Answers

\* As long as the client is there, the two ends take turns: at most one
\* message is on its way, and the positions tell which.
At(c, mc, mb) == cpc = c /\ toC = mc /\ toB = mb
InTurn ==
  cpc # "failed" =>
    /\ bpc = "greet" => At("greeting", <<>>, <<>>)
    /\ bpc = "version" => \/ At("greeting", <<"greeting">>, <<>>)
                          \/ At("status", <<>>, <<"same">>)
                          \/ At("status", <<>>, <<"different">>)
    /\ bpc = "name" => At("status", <<"ok">>, <<>>) \/ At("answer", <<>>, <<"name">>)
    /\ bpc \in {"register", "announce", "answer"} => At("answer", <<>>, <<>>)
    /\ bpc \in {"serving", "leave"} => At("answer", <<"ok">>, <<>>) \/ At("connected", <<>>, <<>>)

\* What a broker that is gone has left for the client: the code of its
\* refusal, or nothing that looks like one.
Left ==
  cpc # "failed" /\ bpc = "closed" =>
    \/ decision \in Errors /\ cpc \in {"status", "answer"} /\ toC = << decision >>
    \/ decision \in {"none", "ok"} /\ toC = <<>>
    \/ decision \in {"none", "ok"} /\ cpc = "greeting" /\ toC = <<"greeting">>
    \/ decision = "none" /\ cpc = "status" /\ toC = <<"ok">>
    \/ decision = "ok" /\ cpc = "answer" /\ toC = <<"ok">>

\* How a connect that failed has failed; the broker's decision is final by then.
Failed ==
  /\ cpc # "failed" => got \in {"none", "ok"}
  /\ cpc = "connected" => decision = "ok"
  /\ got \in Errors => \/ got = decision /\ bpc = "closed"
                       \/ ~match /\ got = "NotSupported"
  /\ got = "io" => decision \in {"none", "ok"} /\ bpc = "closed"

ShakeInv == Positions /\ Ends /\ Decided /\ InTurn /\ Left /\ Failed

-----------------------------------------------------------------------------

\* One message on its way: it is put behind nothing, and read from the front.
LEMMA OneMessage ==
  ASSUME NEW m
  PROVE  /\ Append(<<>>, m) = <<m>>
         /\ Head(<<m>>) = m
         /\ Tail(<<m>>) = <<>>
         /\ <<m>> # <<>>
  OBVIOUS

LEMMA InitShakeInv == ShakeInit => ShakeInv
  BY DEF ShakeInit, ShakeInv, Positions, Ends, Decided, InTurn, At, Left, Failed, Errors, Answers

\* The steps of the broker keep the invariant.
LEMMA BrokerShakeInv ==
  ASSUME ShakeInv, BrokerChat \/ BrokerFinish \/ Announced \/ Removed \/ AaaChange
  PROVE  ShakeInv'
<1> USE OneMessage DEF ShakeInv, Positions, Ends, Decided, InTurn, At, Left, Failed, Errors, Answers,
                       given, clientEnd, brokerEnd, Answer, Close
<1>1. CASE BrokerGreet
  BY <1>1 DEF BrokerGreet
<1>2. CASE BrokerVersion
  <2>1. CASE cpc = "failed"
    <3>1. InTurn' /\ Left' /\ cpc' = "failed" /\ UNCHANGED <<got, match, cOpen>>
      BY <1>2, <2>1 DEF BrokerVersion
    <3>2. Positions' /\ Ends' /\ Decided'
      <4>1. ASSUME NEW e \in {"NotSupported"}, Refuse(e) PROVE Positions' /\ Ends' /\ Decided'
        BY <2>1, <3>1, <4>1 DEF Refuse
      <4>2. CASE bpc' = "name" /\ UNCHANGED <<decision, registered, lost, bOpen>>
        BY <1>2, <2>1, <3>1, <4>2 DEF BrokerVersion
      <4> QED BY <1>2, <4>1, <4>2 DEF BrokerVersion
    <3>3. Failed'
      BY <1>2, <2>1, <3>1 DEF BrokerVersion, Refuse
    <3> QED BY <3>1, <3>2, <3>3
  <2>2. CASE cpc # "failed"
    <3>1. cpc = "status" /\ toC = <<>> /\ (toB = <<"same">> \/ toB = <<"different">>)
      BY <1>2, <2>2 DEF BrokerVersion
    <3>2. toB' = <<>>
      BY <1>2, <3>1 DEF BrokerVersion
    <3>3. CASE bpc' = "name"
      <4>1. toC' = <<"ok">>
        BY <1>2, <2>2, <3>1, <3>3 DEF BrokerVersion, Refuse
      <4> QED BY <1>2, <2>2, <3>1, <3>2, <3>3, <4>1 DEF BrokerVersion, Refuse
    <3>4. CASE Refuse("NotSupported")
      <4>1. toC' = <<"NotSupported">>
        BY <2>2, <3>1, <3>4 DEF Refuse
      <4> QED BY <1>2, <2>2, <3>1, <3>2, <3>4, <4>1 DEF BrokerVersion, Refuse
    <3> QED BY <1>2, <3>3, <3>4 DEF BrokerVersion
  <2> QED BY <2>1, <2>2
<1>3. CASE BrokerName
  <2>1. CASE cpc = "failed"
    <3>1. InTurn' /\ Left' /\ cpc' = "failed" /\ UNCHANGED <<got, match, cOpen>>
      BY <1>3, <2>1 DEF BrokerName
    <3>2. Positions' /\ Ends' /\ Decided'
      <4>1. ASSUME NEW e \in {"Data", "Access"}, Refuse(e) PROVE Positions' /\ Ends' /\ Decided'
        BY <2>1, <3>1, <4>1 DEF Refuse
      <4>2. CASE bpc' = "register" /\ UNCHANGED <<decision, registered, lost, bOpen>>
        BY <1>3, <2>1, <3>1, <4>2 DEF BrokerName
      <4>3. CASE Close /\ UNCHANGED <<decision, registered, lost>>
        BY <2>1, <3>1, <4>3
      <4> QED BY <1>3, <4>1, <4>2, <4>3 DEF BrokerName
    <3>3. Failed'
      BY <1>3, <2>1, <3>1 DEF BrokerName, Refuse
    <3> QED BY <3>1, <3>2, <3>3
  <2>2. CASE cpc # "failed"
    <3>1. cpc = "answer" /\ toC = <<>> /\ toB' = <<>>
      BY <1>3, <2>2 DEF BrokerName
    <3>2. ASSUME NEW e \in {"Data", "Access"}, Refuse(e) PROVE ShakeInv'
      <4>1. toC' = <<e>>
        BY <2>2, <3>1, <3>2 DEF Refuse
      <4> QED BY <1>3, <2>2, <3>1, <3>2, <4>1 DEF BrokerName, Refuse
    <3>3. CASE bpc' \in {"register", "closed"} /\ UNCHANGED <<toC, decision, registered, lost>>
                /\ bOpen' = (bpc' # "closed")
      BY <1>3, <2>2, <3>1, <3>3 DEF BrokerName
    <3> QED BY <1>3, <3>2, <3>3 DEF BrokerName
  <2> QED BY <2>1, <2>2
<1>4. CASE BrokerRegister
  BY <1>4 DEF BrokerRegister, Refuse
<1>5. CASE BrokerAnswer
  BY <1>5 DEF BrokerAnswer
<1>6. CASE BrokerWriteFail
  BY <1>6 DEF BrokerWriteFail
<1>7. CASE BrokerReadFail
  BY <1>7 DEF BrokerReadFail
<1>8. CASE BrokerFinish
  BY <1>8 DEF BrokerFinish
<1>9. CASE AaaChange
  BY <1>9 DEF AaaChange
<1>10. CASE BrokerAnnounce
  BY <1>10 DEF BrokerAnnounce
<1>11. CASE BrokerLeave
  BY <1>11 DEF BrokerLeave
<1>12. CASE Removed
  BY <1>12 DEF Removed
<1> QED BY <1>1, <1>2, <1>3, <1>4, <1>5, <1>6, <1>7, <1>8, <1>9, <1>10, <1>11, <1>12
        DEF BrokerChat, Announced

\* The steps of the client keep the invariant.
LEMMA ClientShakeInv ==
  ASSUME ShakeInv, ClientChat
  PROVE  ShakeInv'
<1> USE OneMessage DEF ShakeInv, Positions, Ends, Decided, InTurn, At, Left, Failed, Errors, Answers,
                       given, brokerEnd, Say, Fail, Chatting
<1>1. CASE ClientGreeting
  <2>1. toC' = <<>> /\ bpc \in {"version", "closed"}
    BY <1>1 DEF ClientGreeting
  <2>2. bpc = "closed" => decision \in {"none", "ok"}
    BY <1>1 DEF ClientGreeting
  <2>3. bpc = "version" => toB = <<>>
    BY <1>1 DEF ClientGreeting
  <2>4. CASE cpc' = "status"
    <3>1. bpc = "version" => toB' = <<"same">> \/ toB' = <<"different">>
      BY <1>1, <2>3, <2>4 DEF ClientGreeting
    <3> QED BY <1>1, <2>1, <2>2, <2>4, <3>1 DEF ClientGreeting
  <2>5. CASE ~match /\ Fail("NotSupported")
    BY <1>1, <2>1, <2>2, <2>5 DEF ClientGreeting
  <2> QED BY <1>1, <2>4, <2>5 DEF ClientGreeting
<1>2. CASE ClientStatus
  <2>1. toC' = <<>> /\ bpc \in {"name", "closed"}
    BY <1>2 DEF ClientStatus
  <2>2. CASE Head(toC) = "ok" /\ Say("name") /\ cpc' = "answer" /\ UNCHANGED <<got, cOpen>>
    <3>1. bpc = "closed" => decision \in {"none", "ok"}
      BY <1>2, <2>2 DEF ClientStatus
    <3>2. bpc = "name" => toB' = <<"name">>
      BY <1>2, <2>2 DEF ClientStatus
    <3> QED BY <1>2, <2>1, <2>2, <3>1, <3>2 DEF ClientStatus
  <2>3. CASE Head(toC) # "ok" /\ Fail(Head(toC)) /\ UNCHANGED toB
    <3>1. bpc = "closed" /\ Head(toC) = decision
      BY <1>2, <2>3 DEF ClientStatus
    <3> QED BY <1>2, <2>1, <2>3, <3>1 DEF ClientStatus
  <2> QED BY <1>2, <2>2, <2>3 DEF ClientStatus
<1>3. CASE ClientAnswer
  <2>1. toC' = <<>> /\ bpc \in {"serving", "leave", "closed"}
    BY <1>3 DEF ClientAnswer
  <2>2. CASE Head(toC) = "ok" /\ cpc' = "connected" /\ got' = "ok" /\ UNCHANGED cOpen
    <3>1. decision = "ok"
      BY <1>3, <2>2 DEF ClientAnswer
    <3> QED BY <1>3, <2>1, <2>2, <3>1 DEF ClientAnswer
  <2>3. CASE Head(toC) # "ok" /\ Fail(Head(toC))
    <3>1. bpc = "closed" /\ Head(toC) = decision
      BY <1>3, <2>3 DEF ClientAnswer
    <3> QED BY <1>3, <2>1, <2>3, <3>1 DEF ClientAnswer
  <2> QED BY <1>3, <2>2, <2>3 DEF ClientAnswer
<1>4. CASE ClientEof
  BY <1>4 DEF ClientEof
<1>5. CASE ClientTimeout
  BY <1>5 DEF ClientTimeout
<1> QED BY <1>1, <1>2, <1>3, <1>4, <1>5 DEF ClientChat

LEMMA NextShakeInv ==
  ASSUME ShakeInv, [ShakeNext]_shakeVars
  PROVE  ShakeInv'
<1>1. CASE UNCHANGED shakeVars
  BY <1>1 DEF shakeVars, given, clientEnd, brokerEnd, ShakeInv, Positions, Ends, Decided,
              InTurn, At, Left, Failed
<1>2. CASE BrokerChat \/ BrokerFinish \/ Announced \/ Removed \/ AaaChange
  BY <1>2, BrokerShakeInv
<1>3. CASE ClientChat
  BY <1>3, ClientShakeInv
<1> QED BY <1>1, <1>2, <1>3 DEF ShakeNext

LEMMA ShakeInvTrue == ShakeInv => AnswerIsTrue
  BY DEF ShakeInv, Positions, Ends, Decided, InTurn, At, Failed, AnswerIsTrue

\* A connect that has succeeded means that the client has been registered, and
\* is so until the broker ends the connection or another task takes it out;
\* one that was refused returns the code the broker gave, whatever fails or
\* times out at either end (chat, handle_peer, write_and_flush!).
THEOREM ConnectTellsTheTruth == ShakeSpec => []AnswerIsTrue
  BY InitShakeInv, NextShakeInv, ShakeInvTrue, PTL DEF ShakeSpec

-----------------------------------------------------------------------------
(* Types *)

ToB == {"same", "different", "name"}
ToC == {"greeting"} \cup Answers

\* A socket keeps its messages in a sequence: what is added or taken.
LEMMA StreamTypes ==
  ASSUME NEW S, NEW s \in Seq(S)
  PROVE  /\ \A m \in S : Append(s, m) \in Seq(S)
         /\ s # <<>> => Tail(s) \in Seq(S) /\ Head(s) \in S
  OBVIOUS

LEMMA InitShakeTypes == ShakeInit => ShakeTypeOK
<1> SUFFICES ASSUME ShakeInit PROVE ShakeTypeOK
  OBVIOUS
<1>1. toB \in Seq({"same", "different", "name"}) /\ toC \in Seq({"greeting"} \cup Answers)
  BY DEF ShakeInit
<1>2. registered \in BOOLEAN /\ lost \in BOOLEAN /\ unanswered \in BOOLEAN /\ cOpen \in BOOLEAN /\ bOpen \in BOOLEAN
  BY DEF ShakeInit
<1> QED BY <1>1, <1>2 DEF ShakeInit, ShakeTypeOK, Answers, Errors

LEMMA NextShakeTypes ==
  ASSUME ShakeTypeOK, ShakeInv, [ShakeNext]_shakeVars
  PROVE  ShakeTypeOK'
<1>1. CASE UNCHANGED shakeVars
  BY <1>1 DEF shakeVars, given, clientEnd, brokerEnd, ShakeTypeOK
<1>2. CASE ShakeNext
  <2>1. /\ kind' \in Kind /\ match' \in BOOLEAN /\ name' \in BOOLEAN
        /\ aaa' \in {"allowed", "host", "absent"}
    BY <1>2 DEF ShakeNext, BrokerChat, BrokerGreet, BrokerVersion, BrokerName, BrokerRegister,
                BrokerAnswer, BrokerWriteFail, BrokerReadFail, ClientChat, ClientGreeting,
                ClientStatus, ClientAnswer, ClientEof, ClientTimeout, BrokerFinish,
                  BrokerLeave, BrokerAnnounce, Removed, AaaChange, Announced,
                given, ShakeTypeOK
  <2>2. ShakeInv'
    BY NextShakeInv
  <2>3. /\ cpc' \in {"greeting", "status", "answer", "connected", "failed"}
        /\ bpc' \in {"greet", "version", "name", "register", "announce", "answer", "serving", "leave", "closed"}
        /\ decision' \in {"none"} \cup Answers
    BY <2>2 DEF ShakeInv, Positions, Decided, Answers, Errors
  <2>4. CASE BrokerChat \/ BrokerFinish \/ Announced \/ Removed \/ AaaChange
    <3>1. UNCHANGED <<got, cOpen>>
      BY <2>4 DEF BrokerChat, BrokerGreet, BrokerVersion, BrokerName, BrokerRegister,
                  BrokerAnswer, BrokerWriteFail, BrokerReadFail, BrokerFinish,
                  BrokerLeave, BrokerAnnounce, Removed, AaaChange, Announced, clientEnd
    <3>2. toB' \in Seq(ToB)
      <4>1. toB' = toB \/ (toB # <<>> /\ toB' = Tail(toB))
        BY <2>4 DEF BrokerChat, BrokerGreet, BrokerVersion, BrokerName, BrokerRegister,
                    BrokerAnswer, BrokerWriteFail, BrokerReadFail, BrokerFinish,
                  BrokerLeave, BrokerAnnounce, Removed, AaaChange, Announced
      <4> QED BY <4>1, StreamTypes DEF ShakeTypeOK, ToB
    <3>3. toC' \in Seq(ToC)
      <4>1. toC' = toC \/ \E m \in ToC : toC' = Append(toC, m)
        <5>1. ASSUME NEW m \in ToC, Answer(m) PROVE toC' = toC \/ toC' = Append(toC, m)
          BY <5>1 DEF Answer
        <5>2. "greeting" \in ToC /\ "ok" \in ToC /\ Errors \subseteq ToC
          BY DEF ToC, Answers
        <5>3. UNCHANGED toC \/ \E m \in ToC : Answer(m)
          BY <2>4, <5>2 DEF BrokerChat, BrokerGreet, BrokerVersion, BrokerName, BrokerRegister,
                     BrokerAnswer, BrokerWriteFail, BrokerReadFail, BrokerFinish,
                  BrokerLeave, BrokerAnnounce, Removed, AaaChange, Announced,
                     Refuse, Errors
        <5> QED BY <5>1, <5>3
      <4>2. toC \in Seq(ToC)
        BY DEF ShakeTypeOK, ToC
      <4> QED BY <4>1, <4>2, StreamTypes
    <3>4. bOpen' \in BOOLEAN
      BY <2>4 DEF BrokerChat, BrokerGreet, BrokerVersion, BrokerName, BrokerRegister, BrokerAnswer,
                  BrokerWriteFail, BrokerReadFail, BrokerFinish,
                  BrokerLeave, BrokerAnnounce, Removed, AaaChange, Announced, brokerEnd, Refuse, Close,
                  ShakeTypeOK
    <3>5. registered' \in BOOLEAN
      BY <2>4 DEF BrokerChat, BrokerGreet, BrokerVersion, BrokerName, BrokerRegister, BrokerAnswer,
                  BrokerWriteFail, BrokerReadFail, BrokerFinish,
                  BrokerLeave, BrokerAnnounce, Removed, AaaChange, Announced, brokerEnd, Refuse,
                  ShakeTypeOK
    <3>7. lost' \in BOOLEAN
      BY <2>4 DEF BrokerChat, BrokerGreet, BrokerVersion, BrokerName, BrokerRegister, BrokerAnswer,
                  BrokerWriteFail, BrokerReadFail, BrokerFinish,
                  BrokerLeave, BrokerAnnounce, Removed, AaaChange, Announced, brokerEnd, Refuse,
                  ShakeTypeOK
    <3>6. unanswered' \in BOOLEAN
      BY <2>4 DEF BrokerChat, BrokerGreet, BrokerVersion, BrokerName, BrokerRegister, BrokerAnswer,
                  BrokerWriteFail, BrokerReadFail, BrokerFinish,
                  BrokerLeave, BrokerAnnounce, Removed, AaaChange, Announced, brokerEnd, Refuse,
                  ShakeTypeOK
    <3> QED BY <2>1, <2>3, <3>1, <3>2, <3>3, <3>4, <3>5, <3>6, <3>7 DEF ShakeTypeOK, ToB, ToC
  <2>5. CASE ClientChat
    <3>1. UNCHANGED <<registered, lost, unanswered, bOpen>>
      BY <2>5 DEF ClientChat, ClientGreeting, ClientStatus, ClientAnswer, ClientEof, ClientTimeout,
                  brokerEnd
    <3>2. toC' \in Seq(ToC)
      <4>1. toC' = toC \/ (toC # <<>> /\ toC' = Tail(toC)) \/ toC' = <<>>
        BY <2>5 DEF ClientChat, ClientGreeting, ClientStatus, ClientAnswer, ClientEof, ClientTimeout
      <4>2. toC \in Seq(ToC) /\ <<>> \in Seq(ToC)
        BY DEF ShakeTypeOK, ToC
      <4> QED BY <4>1, <4>2, StreamTypes
    <3>3. toB' \in Seq(ToB)
      <4>1. toB' = toB \/ \E m \in ToB : toB' = Append(toB, m)
        BY <2>5 DEF ClientChat, ClientGreeting, ClientStatus, ClientAnswer, ClientEof, ClientTimeout,
                    Say, ToB
      <4>2. toB \in Seq(ToB)
        BY DEF ShakeTypeOK, ToB
      <4> QED BY <4>1, <4>2, StreamTypes
    <3>4. cOpen' \in BOOLEAN
      BY <2>5 DEF ClientChat, ClientGreeting, ClientStatus, ClientAnswer, ClientEof, ClientTimeout,
                  Fail, ShakeTypeOK
    <3>5. got' \in {"none", "io", "timeout"} \cup Answers
      <4>1. CASE cpc' # "failed"
        BY <2>2, <4>1 DEF ShakeInv, Failed, Answers
      <4>2. CASE ClientGreeting \/ ClientEof \/ ClientTimeout
        BY <4>2 DEF ClientGreeting, ClientEof, ClientTimeout, Fail, ShakeTypeOK, Answers, Errors
      <4>3. CASE (ClientStatus \/ ClientAnswer) /\ cpc' = "failed"
        <5>1. Head(toC) # "ok" /\ got' = Head(toC) /\ cpc \in {"status", "answer"} /\ toC # <<>>
          BY <4>3 DEF ClientStatus, ClientAnswer, Fail
        <5>2. toC = << decision >> /\ decision \in Errors
          BY <5>1 DEF ShakeInv, Positions, InTurn, At, Left
        <5> QED BY <5>1, <5>2, OneMessage DEF Answers
      <4> QED BY <2>5, <4>1, <4>2, <4>3 DEF ClientChat
    <3> QED BY <2>1, <2>3, <3>1, <3>2, <3>3, <3>4, <3>5 DEF ShakeTypeOK, ToB, ToC
  <2> QED BY <1>2, <2>4, <2>5 DEF ShakeNext
<1> QED BY <1>1, <1>2
=============================================================================
