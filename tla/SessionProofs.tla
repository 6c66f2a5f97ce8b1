--------------------------- MODULE SessionProofs ---------------------------
(***************************************************************************)
(* Theorems about Session.  A step of a session is a step of the client of *)
(* IpcClient, or leaves it alone, and a step of the handshake of           *)
(* Handshake, or leaves that alone: what was proved of each holds of a     *)
(* connection from its first byte to its end.                              *)
(***************************************************************************)
EXTENDS Session, IpcClientProofs

HP == INSTANCE HandshakeProofs WITH bOpen <- open

-----------------------------------------------------------------------------

\* The handshake of the session is the one HandshakeProofs is about.
LEMMA SameShake ==
  ASSUME \/ H!BrokerChat \/ H!ClientChat \/ H!BrokerFinish
         \/ H!BrokerAnnounce \/ H!BrokerLeave \/ H!Removed \/ H!AaaChange
  PROVE  HP!ShakeNext
  BY SMT DEF HP!ShakeNext, H!BrokerChat, H!ClientChat, H!BrokerGreet, H!BrokerVersion, H!BrokerName,
             H!BrokerRegister, H!BrokerAnswer, H!BrokerWriteFail, H!BrokerReadFail,
             H!ClientGreeting, H!ClientStatus, H!ClientAnswer, H!ClientEof, H!ClientTimeout,
             H!BrokerFinish, H!BrokerLeave, H!BrokerAnnounce, H!Removed, H!AaaChange,
             H!Answer, H!Close, H!Refuse, H!Say, H!Fail, H!Chatting,
             H!given, H!clientEnd, H!brokerEnd, HP!BrokerChat, HP!ClientChat, HP!BrokerGreet,
             HP!BrokerVersion, HP!BrokerName, HP!BrokerRegister, HP!BrokerAnswer,
             HP!BrokerWriteFail, HP!BrokerReadFail, HP!ClientGreeting, HP!ClientStatus,
             HP!ClientAnswer, HP!ClientEof, HP!ClientTimeout, HP!BrokerFinish, HP!BrokerLeave,
             HP!BrokerAnnounce, HP!Announced, HP!Removed, HP!AaaChange,
             HP!Answer, HP!Close, HP!Refuse, HP!Say, HP!Fail, HP!Chatting, HP!given,
             HP!clientEnd, HP!brokerEnd

LEMMA StepOfShake ==
  ASSUME [SessionNext]_sessionVars
  PROVE  [HP!ShakeNext]_HP!shakeVars
<1>1. CASE UNCHANGED <<shakeOnly, open>>
  BY <1>1 DEF shakeOnly, HP!shakeVars, HP!given, HP!clientEnd, HP!brokerEnd
<1>2. CASE UNCHANGED sessionVars
  BY <1>1, <1>2 DEF sessionVars
<1>3. CASE Shaking \/ Finish \/ Leave
  BY <1>3, SameShake DEF Shaking, Finish, Leave
<1>4. CASE ClientStep \/ BrokerStep
  <2>1. UNCHANGED shakeOnly
    BY <1>4 DEF ClientStep, BrokerStep, Working, Serving
  <2>2. UNCHANGED open
    BY <1>4 DEF ClientStep, BrokerStep, Working, Serving, BeginFrame, BeginPing, Step, WriteHead,
                WriteBody, WriteFail, GetConfirm, Cancel, FlushGivenUp, Reading, ReadAck, ReadEvent,
                ReadEof, Consume, BrokerPayload, BrokerHeader, BrokerEvent, brokerVars
  <2> QED BY <1>1, <2>1, <2>2
<1> QED BY <1>2, <1>3, <1>4 DEF SessionNext

\* The handshake may close the socket, and does nothing else to the client.
LEMMA StepOfClient ==
  ASSUME [SessionNext]_sessionVars
  PROVE  \/ [Next]_vars \/ CloseSocket
         \/ UNCHANGED ipcOnly /\ (open' = open \/ open' = FALSE)
<1>1. CASE UNCHANGED sessionVars
  BY <1>1 DEF sessionVars
<1>2. CASE Shaking
  <2>1. UNCHANGED ipcOnly
    BY <1>2 DEF Shaking
  <2>2. open' = open \/ open' = FALSE
    BY <1>2 DEF Shaking, H!BrokerChat, H!BrokerGreet, H!BrokerVersion, H!BrokerName,
                H!BrokerRegister, H!BrokerAnnounce, H!BrokerAnswer, H!BrokerWriteFail,
                H!BrokerReadFail, H!ClientChat, H!ClientGreeting, H!ClientStatus, H!ClientAnswer,
                H!ClientEof, H!ClientTimeout, H!Removed, H!AaaChange, H!Refuse, H!Close, H!brokerEnd
  <2> QED BY <2>1, <2>2
<1>3. CASE ClientStep \/ BrokerStep
  BY <1>3 DEF ClientStep, BrokerStep, Working, Serving, Next, Broker
<1>4. CASE Finish \/ Leave
  BY <1>4 DEF Finish, Leave
<1> QED BY <1>1, <1>2, <1>3, <1>4 DEF SessionNext

\* A close by the handshake keeps the invariants of the client.
LEMMA CloseKeeps ==
  ASSUME AckInv, StreamInv, UNCHANGED ipcOnly, open' = open \/ open' = FALSE
  PROVE  AckInv' /\ StreamInv'
<1>1. open' \in BOOLEAN
  BY DEF AckInv, OpInv, TypeOK
<1>2. OpInv'
  BY <1>1 DEF AckInv, OpInv, TypeOK, Numbered, Traced, Begun, ipcOnly, clientVars, readVars, opVars
<1>3. AckInv'
  BY <1>2 DEF AckInv, Rounds, Apart, LatestWaits, Answered, AckAnswersFrame, Begun, ipcOnly,
              clientVars, opVars
<1>4. StreamInv'
  <2>1. UNCHANGED <<sync, connected, shut, pc, head, taken, out>>
    BY DEF ipcOnly, clientVars, opVars
  <2>2. open' => open
    OBVIOUS
  <2> QED BY <1>2, <2>1, <2>2 DEF StreamInv, OneWriter, Sound, Chained, EndsWell, LastPart, PartAt,
                                  Part0, IntactUnlessDisconnected
<1> QED BY <1>3, <1>4

SessionInv == AckInv /\ StreamInv /\ HP!ShakeInv /\ HP!ShakeTypeOK

LEMMA InitSessionInv == SessionInit => SessionInv
<1> SUFFICES ASSUME SessionInit PROVE SessionInv
  OBVIOUS
<1>1. AckInv /\ StreamInv
  BY InitAckInv, InitStreamInv DEF SessionInit
<1>2. HP!ShakeInit
  BY DEF SessionInit, H!ShakeInit, HP!ShakeInit
<1>3. HP!ShakeInv /\ HP!ShakeTypeOK
  BY <1>2, HP!InitShakeInv, HP!InitShakeTypes
<1> QED BY <1>1, <1>3 DEF SessionInv

LEMMA NextSessionInv == SessionInv /\ [SessionNext]_sessionVars => SessionInv'
<1> SUFFICES ASSUME SessionInv, [SessionNext]_sessionVars PROVE SessionInv'
  OBVIOUS
<1> USE DEF SessionInv
<1>1. AckInv' /\ StreamInv'
  <2>1. CASE [Next]_vars
    BY <2>1, NextAckInv, NextStreamInv
  <2>2. CASE UNCHANGED ipcOnly /\ (open' = open \/ open' = FALSE)
    BY <2>2, CloseKeeps
  <2>3. CASE CloseSocket
    BY <2>3, CloseAckInv, CloseStreamInv
  <2> QED BY <2>1, <2>2, <2>3, StepOfClient
<1>2. HP!ShakeInv' /\ HP!ShakeTypeOK'
  BY StepOfShake, HP!NextShakeInv, HP!NextShakeTypes
<1> QED BY <1>1, <1>2

\* Both ends of the connection keep their types.
THEOREM SessionTypes == SessionSpec => []SessionTypeOK
<1>1. SessionInv => SessionTypeOK
  BY DEF SessionInv, AckInv, OpInv, SessionTypeOK, H!ShakeTypeOK, HP!ShakeTypeOK, H!Answers,
         HP!Answers, H!Errors, HP!Errors
<1> QED BY InitSessionInv, NextSessionInv, <1>1, PTL DEF SessionSpec

\* Over a whole session connect tells the truth: connected means that the
\* client has been registered, and is so until the broker ends the connection
\* or another task takes it out, and an error is the broker's (chat,
\* handle_peer).
THEOREM SessionAnswersTrue == SessionSpec => []AnswerIsTrue
<1>1. SessionInv => AnswerIsTrue
  BY HP!ShakeInvTrue DEF SessionInv, AnswerIsTrue, H!AnswerIsTrue, HP!AnswerIsTrue, H!Errors, HP!Errors
<1> QED BY InitSessionInv, NextSessionInv, <1>1, PTL DEF SessionSpec

\* Over a whole session, whatever the handshake and the broker do, frames are
\* not mixed up and acknowledgements are for the frames they are given to.
THEOREM SessionFramesAndAcks ==
  SessionSpec => [](IntactUnlessDisconnected /\ AckAnswersFrame)
<1>1. SessionInv => IntactUnlessDisconnected /\ AckAnswersFrame
  BY DEF SessionInv, StreamInv, AckInv
<1> QED BY InitSessionInv, NextSessionInv, <1>1, PTL DEF SessionSpec
=============================================================================
