------------------------------ MODULE Session ------------------------------
(***************************************************************************)
(* A connection from its first byte to its end: the handshake of module    *)
(* Handshake, and then the client of module IpcClient at work.  The        *)
(* client's methods can be called once connect has returned; the broker    *)
(* serves once it has answered the registration.                           *)
(***************************************************************************)
EXTENDS IpcClient

CONSTANTS
  Kind,    \* kinds of clients, see Handshake
  Slow     \* timeouts may fire though the peer is there, see Handshake

VARIABLES
  kind, match, name, aaa, cpc, got, bpc, decision, registered, lost, unanswered,
  toB, toC, cOpen

H == INSTANCE Handshake WITH bOpen <- open

shakeOnly == <<kind, match, name, aaa, cpc, got, bpc, decision, registered, lost,
               unanswered, toB, toC, cOpen>>
ipcOnly == <<clientVars, readVars, opVars, back, head, taken, served, out, held>>
sessionVars == <<shakeOnly, ipcOnly, open>>

SessionInit == Init /\ H!ShakeInit /\ sync = (kind = "sync")

-----------------------------------------------------------------------------

Shaking ==
  /\ H!BrokerChat \/ H!BrokerAnnounce \/ H!ClientChat \/ H!Removed \/ H!AaaChange
  /\ UNCHANGED ipcOnly

\* The methods and the two tasks of the client.
Working(A) == cpc = "connected" /\ kind # "other" /\ A /\ UNCHANGED shakeOnly
ClientStep ==
  \/ \E o \in Op : Working(BeginFrame(o) \/ BeginPing(o) \/ Step(o) \/ Cancel(o))
  \/ Working(FlushGivenUp) \/ Working(Reading) \/ Working(Consume)

\* The broker serves the connection.
Serving(A) == bpc = "serving" /\ A /\ UNCHANGED shakeOnly
BrokerStep == Serving(BrokerPayload \/ BrokerHeader) \/ Serving(BrokerEvent)

\* The connection ends in the broker: for a reason of the session, or
\* because the client had given the handshake up.  The socket is closed at
\* once, or when the end of the client has been announced; nothing is read
\* from it meanwhile.
Finish ==
  /\ BrokerEnds \/ ~cOpen
  /\ H!BrokerFinish
  /\ CloseSocket \/ UNCHANGED <<ipcOnly, open>>
Leave == H!BrokerLeave /\ CloseSocket

SessionNext == Shaking \/ ClientStep \/ BrokerStep \/ Finish \/ Leave

\* Writes end (at the latest by their timeout), the reader goes on, and the
\* broker reads what is sent.  Nothing is assumed of the program, which need
\* not take events, nor of the announcements.  That the handshake ends is a
\* property of Handshake alone (ShakeSpec).
SessionSpec ==
  /\ SessionInit /\ [][SessionNext]_sessionVars
  /\ \A o \in Op : WF_sessionVars(Working(Step(o)))
  /\ WF_sessionVars(Working(Reading))
  /\ WF_sessionVars(Serving(BrokerPayload \/ BrokerHeader))

-----------------------------------------------------------------------------
(* Properties *)

\* Both components keep the types of their variables.
SessionTypeOK == TypeOK /\ H!ShakeTypeOK

\* What connect returns is true (chat, handle_peer, write_and_flush!).
AnswerIsTrue == H!AnswerIsTrue

=============================================================================
