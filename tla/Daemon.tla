------------------------------- MODULE Daemon -------------------------------
(***************************************************************************)
(* busrtd, src/server.rs: the start of the broker daemon, the handlers of  *)
(* the termination signals and the end of the process.                     *)
(*                                                                         *)
(* The pid file is written and noted in two steps; the guard of SOCK_FILES *)
(* is held while the sockets are bound, the one of BROKER during the       *)
(* announcement; the other locks are taken and released within a step.     *)
(***************************************************************************)
EXTENDS Naturals, FiniteSets

CONSTANTS
  Path,      \* what to bind to
  Socket     \* the paths that leave a file: unix sockets and fifos

VARIABLES
  main,      \* where main is, or how the process has ended
  todo,      \* paths that are not bound yet
  pidFile,   \* whether the pid file exists
  PID_FILE,  \* whether it is noted
  files,     \* socket files that exist
  SOCK_FILES,\* socket files that are noted
  BROKER,    \* whether the broker is there for the signal handlers
  SERVER_ACTIVE,
  hpc,       \* where a signal handler is
  announced, \* history: the shutdown has been announced
  early,     \* history: a signal came before the broker was there
  hasty      \* history: the list of socket files was read before main locked it

daemonVars == <<main, todo, pidFile, PID_FILE, files, SOCK_FILES, BROKER,
                SERVER_ACTIVE, hpc, announced, early, hasty>>
fileVars == <<todo, pidFile, PID_FILE, files, SOCK_FILES>>
histVars == <<announced, early, hasty>>

-----------------------------------------------------------------------------

Signal == {"INT", "TERM"}
Ended == main \in {"off", "exit", "panic", "killed"}

DaemonTypeOK ==
  /\ main \in {"off", "pid", "note", "spawn", "bind", "ready", "loop", "exit", "panic", "killed"}
  /\ todo \subseteq Path /\ files \subseteq Socket /\ SOCK_FILES \subseteq Socket
  /\ pidFile \in BOOLEAN /\ PID_FILE \in BOOLEAN
  /\ BROKER \in BOOLEAN /\ SERVER_ACTIVE \in BOOLEAN
  /\ hpc \in [Signal -> {"none", "recv", "pid", "sock", "broker", "announce", "store", "sleep"}]
  /\ announced \in BOOLEAN /\ early \in BOOLEAN /\ hasty \in BOOLEAN

DaemonInit ==
  /\ main = "off" /\ todo = Path
  /\ pidFile = FALSE /\ PID_FILE = FALSE /\ files = {} /\ SOCK_FILES = {}
  /\ BROKER = FALSE /\ SERVER_ACTIVE = TRUE
  /\ hpc = [s \in Signal |-> "none"]
  /\ announced = FALSE /\ early = FALSE /\ hasty = FALSE

-----------------------------------------------------------------------------
(* main *)

\* With a pid file or without.
Start ==
  /\ main = "off" /\ main' \in {"pid", "spawn"}
  /\ UNCHANGED <<fileVars, BROKER, SERVER_ACTIVE, hpc, histVars>>
WritePid ==
  /\ main = "pid"
  /\ \/ main' = "note" /\ pidFile' = TRUE
     \/ main' = "panic" /\ UNCHANGED pidFile
  /\ UNCHANGED <<todo, PID_FILE, files, SOCK_FILES, BROKER, SERVER_ACTIVE, hpc, histVars>>
NotePid ==
  /\ main = "note"
  /\ main' = "spawn" /\ PID_FILE' = TRUE
  /\ UNCHANGED <<todo, pidFile, files, SOCK_FILES, BROKER, SERVER_ACTIVE, hpc, histVars>>

\* The handlers are spawned, the core RPC is set up, and the lock of
\* SOCK_FILES is taken.
LockSocks ==
  /\ main = "spawn"
  /\ main' = "bind"
  /\ UNCHANGED <<fileVars, BROKER, SERVER_ACTIVE, hpc, histVars>>

\* mutant: what leaves no file is noted too.
BindNoteAll(x) ==
  /\ main = "bind" /\ x \in todo
  /\ \/ /\ todo' = todo \ {x}
        /\ files' = files \cup ({x} \cap Socket)
        /\ SOCK_FILES' = SOCK_FILES \cup {x}
        /\ UNCHANGED main
     \/ main' = "panic" /\ UNCHANGED <<todo, files, SOCK_FILES>>
  /\ UNCHANGED <<pidFile, PID_FILE, BROKER, SERVER_ACTIVE, hpc, histVars>>
Bind(x) ==
  /\ main = "bind" /\ x \in todo
  /\ \/ /\ todo' = todo \ {x}
        /\ files' = files \cup ({x} \cap Socket)
        /\ SOCK_FILES' = SOCK_FILES \cup ({x} \cap Socket)
        /\ UNCHANGED main
     \/ main' = "panic" /\ UNCHANGED <<todo, files, SOCK_FILES>>
  /\ UNCHANGED <<pidFile, PID_FILE, BROKER, SERVER_ACTIVE, hpc, histVars>>
UnlockSocks ==
  /\ main = "bind" /\ todo = {}
  /\ main' = "ready"
  /\ UNCHANGED <<fileVars, BROKER, SERVER_ACTIVE, hpc, histVars>>

\* A handler that looks at BROKER holds its lock only within its step as
\* long as there is no broker to announce with.
Ready ==
  /\ main = "ready"
  /\ main' = "loop" /\ BROKER' = TRUE
  /\ UNCHANGED <<fileVars, SERVER_ACTIVE, hpc, histVars>>

\* The loop looks at SERVER_ACTIVE every 100 ms; main returns.
Return ==
  /\ main = "loop" /\ ~SERVER_ACTIVE
  /\ main' = "exit"
  /\ UNCHANGED <<fileVars, BROKER, SERVER_ACTIVE, hpc, histVars>>

-----------------------------------------------------------------------------
(* handle_term_signal!, terminate *)

Running == main \in {"spawn", "bind", "ready", "loop"}

\* signal(kind), the first time and after every signal.
Listen(s) ==
  /\ Running /\ hpc[s] \in {"none", "sleep"}
  /\ hpc' = [hpc EXCEPT ![s] = "recv"]
  /\ UNCHANGED <<main, fileVars, BROKER, SERVER_ACTIVE, histVars>>

\* A signal arrives.  Before signal(kind) it ends the process; while its
\* handler is at work it is lost.
Recv(s) ==
  /\ Running /\ hpc[s] = "recv"
  /\ hpc' = [hpc EXCEPT ![s] = "pid"]
  /\ early' = (early \/ ~BROKER)
  /\ UNCHANGED <<main, fileVars, BROKER, SERVER_ACTIVE, announced, hasty>>
Kill ==
  /\ ~Ended /\ \E s \in Signal : hpc[s] = "none"
  /\ main' = "killed"
  /\ UNCHANGED <<fileVars, BROKER, SERVER_ACTIVE, hpc, histVars>>

RemovePid(s) ==
  /\ Running /\ hpc[s] = "pid"
  /\ pidFile' = (pidFile /\ ~PID_FILE)
  /\ hpc' = [hpc EXCEPT ![s] = "sock"]
  /\ UNCHANGED <<main, todo, PID_FILE, files, SOCK_FILES, BROKER, SERVER_ACTIVE, histVars>>

\* mutant: the list is passed over when it is locked.
RemoveSocksTry(s) ==
  /\ Running /\ hpc[s] = "sock"
  /\ files' = IF main = "bind" THEN files ELSE files \ SOCK_FILES
  /\ hasty' = (hasty \/ main = "spawn")
  /\ hpc' = [hpc EXCEPT ![s] = "broker"]
  /\ UNCHANGED <<main, todo, pidFile, PID_FILE, SOCK_FILES, BROKER, SERVER_ACTIVE, announced, early>>

\* mutant: main keeps the list locked.
RemoveSocksLocked(s) ==
  /\ main = "spawn" /\ hpc[s] = "sock"
  /\ files' = files \ SOCK_FILES
  /\ hasty' = (hasty \/ main = "spawn")
  /\ hpc' = [hpc EXCEPT ![s] = "broker"]
  /\ UNCHANGED <<main, todo, pidFile, PID_FILE, SOCK_FILES, BROKER, SERVER_ACTIVE, announced, early>>
RemoveSocks(s) ==
  /\ Running /\ hpc[s] = "sock" /\ main # "bind"
  /\ files' = files \ SOCK_FILES
  /\ hasty' = (hasty \/ main = "spawn")
  /\ hpc' = [hpc EXCEPT ![s] = "broker"]
  /\ UNCHANGED <<main, todo, pidFile, PID_FILE, SOCK_FILES, BROKER, SERVER_ACTIVE, announced, early>>

\* The announcement, if the broker is there; a second handler waits for the
\* guard of the first.
LockBroker(s) ==
  /\ Running /\ hpc[s] = "broker" /\ \A u \in Signal : hpc[u] # "announce"
  /\ hpc' = [hpc EXCEPT ![s] = IF BROKER THEN "announce" ELSE "store"]
  /\ UNCHANGED <<main, fileVars, BROKER, SERVER_ACTIVE, histVars>>
\* broker.announce has no timeout: module Registry shows that it may wait for
\* ever.
Announce(s) ==
  /\ Running /\ hpc[s] = "announce"
  /\ announced' = TRUE
  /\ hpc' = [hpc EXCEPT ![s] = "store"]
  /\ UNCHANGED <<main, fileVars, BROKER, SERVER_ACTIVE, early, hasty>>

Store(s) ==
  /\ Running /\ hpc[s] = "store"
  /\ SERVER_ACTIVE' = FALSE
  /\ hpc' = [hpc EXCEPT ![s] = "sleep"]
  /\ UNCHANGED <<main, fileVars, BROKER, histVars>>

-----------------------------------------------------------------------------

Main == WritePid \/ NotePid \/ LockSocks \/ (\E x \in Path : Bind(x)) \/ UnlockSocks \/ Ready \/ Return
Terminate(s) == RemovePid(s) \/ RemoveSocks(s) \/ LockBroker(s) \/ Store(s)

DaemonNext ==
  \/ Start \/ Main \/ Kill
  \/ \E s \in Signal : Listen(s) \/ Recv(s) \/ Terminate(s) \/ Announce(s)

\* The announcement is left out: nothing makes it end.
DaemonSpec ==
  /\ DaemonInit /\ [][DaemonNext]_daemonVars
  /\ WF_daemonVars(Main) /\ \A s \in Signal : WF_daemonVars(Terminate(s))

-----------------------------------------------------------------------------
(* Properties *)

\* When main has returned, whenever the signals came, nothing is left behind,
\* neither the pid file nor a socket file, and the clients have been told
\* of the shutdown: terminate waits for the list that main holds while it
\* binds, and clears SERVER_ACTIVE last.  There are two exceptions.  A signal
\* handled after the handlers are spawned and before main has the list
\* (while the core RPC is set up) leaves the sockets: main then binds,
\* finds SERVER_ACTIVE cleared and returns.  A signal before the start is
\* over is not announced, as BROKER is set after the sockets are bound.
CleanExit ==
  main = "exit" => ~pidFile /\ (files = {} \/ hasty) /\ (announced \/ early)

\* A signal that was received ends the process, also during the start,
\* provided that the announcements of the shutdown end.
SignalEnds ==
  (\A u \in Signal : []<>(hpc[u] # "announce")) =>
    \A s \in Signal : hpc[s] = "pid" ~> Ended
=============================================================================
