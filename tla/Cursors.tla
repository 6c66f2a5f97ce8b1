------------------------------- MODULE Cursors -------------------------------
(***************************************************************************)
(* cursors::Map of src/cursors.rs: the cursors an RPC server keeps for its *)
(* clients, the calls on them and the cleaner task.                        *)
(*                                                                         *)
(* The map is behind a fair read-write lock: wait holds the tasks that     *)
(* have asked for it, in order, so that a writer that waits keeps later    *)
(* readers out.  A writer changes the map and leaves in one step.  A       *)
(* reader keeps the lock while the cursor's own next or next_bulk runs.    *)
(* Time is abstract: the deadline of a cursor may pass at any moment.      *)
(***************************************************************************)
EXTENDS Naturals, Sequences, SequencesExt

CONSTANTS
  Cursor,    \* cursors, each made and added at most once (a new UUID)
  Caller,    \* tasks that use the map
  cleaner,   \* the cleaner task
  None       \* no cursor

VARIABLES
  map,       \* Map.data: the cursors in the map
  made,      \* cursors that exist
  finished,  \* Meta.finished
  expired,   \* Meta.expires has passed
  call,      \* what a task has called, and "run" while a cursor's function runs
  cur,       \* the cursor of the call
  wait,      \* who waits for the lock
  dropped    \* the map has been dropped

cursorVars == <<map, made, finished, expired, call, cur, wait, dropped>>
metaVars   == <<finished, expired>>

-----------------------------------------------------------------------------

Task == Caller \cup {cleaner}
Writers == {"add", "remove", "clean"}

CursorTypeOK ==
  /\ map \subseteq made /\ made \subseteq Cursor
  /\ finished \subseteq made /\ expired \subseteq made
  /\ call \in [Task -> Writers \cup {"idle", "next", "run"}]
  /\ cur \in [Task -> Cursor \cup {None}]
  /\ wait \in Seq(Task)
  /\ dropped \in BOOLEAN

CursorInit ==
  /\ map = {} /\ made = {} /\ finished = {} /\ expired = {}
  /\ call = [t \in Task |-> "idle"]
  /\ cur = [t \in Task |-> None]
  /\ wait = <<>> /\ dropped = FALSE

-----------------------------------------------------------------------------
(* The lock of the map *)

Readers == {t \in Caller : call[t] = "run"}

\* mutant: a reader passes the writers that wait.
TurnReadersFirst(t) ==
  /\ t \in ToSet(wait)
  /\ call[t] \in Writers => Readers = {} /\ \A u \in ToSet(wait) : call[u] \in Writers

\* read().await and write().await of tokio's RwLock return.
Turn(t) ==
  /\ wait # <<>> /\ Head(wait) = t
  /\ call[t] \in Writers => Readers = {}

Ask(t, k, c) ==
  /\ call[t] = "idle" /\ ~dropped
  /\ call' = [call EXCEPT ![t] = k] /\ cur' = [cur EXCEPT ![t] = c]
  /\ wait' = Append(wait, t)
  /\ UNCHANGED <<map, metaVars, dropped>>

Leave(t) == wait' = RemoveFirst(wait, t)
Return(t) ==
  /\ call' = [call EXCEPT ![t] = "idle"] /\ cur' = [cur EXCEPT ![t] = None]
  /\ UNCHANGED <<made, dropped>>

-----------------------------------------------------------------------------
(* Calls of the map *)

\* The cursor's time to live begins when it is made, not when it is in the
\* map.
Add(t, c) == c \notin made /\ made' = made \cup {c} /\ Ask(t, "add", c)
RemoveCursor(t, c) == c \in made /\ Ask(t, "remove", c) /\ UNCHANGED made
Next(t, c) == c \in made /\ Ask(t, "next", c) /\ UNCHANGED made

Change(t) ==
  /\ call[t] \in {"add", "remove"} /\ Turn(t)
  /\ map' = IF call[t] = "add" THEN map \cup {cur[t]} ELSE map \ {cur[t]}
  /\ Leave(t) /\ Return(t)
  /\ UNCHANGED metaVars

\* next and next_bulk find the cursor and touch it, or return not_found.
Found(t) ==
  /\ call[t] = "next" /\ Turn(t) /\ cur[t] \in map
  /\ expired' = expired \ {cur[t]}
  /\ call' = [call EXCEPT ![t] = "run"]
  /\ Leave(t)
  /\ UNCHANGED <<map, made, finished, cur, dropped>>
NotFound(t) ==
  /\ call[t] = "next" /\ Turn(t) /\ cur[t] \notin map
  /\ Leave(t) /\ Return(t)
  /\ UNCHANGED <<map, metaVars>>

\* The cursor's function returns; it may have marked the cursor as finished.
Ran(t) ==
  /\ call[t] = "run"
  /\ finished' \in {finished, finished \cup {cur[t]}}
  /\ Return(t)
  /\ UNCHANGED <<map, expired, wait>>

\* The deadline of a cursor passes.
Expire(c) ==
  /\ c \in made \ expired
  /\ expired' = expired \cup {c}
  /\ UNCHANGED <<map, made, finished, call, cur, wait, dropped>>

-----------------------------------------------------------------------------
(* The cleaner *)

\* mutant: the deadline is not looked at.
IsAliveUnfinished(c) == c \notin finished
IsAlive(c) == c \notin finished /\ c \notin expired

Tick == Ask(cleaner, "clean", None) /\ UNCHANGED made

\* retain(is_alive).
Clean ==
  /\ call[cleaner] = "clean" /\ Turn(cleaner)
  /\ map' = {c \in map : IsAlive(c)}
  /\ Leave(cleaner) /\ Return(cleaner)
  /\ UNCHANGED metaVars

\* Drop for Map, when no call borrows it: the cleaner is aborted.
DropMap ==
  /\ ~dropped /\ \A t \in Caller : call[t] = "idle"
  /\ dropped' = TRUE /\ map' = {} /\ wait' = <<>>
  /\ call' = [call EXCEPT ![cleaner] = "idle"]
  /\ UNCHANGED <<made, metaVars, cur>>

-----------------------------------------------------------------------------

CallStep(t) == Change(t) \/ Found(t) \/ NotFound(t) \/ Ran(t)
Cleaner == Tick \/ Clean

CursorNext ==
  \/ \E t \in Caller, c \in Cursor : Add(t, c) \/ RemoveCursor(t, c) \/ Next(t, c)
  \/ \E t \in Caller : CallStep(t)
  \/ \E c \in Cursor : Expire(c)
  \/ Cleaner \/ DropMap

\* A call goes on (the cursor's own function returns), the interval ticks.
CursorSpec ==
  /\ CursorInit /\ [][CursorNext]_cursorVars
  /\ \A t \in Caller : WF_cursorVars(CallStep(t))
  /\ WF_cursorVars(Cleaner)

-----------------------------------------------------------------------------
(* Properties *)

\* Every call returns: a cleaner that waits for a slow cursor delays the
\* calls behind it, but neither they nor the cleaner are passed over for
\* ever (Map::next, spawn_cleaner).
CallReturns == \A t \in Caller : call[t] # "idle" ~> call[t] = "idle"

\* A finished or expired cursor leaves the map, however busy the map is,
\* unless a call touches it in time (retain, touch).
DeadLeaves ==
  \A c \in Cursor :
    c \in map \cap (finished \cup expired) ~> c \notin map \cap (finished \cup expired)
=============================================================================
