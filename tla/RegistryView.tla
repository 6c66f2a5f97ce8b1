---------------------------- MODULE RegistryView ----------------------------
(***************************************************************************)
(* Registry with what an observer sees of it: view is BrokerDb.clients     *)
(* whenever no task is between two awaits, seen the clients it has shown.  *)
(* With one worker thread this view implements Names.                      *)
(***************************************************************************)
EXTENDS Registry

VARIABLES
  view,   \* history: clients, as of the last moment without a task at work
  seen    \* history: the instances that have been in view

viewVars == <<vars, view, seen>>

ViewInit == Init /\ view = clients /\ seen = {}

ViewNext ==
  /\ Next
  /\ view' = IF Quiet' THEN clients' ELSE view
  /\ seen' = seen \cup {i \in Inst : view'[name[i]] = i}

ViewSpec == ViewInit /\ [][ViewNext]_viewVars

N == INSTANCE Names WITH owner <- view

\* The registry implements Names: between two awaits a task registers one
\* client, displaces one or removes one together with its secondaries, and
\* nothing else.  In particular the late unregister_client of a client that
\* was displaced or evicted takes no name from its successor (insert_client,
\* drop_client, unregister_client).
ImplementsNames == N!NamesSpec
=============================================================================
