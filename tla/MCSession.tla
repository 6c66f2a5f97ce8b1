----------------------------- MODULE MCSession -----------------------------
(***************************************************************************)
(* Operations of the client of Session for TLC.                            *)
(***************************************************************************)
EXTENDS Session, TLC

CONSTANTS op1, op2, op3, op4

\* A frame, two more in any order, the last with the id of the first, and a ping.
MCAfter == op1 :> {} @@ op2 :> {op1} @@ op3 :> {op1} @@ op4 :> {op1}
=============================================================================
