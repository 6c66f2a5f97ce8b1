------------------------------- MODULE MCRpc -------------------------------
(***************************************************************************)
(* Instances of Rpc for TLC: who calls whom.                               *)
(***************************************************************************)
EXTENDS Rpc

CONSTANTS peerA, peerB                       \* peers
CONSTANTS op1, op2, op3, op4, op5, op6       \* operations
CONSTANT  Pool                               \* the size of every task pool

MCPool == [p \in Peer |-> Pool]

CallKind == [o \in Op |-> "call"]
Alone == [o \in Op |-> None]

\* A, asynchronous, and B, synchronous, call and notify each other.  B calls
\* A (op4), whose handler calls B (op2).  A calls B (op1), whose handler
\* notifies A (op6); the handler of that calls B again (op3) and notifies it
\* (op5).
MixedKind   == [o \in Op |-> IF o \in {op5, op6} THEN "notify" ELSE "call"]
MixedCaller == [o \in Op |-> IF o \in {op4, op6} THEN peerB ELSE peerA]
MixedTarget == [o \in Op |-> IF o \in {op4, op6} THEN peerA ELSE peerB]
MixedWithin == [o \in Op |->
  CASE o = op2 -> op4 [] o \in {op3, op5} -> op6 [] o = op6 -> op1 [] OTHER -> None]

\* A and B call each other.
CrossCaller == [o \in Op |-> IF o = op1 THEN peerA ELSE peerB]
CrossTarget == [o \in Op |-> IF o = op1 THEN peerB ELSE peerA]
=============================================================================
