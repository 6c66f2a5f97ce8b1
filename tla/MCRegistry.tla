----------------------------- MODULE MCRegistry -----------------------------
(***************************************************************************)
(* Instances of Registry for TLC.  There are two families of names: "n",   *)
(* with the secondary "n%%0", and "m", and the name of the core client.    *)
(***************************************************************************)
EXTENDS Registry

CONSTANTS Secs, Others   \* instances named "n%%0" and "m"

MCName == {"n", "n%%0", "m"} \cup (IF Core = None THEN {} ELSE {".broker"})
MCname == [i \in Inst |->
  CASE i = Core -> ".broker" [] i \in Secs -> "n%%0"
    [] i \in Others -> "m" [] OTHER -> "n"]
MCprimary_name == [i \in Inst |-> IF i \in Secs THEN "n" ELSE MCname[i]]
=============================================================================
