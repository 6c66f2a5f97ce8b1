------------------------------- MODULE Names -------------------------------
(***************************************************************************)
(* What the registry of the broker promises, whatever its tasks do: a name *)
(* has one owner; a client gets a name once, when the name is free or, for *)
(* a primary under force_register, by displacing the owner; a client that  *)
(* leaves frees its own name and no other, and a primary that leaves or is *)
(* displaced takes its secondaries with it, at the same instant.           *)
(* Module RegistryView shows that Registry implements this.                *)
(***************************************************************************)

CONSTANTS
  Inst, Name,     \* client instances and names
  name,           \* [Inst -> Name]
  primary_name,   \* [Inst -> Name]
  ForceRegister,  \* whether a primary may displace the owner of its name
  None            \* no owner

VARIABLES
  owner,          \* [Name -> Inst \cup {None}]
  seen            \* the clients that have had their name

IsPrimary(i) == name[i] = primary_name[i]
\* The names that fall free with n: its own, and those of its secondaries.
FreedWith(n) == {n} \cup {name[s] : s \in {s \in Inst : primary_name[s] = n}}

NamesInit == owner = [n \in Name |-> None] /\ seen = {}

Without(n) == [m \in Name |-> IF m \in FreedWith(n) THEN None ELSE owner[m]]

Register(i) ==
  /\ i \notin seen /\ owner[name[i]] = None
  /\ IsPrimary(i) \/ owner[primary_name[i]] # None
  /\ owner' = [owner EXCEPT ![name[i]] = i]
  /\ seen' = seen \cup {i}

Displace(i) ==
  /\ ForceRegister /\ IsPrimary(i)
  /\ i \notin seen /\ owner[name[i]] # None
  /\ owner' = [Without(name[i]) EXCEPT ![name[i]] = i]
  /\ seen' = seen \cup {i}

LeaveName(i) ==
  /\ owner[name[i]] = i
  /\ owner' = Without(name[i])
  /\ UNCHANGED seen

NamesNext == \E i \in Inst : Register(i) \/ Displace(i) \/ LeaveName(i)

NamesSpec == NamesInit /\ [][NamesNext]_<<owner, seen>>
=============================================================================
