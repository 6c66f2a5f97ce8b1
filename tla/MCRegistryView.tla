--------------------------- MODULE MCRegistryView ---------------------------
(***************************************************************************)
(* RegistryView with the instances of MCRegistry.                          *)
(***************************************************************************)
EXTENDS MCRegistry, RegistryView
=============================================================================
