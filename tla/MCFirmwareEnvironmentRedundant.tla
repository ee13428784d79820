------------------- MODULE MCFirmwareEnvironmentRedundant -------------------
(***************************************************************************)
(* The environment with three different contents.  The ids, bounded by     *)
(* MaxId, leave room for several writes to each bank, so a write meets an  *)
(* older valid content, a torn one and an erased one.                      *)
(***************************************************************************)
EXTENDS FirmwareEnvironmentRedundant
CONSTANTS e1, e2, e3
=============================================================================
