--------------------------- MODULE MCSwitchInputs ---------------------------
(***************************************************************************)
(* The inputs for TLC.                                                     *)
(***************************************************************************)
EXTENDS SwitchInputs
=============================================================================
