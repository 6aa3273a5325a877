--------------------------- MODULE MCControlTask ---------------------------
(***************************************************************************)
(* The control task for TLC.                                               *)
(***************************************************************************)
EXTENDS ControlTask
============================================================================
