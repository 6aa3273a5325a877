-------------------------- MODULE MCUserInterface --------------------------
(***************************************************************************)
(* The user interface for TLC.                                             *)
(***************************************************************************)
EXTENDS UserInterface
=============================================================================
