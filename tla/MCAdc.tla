------------------------------- MODULE MCAdc -------------------------------
(***************************************************************************)
(* The measurements for TLC: the sensor task and one client's thread.      *)
(***************************************************************************)
EXTENDS Adc
============================================================================
