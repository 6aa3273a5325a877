----------------------------- MODULE MCBleTask -----------------------------
(***************************************************************************)
(* The BLE task for TLC.                                                   *)
(***************************************************************************)
EXTENDS BleTask
=============================================================================
