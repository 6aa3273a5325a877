---------------------------- MODULE MCSerialPort ----------------------------
(***************************************************************************)
(* The console UART for TLC.                                               *)
(***************************************************************************)
EXTENDS SerialPort
=============================================================================
