---------------------------- MODULE MCSensorTask ----------------------------
(***************************************************************************)
(* The sensor task for TLC: the analog inputs are interchangeable.         *)
(***************************************************************************)
EXTENDS SensorTask, TLC

ChannelSymmetry == Permutations(Channels)
=============================================================================
