-------------------------- MODULE MCDevicePairing --------------------------
(***************************************************************************)
(* Instances of DevicePairing for TLC.                                     *)
(***************************************************************************)
EXTENDS DevicePairing, TLC
=============================================================================
