---------------------------- MODULE MCDeviceSync ----------------------------
(* A small instance of DeviceSync for TLC.  Accounts are model values, which *)
(* differ from the numbers that are ids of rows; liveness is checked, so     *)
(* there is no symmetry.                                                     *)
EXTENDS DeviceSync
=============================================================================
