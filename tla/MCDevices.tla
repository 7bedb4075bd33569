----------------------------- MODULE MCDevices ------------------------------
(***************************************************************************)
(* Devices with short times that keep the order of the real ones: a user   *)
(* instruction is shorter than a kernel tick, that is shorter than the     *)
(* timer and console periods, and those than a sector's rotation.          *)
(***************************************************************************)
EXTENDS Devices
=============================================================================
