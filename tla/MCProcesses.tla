---------------------------- MODULE MCProcesses ----------------------------
(***************************************************************************)
(* Instances of Processes: no semaphores or devices, only the timer.       *)
(***************************************************************************)
EXTENDS Processes

MCInitialValue == [s \in Sems |-> 0]
MCDeviceSem == [d \in Devices |-> NULL]
=============================================================================
