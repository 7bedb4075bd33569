-------------------------- MODULE MCVirtualMemory --------------------------
(***************************************************************************)
(* Instances of VirtualMemory: the semaphores are the page locks.          *)
(***************************************************************************)
EXTENDS VirtualMemory

MCInitialValue == [s \in Sems |-> 1]
MCDeviceSem == [d \in Devices |-> NULL]
=============================================================================
