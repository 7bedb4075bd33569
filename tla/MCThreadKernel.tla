--------------------------- MODULE MCThreadKernel ---------------------------
(***************************************************************************)
(* Instances of ThreadKernel for model checking: every semaphore starts at *)
(* the same value and every device posts the same semaphore.               *)
(***************************************************************************)
EXTENDS ThreadKernel

CONSTANTS InitialUnits, IOSem

MCInitialValue == [s \in Sems |-> InitialUnits]
MCDeviceSem == [d \in Devices |-> IOSem]
=============================================================================
