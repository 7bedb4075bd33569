---------------------------- MODULE MCThreadTest ----------------------------
(***************************************************************************)
(* Three threads and the main thread, with and without the timer.          *)
(***************************************************************************)
EXTENDS ThreadTest

MCThreads == 0..3
MCInitialValue == [s \in Sems |-> 1]
MCDeviceSem == [d \in Devices |-> NULL]
=============================================================================
