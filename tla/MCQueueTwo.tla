------------------------------ MODULE MCQueueTwo ------------------------------
(***************************************************************************)
(* The MQTT thread and an application thread both start and stop the queue *)
(* processor.                                                              *)
(***************************************************************************)
EXTENDS QueueProcessor

MCCallers == {"mqtt", "application"}
MCThreads == 1 .. 3

=============================================================================
