-------------------------- MODULE MCQueueConsumer --------------------------
(* QueueConsumer instantiated for TLC. *)
EXTENDS QueueConsumer
=============================================================================
