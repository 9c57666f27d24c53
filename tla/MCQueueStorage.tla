--------------------------- MODULE MCQueueStorage ---------------------------
(* QueueStorage on small instances; the bounds are in the .cfg files. *)
EXTENDS QueueStorage
=============================================================================
