---------------------------- MODULE MCBoundedQueue ----------------------------
(* BoundedQueue on a small instance; the bounds are in the .cfg file. *)
EXTENDS BoundedQueue
=============================================================================
