------------------------------ MODULE MCJobQueue ------------------------------
(* The module TLC checks; QueueOverlap.cfg gives the constants their values. *)
EXTENDS JobQueue
=============================================================================
