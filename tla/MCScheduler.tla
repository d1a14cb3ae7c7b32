---------------------------- MODULE MCScheduler ----------------------------
(* A small instance of Scheduler for TLC: the priorities lie below, in and   *)
(* above the range of the run queues.  Liveness forbids symmetry.           *)
EXTENDS Scheduler, TLC
=============================================================================
