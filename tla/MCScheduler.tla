---------------------------- MODULE MCScheduler ----------------------------
(***************************************************************************)
(* An instance of Scheduler, and of its refinement of RoundRobin, for TLC: *)
(* three processes of two priorities, created, blocked, unblocked and      *)
(* exiting in every order, against every interleaving of ticks.            *)
(***************************************************************************)
EXTENDS SchedulerRefinement
=============================================================================
