-------------------------- MODULE MCGreedyScheduler --------------------------
(* GreedyScheduler on a disk of a few sectors, with every set of requests it  *)
(* can hold.                                                                  *)
EXTENDS GreedyScheduler
=============================================================================
