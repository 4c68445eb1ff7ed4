----------------------------- MODULE MCScheduler -----------------------------
(***************************************************************************)
(* Small instances of Scheduler for TLC: two jobs at a time, a clock that  *)
(* goes from before the time of a deployment to after its timeout, and a   *)
(* branch with one row, or with one for each of two patches.               *)
(***************************************************************************)
EXTENDS Scheduler

CONSTANTS p1, p2, t1, t2, j1, j2

MCOneRow  == 1..1
MCTwoRows == 1..2
=============================================================================
