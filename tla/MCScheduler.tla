----------------------------- MODULE MCScheduler -----------------------------
(* The tasks of the runs of Scheduler: crons a and b, a delayed task d, and *)
(* tasks chained to it.                                                     *)
EXTENDS Scheduler, TLC

CONSTANTS a, b, d

ParentIsD   == [x \in Chained |-> d]
ThreeTicks  == [x \in Cron |-> 3]

=============================================================================
