----------------------------- MODULE MCScheduler -----------------------------
(* Instances of Scheduler for TLC. *)
EXTENDS Scheduler

\* Delays as in the tests: in the past (TimerBehaviors), and later.
PastAndFuture == {-1, 1}
=============================================================================
