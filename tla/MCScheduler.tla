---------------------------- MODULE MCScheduler -----------------------------
(***************************************************************************)
(* Instances of Scheduler for TLC.                                         *)
(***************************************************************************)
EXTENDS Scheduler

\* Sleeping times: none, less than a tick, and one that rounds up to two.
MCSleepMs == {0, 15}
MCOneSleep == {15}
MCLongSleep == {0, 35}

=============================================================================
