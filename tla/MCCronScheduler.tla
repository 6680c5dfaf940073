--------------------------- MODULE MCCronScheduler ---------------------------
(* Instances of CronScheduler for TLC. *)
EXTENDS CronScheduler

CONSTANTS j1, j2, u1

OneJob == {j1}
TwoJobs == {j1, j2}
OneUser == {u1}

CallsRun == {"create", "start", "stop"}
CallsRemove == {"create", "start", "remove"}

Unlimited == {0}
OnceOrUnlimited == {0, 1}
=============================================================================
