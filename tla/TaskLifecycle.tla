---------------------------- MODULE TaskLifecycle ----------------------------
(***************************************************************************)
(* What the task subsystem promises about one background task, seen only   *)
(* through the status column of the tasks table (src/src/tasks/types.ts):  *)
(* a task is created pending, is started at most once, ends complete or    *)
(* failed, and a terminal status is never left.  WorkerManager implements  *)
(* this specification.                                                     *)
(***************************************************************************)
CONSTANT Tasks

VARIABLE status

States == {"absent", "pending", "running", "complete", "failed"}
Terminal == {"complete", "failed"}

Init == status = [t \in Tasks |-> "absent"]

\* The one transition that task t takes, from one status to another.
Becomes(t, from, to) ==
    /\ status[t] = from
    /\ status' = [status EXCEPT ![t] = to]

Create(t) == Becomes(t, "absent", "pending")
Start(t) == Becomes(t, "pending", "running")
Complete(t) == Becomes(t, "running", "complete")
Fail(t) == Becomes(t, "running", "failed")

\* A restart of the process fails every task that was running, at once.
Recover ==
    status' = [t \in Tasks |-> IF status[t] = "running" THEN "failed" ELSE status[t]]

Next ==
    \/ Recover
    \/ \E t \in Tasks : Create(t) \/ Start(t) \/ Complete(t) \/ Fail(t)

Spec == Init /\ [][Next]_status
=============================================================================
