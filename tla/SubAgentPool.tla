----------------------------- MODULE SubAgentPool -----------------------------
(***************************************************************************)
(* One call of SubAgentPool.runAll (src/src/harness/sub-agent-pool.ts):    *)
(* tasks 1..Tasks share a semaphore of MaxConcurrent permits; a released   *)
(* permit is handed to the first waiter, whose continuation runs in a      *)
(* later microtask; the parent's signal may fire at any point.             *)
(*                                                                         *)
(* Each task has its own child controller, but the only thing that aborts  *)
(* one is the listener on the parent's signal, which aborts all of them.   *)
(***************************************************************************)
EXTENDS Naturals, Sequences, FiniteSets

CONSTANTS
    Tasks,         \* number of tasks of the call
    MaxConcurrent  \* resolveMaxConcurrent

\* What resolveMaxConcurrent and the early return for no tasks give.
PoolLimits == Tasks \in Nat \ {0} /\ MaxConcurrent \in Nat \ {0}

VARIABLES
    at,        \* where each task's async function is
    permits,   \* Semaphore.permits
    queue,     \* Semaphore.queue, the waiting tasks in order
    listed,    \* agentStates: the status of each task
    outcome,   \* result of each task
    ran,       \* tasks that were handed to runTask
    aborted,   \* the parent's signal
    returned   \* runAll has resolved

vars == <<at, permits, queue, listed, outcome, ran, aborted, returned>>

TaskIds == 1..Tasks
In(place) == {t \in TaskIds : at[t] = place}

\* The semaphore of a call: the first MaxConcurrent tasks take a permit at once.
AtOnce == IF Tasks < MaxConcurrent THEN Tasks ELSE MaxConcurrent

Init ==
    /\ at = [t \in TaskIds |-> "new"]
    /\ permits = MaxConcurrent
    /\ queue = <<>>
    /\ listed = [t \in TaskIds |-> "none"]
    /\ outcome = [t \in TaskIds |-> "none"]
    /\ ran = {}
    /\ aborted = FALSE
    /\ returned = FALSE

\* tasks.map: every task's function runs up to its acquire().
RunAll ==
    /\ at = [t \in TaskIds |-> "new"]
    /\ at' = [t \in TaskIds |-> IF t <= AtOnce THEN "granted" ELSE "queued"]
    /\ permits' = MaxConcurrent - AtOnce
    /\ queue' = [i \in 1..(Tasks - AtOnce) |-> AtOnce + i]
    /\ listed' = [t \in TaskIds |-> "queued"]
    /\ UNCHANGED <<outcome, ran, aborted, returned>>

\* Mutant: a woken waiter does not take the permit back.
ReleaseTwice(t) ==
    /\ permits' = permits + 1
    /\ at' = [u \in TaskIds |-> IF u = t THEN "settled"
                                ELSE IF queue # <<>> /\ u = Head(queue) THEN "granted" ELSE at[u]]
    /\ queue' = IF queue = <<>> THEN queue ELSE Tail(queue)

\* Semaphore.release in the finally block of task t.
Release(t) ==
    \/ /\ queue = <<>>
       /\ permits' = permits + 1
       /\ at' = [at EXCEPT ![t] = "settled"]
       /\ UNCHANGED queue
    \/ /\ queue # <<>>
       /\ at' = [at EXCEPT ![t] = "settled", ![Head(queue)] = "granted"]
       /\ queue' = Tail(queue)
       /\ UNCHANGED permits

\* The task's function returns with a result and releases its permit.
Settle(t, status, how) ==
    /\ listed' = [listed EXCEPT ![t] = status]
    /\ outcome' = [outcome EXCEPT ![t] = how]
    /\ Release(t)

\* Continuations of granted permits run in the order of the grants.
FirstGranted(t) == t \in In("granted") /\ \A u \in In("granted") : t <= u

\* After acquire(): an aborted task fails without having run.
Continue(t) ==
    /\ FirstGranted(t)
    /\ \/ aborted /\ Settle(t, "failed", "aborted") /\ UNCHANGED ran
       \/ /\ ~aborted
          /\ at' = [at EXCEPT ![t] = "running"]
          /\ ran' = ran \cup {t}
          /\ listed' = [listed EXCEPT ![t] = "running"]
          /\ UNCHANGED <<permits, queue, outcome>>
    /\ UNCHANGED <<aborted, returned>>

\* runTask resolves: with a text, or because its loop saw the abort.
RunTaskResolves(t) ==
    /\ at[t] = "running"
    /\ \E how \in {"text"} \cup IF aborted THEN {"aborted"} ELSE {} : Settle(t, "done", how)
    /\ UNCHANGED <<ran, aborted, returned>>

\* runTask throws: the result says aborted when the signal is.
RunTaskThrows(t) ==
    /\ at[t] = "running"
    /\ Settle(t, "failed", IF aborted THEN "aborted" ELSE "error")
    /\ UNCHANGED <<ran, aborted, returned>>

\* Promise.allSettled, then the listener is removed.
AllSettled ==
    /\ In("settled") = TaskIds
    /\ ~returned
    /\ returned' = TRUE
    /\ UNCHANGED <<at, permits, queue, listed, outcome, ran, aborted>>

\* The parent's signal; once runAll returned nobody listens.
Abort ==
    /\ ~aborted /\ ~returned
    /\ aborted' = TRUE
    /\ UNCHANGED <<at, permits, queue, listed, outcome, ran, returned>>

TaskStep(t) == Continue(t) \/ RunTaskResolves(t) \/ RunTaskThrows(t)

Next == RunAll \/ (\E t \in TaskIds : TaskStep(t)) \/ AllSettled \/ Abort

Spec == Init /\ [][Next]_vars

\* Microtasks run, and every child loop ends (AgentLoop!Resting).
Progress == (\E t \in TaskIds : TaskStep(t)) \/ AllSettled
Fairness == WF_vars(Progress)

FairSpec == Spec /\ Fairness

-----------------------------------------------------------------------------
(* Properties *)

\* Types of the semaphore's fields and of the tasks' records.
TypeOK ==
    /\ at \in [TaskIds -> {"new", "queued", "granted", "running", "settled"}]
    /\ permits \in Nat
    /\ queue \in Seq(TaskIds)
    /\ listed \in [TaskIds -> {"none", "queued", "running", "done", "failed"}]
    /\ outcome \in [TaskIds -> {"none", "text", "aborted", "error"}]
    /\ ran \subseteq TaskIds
    /\ aborted \in BOOLEAN /\ returned \in BOOLEAN

Holding == In("granted") \cup In("running")

\* No permit is lost or made, whatever tasks end, throw or are aborted: those that
\* hold one and those left add up, so at most MaxConcurrent tasks run.
PermitsConserved == permits + Cardinality(Holding) = MaxConcurrent

\* "propagates parent abort to all children": no task starts once the parent's
\* signal has fired, also those that hold a permit already.
NoStartAfterAbort == [][aborted => ran' = ran]_vars

\* What a call of runAll comes to, whatever tasks fail and whenever the parent aborts.
Resting == returned \/ \A t \in TaskIds : at[t] = "new"
=============================================================================
