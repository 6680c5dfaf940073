---------------------------- MODULE WorkerManager ----------------------------
(***************************************************************************)
(* The pool that runs background tasks (src/src/tasks/worker-manager.ts)   *)
(* over the persistent task queue (task-queue.ts, task-store.ts).          *)
(*                                                                         *)
(* Everything runs on one JavaScript thread, so an action is the code from *)
(* one await to the next.  The fibers are the calls of spawn() and the     *)
(* executeWorker() of each task; a fiber is named by its spawner or by its *)
(* task.  A SQLite statement executes when it is issued, its answer is     *)
(* seen after the await: the actions ending in "starting" and "saving"     *)
(* write the store, the actions leaving those points act on the answer.    *)
(***************************************************************************)
EXTENDS Naturals, Sequences, FiniteSets

CONSTANTS
    Tasks,           \* task ids that may be created
    Spawners,        \* calls of spawn() that may be in progress at once
    NoTask,          \* not a task id: the fiber is not concerned with one
    MaxWorkers,      \* maxConcurrentWorkers
    MaxRestarts,     \* bound: crashes of the process
    MaxShutdowns,    \* bound: calls of shutdown()
    MaxStoreFaults   \* bound: store calls that throw without writing

ASSUME FibersDisjoint == Tasks \cap Spawners = {} /\ NoTask \notin Tasks
ASSUME LimitsAreNaturals ==
    /\ MaxWorkers \in Nat \ {0}
    /\ MaxRestarts \in Nat /\ MaxShutdowns \in Nat /\ MaxStoreFaults \in Nat

VARIABLES
    store,       \* the status column of the tasks table; survives a crash
    up,          \* the process is running and has recovered the store
    pending,     \* pendingTaskIds
    running,     \* keys of runningWorkers
    abort,       \* abort reason of each task's AbortController
    pc,          \* where each fiber awaits
    cur,         \* the task a fiber is reading or starting
    won,         \* the answer it awaits: status was "pending"
    starts,      \* how often runTask was called for a task, ever
    shut,        \* shutdown(): "no", "waiting" on awaited, or "resolved"
    awaited,     \* the workerPromises shutdown() waits for
    faults, restarts, shutdowns

control == <<pc, cur, won>>
stopping == <<shut, awaited>>
bounds == <<faults, restarts, shutdowns>>
vars == <<store, up, pending, running, abort, starts, control, stopping, bounds>>

Fibers == Tasks \cup Spawners
States == {"absent", "pending", "running", "complete", "failed"}
Terminal == {"complete", "failed"}
Queued(t) == \E i \in 1..Len(pending) : pending[i] = t
\* The fiber f has an answered queue.start for t it has not yet acted upon.
InFlight(f, t) == pc[f] = "starting" /\ won[f] /\ cur[f] = t

Init ==
    /\ store = [t \in Tasks |-> "absent"]
    /\ up = TRUE
    /\ pending = <<>>
    /\ running = {}
    /\ abort = [t \in Tasks |-> "none"]
    /\ pc = [f \in Fibers |-> "idle"]
    /\ cur = [f \in Fibers |-> NoTask]
    /\ won = [f \in Fibers |-> FALSE]
    /\ starts = [t \in Tasks |-> 0]
    /\ shut = "no" /\ awaited = {}
    /\ faults = 0 /\ restarts = 0 /\ shutdowns = 0

\* Fiber f goes to a point where it is concerned with no task.
Goto(f, label) ==
    /\ pc' = [pc EXCEPT ![f] = label]
    /\ cur' = [cur EXCEPT ![f] = NoTask]
    /\ won' = [won EXCEPT ![f] = FALSE]

\* Fiber f issues a read or a queue.start of task t, which answers ok.
Await(f, label, t, ok) ==
    /\ pc' = [pc EXCEPT ![f] = label]
    /\ cur' = [cur EXCEPT ![f] = t]
    /\ won' = [won EXCEPT ![f] = ok]

-----------------------------------------------------------------------------
(* The store *)

\* updateTask with an expectedStatus: UPDATE ... WHERE id = t AND status = from.
UpdateIf(t, from, to) ==
    store' = [store EXCEPT ![t] = IF @ = from THEN to ELSE @]

\* Mutant: start() without its expectedStatus.
StartHitsAlways(t) == TRUE
\* Does the UPDATE of start() change a row?
StartHits(t) == store[t] = "pending"
QueueStart(t) == store' = [store EXCEPT ![t] = IF StartHits(t) THEN "running" ELSE @]
QueueComplete(t) == UpdateIf(t, "running", "complete")
QueueFail(t) == UpdateIf(t, "running", "failed")

StoreThrows ==
    /\ faults < MaxStoreFaults
    /\ faults' = faults + 1
    /\ UNCHANGED store

Enqueue(t) ==
    /\ up
    /\ store[t] = "absent"
    /\ store' = [store EXCEPT ![t] = "pending"]
    /\ UNCHANGED <<up, pending, running, abort, starts, control, stopping, bounds>>

\* retry() reads the failed task and inserts a new pending one.
Retry(source, t) ==
    /\ store[source] = "failed"
    /\ Enqueue(t)

-----------------------------------------------------------------------------
(* drainQueue *)

\* Fiber f evaluates the loop condition of drainQueue over the queue q and the
\* running workers r: it shifts a task and issues queue.start for it, or ends.
Drain(f, q, r) ==
    \/ /\ Cardinality(r) < MaxWorkers /\ q # <<>>
       /\ pending' = Tail(q)
       /\ QueueStart(Head(q))
       /\ Await(f, "starting", Head(q), StartHits(Head(q)))
       /\ UNCHANGED faults
    \/ /\ Cardinality(r) < MaxWorkers /\ q # <<>>
       /\ StoreThrows
       /\ pending' = Tail(q)
       /\ Goto(f, "idle")
    \/ /\ Cardinality(r) >= MaxWorkers \/ q = <<>>
       /\ pending' = q
       /\ Goto(f, "idle")
       /\ UNCHANGED <<store, faults>>

\* startWorker resumes: the UPDATE hit the row, so the worker is registered with
\* a new AbortController and executeWorker runs up to its await of runTask.
StartWorker(f) ==
    /\ pc[f] = "starting" /\ won[f]
    /\ running' = running \cup {cur[f]}
    /\ abort' = [abort EXCEPT ![cur[f]] = "none"]
    /\ starts' = [starts EXCEPT ![cur[f]] = @ + 1]
    /\ pc' = [pc EXCEPT ![f] = "draining", ![cur[f]] = "executing"]
    /\ cur' = [cur EXCEPT ![f] = NoTask]
    /\ won' = [won EXCEPT ![f] = FALSE]
    /\ UNCHANGED <<store, up, pending, stopping, bounds>>

\* startWorker resumes: the task was no longer pending.
StartLost(f) ==
    /\ pc[f] = "starting" /\ ~won[f]
    /\ Goto(f, "draining")
    /\ UNCHANGED <<store, up, pending, running, abort, starts, stopping, bounds>>

\* drainQueue resumes after startWorker and evaluates its condition again.
DrainAgain(f) ==
    /\ pc[f] = "draining"
    /\ Drain(f, pending, running)
    /\ UNCHANGED <<up, running, abort, starts, stopping, restarts, shutdowns>>

-----------------------------------------------------------------------------
(* spawn *)

\* spawn(t) after the configuration is loaded: an untracked task is looked up.
SpawnRead(s, t) ==
    /\ up
    /\ pc[s] = "idle"
    /\ t \notin running /\ ~Queued(t)
    /\ Await(s, "reading", t, store[t] = "pending")
    /\ UNCHANGED <<store, up, pending, running, abort, starts, stopping, bounds>>

\* The row was pending when it was read: push it and drain.
SpawnPush(s) ==
    /\ pc[s] = "reading" /\ won[s]
    /\ Drain(s, Append(pending, cur[s]), running)
    /\ UNCHANGED <<up, running, abort, starts, stopping, restarts, shutdowns>>

\* not_found or not_pending.
SpawnRefused(s) ==
    /\ pc[s] = "reading" /\ ~won[s]
    /\ Goto(s, "idle")
    /\ UNCHANGED <<store, up, pending, running, abort, starts, stopping, bounds>>

-----------------------------------------------------------------------------
(* executeWorker *)

\* Mutant: the error of runTask is swallowed.
CatchIgnores(t) ==
    /\ pc' = [pc EXCEPT ![t] = "saving"]
    /\ UNCHANGED <<store, faults>>

\* The catch block: an aborted task fails with the abort reason, another one
\* with its error.  When this call throws too, only the finally block is left.
CatchBlock(t) ==
    /\ pc' = [pc EXCEPT ![t] = "saving"]
    /\ \/ QueueFail(t) /\ UNCHANGED faults
       \/ StoreThrows

\* Mutant: the aborted signal is not looked at after runTask resolved.
ResolvesUnchecked(t) ==
    /\ pc[t] = "executing"
    /\ QueueComplete(t)
    /\ pc' = [pc EXCEPT ![t] = "saving"]
    /\ UNCHANGED <<up, pending, running, abort, starts, cur, won, stopping, bounds>>

\* runTask resolved: an aborted worker still fails.
RunTaskResolves(t) ==
    /\ pc[t] = "executing"
    /\ \/ /\ IF abort[t] # "none" THEN QueueFail(t) ELSE QueueComplete(t)
          /\ pc' = [pc EXCEPT ![t] = "saving"]
          /\ UNCHANGED faults
       \/ /\ StoreThrows
          /\ pc' = [pc EXCEPT ![t] = "caught"]
    /\ UNCHANGED <<up, pending, running, abort, starts, cur, won, stopping, restarts, shutdowns>>

RunTaskRejects(t) ==
    /\ pc[t] = "executing"
    /\ CatchBlock(t)
    /\ UNCHANGED <<up, pending, running, abort, starts, cur, won, stopping, restarts, shutdowns>>

\* The store call inside the try block threw.
SaveRejected(t) ==
    /\ pc[t] = "caught"
    /\ CatchBlock(t)
    /\ UNCHANGED <<up, pending, running, abort, starts, cur, won, stopping, restarts, shutdowns>>

\* Mutant: the finally block releases the slot and does not drain.
FinallyWithoutDrain(t) ==
    /\ pc[t] = "saving"
    /\ running' = running \ {t}
    /\ abort' = [abort EXCEPT ![t] = "none"]
    /\ Goto(t, "idle")
    /\ UNCHANGED <<store, up, pending, starts, stopping, bounds>>

\* The finally block: release the slot (the runtime and its AbortController are
\* gone with it), then drain the queue.
Finally(t) ==
    /\ pc[t] = "saving"
    /\ running' = running \ {t}
    /\ abort' = [abort EXCEPT ![t] = "none"]
    /\ Drain(t, pending, running')
    /\ UNCHANGED <<up, starts, stopping, restarts, shutdowns>>

-----------------------------------------------------------------------------
(* cancel, the timer, shutdown, crash *)

\* cancel(t), and what shutdown does for each worker.
Cancel(t) ==
    /\ t \in running
    /\ abort' = [abort EXCEPT ![t] = "cancelled"]
    /\ UNCHANGED <<store, up, pending, running, starts, control, stopping, bounds>>

\* The timer armed by startWorker; the finally block clears it.
Timeout(t) ==
    /\ t \in running
    /\ abort' = [abort EXCEPT ![t] = "timeout"]
    /\ UNCHANGED <<store, up, pending, running, starts, control, stopping, bounds>>

Shutdown ==
    /\ up /\ shut # "waiting"
    /\ shutdowns < MaxShutdowns
    /\ shutdowns' = shutdowns + 1
    /\ abort' = [t \in Tasks |-> IF t \in running THEN "cancelled" ELSE abort[t]]
    /\ pending' = <<>>
    /\ awaited' = {t \in Tasks : pc[t] # "idle"}
    /\ shut' = "waiting"
    /\ UNCHANGED <<store, up, running, starts, control, faults, restarts>>

\* Promise.allSettled over the promises that existed when it was called.
ShutdownResolves ==
    /\ shut = "waiting"
    /\ \A t \in awaited : pc[t] = "idle"
    /\ shut' = "resolved"
    /\ awaited' = {}
    /\ UNCHANGED <<store, up, pending, running, abort, starts, control, bounds>>

\* The process dies: all but the table and the history is lost.
Crash ==
    /\ up
    /\ restarts < MaxRestarts
    /\ restarts' = restarts + 1
    /\ up' = FALSE
    /\ pending' = <<>>
    /\ running' = {}
    /\ abort' = [t \in Tasks |-> "none"]
    /\ pc' = [f \in Fibers |-> "idle"]
    /\ cur' = [f \in Fibers |-> NoTask]
    /\ won' = [f \in Fibers |-> FALSE]
    /\ shut' = "no" /\ awaited' = {}
    /\ UNCHANGED <<store, starts, faults, shutdowns>>

\* Mutant: the recovery UPDATE fails every unfinished task, pending ones too.
RecoverAll ==
    /\ ~up
    /\ up' = TRUE
    /\ store' = [t \in Tasks |-> IF store[t] \in {"pending", "running"} THEN "failed" ELSE store[t]]
    /\ UNCHANGED <<pending, running, abort, starts, control, stopping, bounds>>

\* The next process calls recoverFromRestart before it creates a manager.
RecoverFromRestart ==
    /\ ~up
    /\ up' = TRUE
    /\ store' = [t \in Tasks |-> IF store[t] = "running" THEN "failed" ELSE store[t]]
    /\ UNCHANGED <<pending, running, abort, starts, control, stopping, bounds>>

-----------------------------------------------------------------------------
FiberStep(f) == StartWorker(f) \/ StartLost(f) \/ DrainAgain(f)
SpawnStep(s) == SpawnPush(s) \/ SpawnRefused(s)
Settles(t) == RunTaskResolves(t) \/ RunTaskRejects(t)
WorkerStep(t) == Settles(t) \/ SaveRejected(t) \/ Finally(t)

Next ==
    \/ \E f \in Fibers : FiberStep(f)
    \/ \E s \in Spawners : SpawnStep(s) \/ \E t \in Tasks : SpawnRead(s, t)
    \/ \E t \in Tasks : WorkerStep(t) \/ Cancel(t) \/ Timeout(t) \/ Enqueue(t)
    \/ \E source, t \in Tasks : Retry(source, t)
    \/ Shutdown \/ ShutdownResolves \/ Crash \/ RecoverFromRestart

Spec == Init /\ [][Next]_vars

\* The event loop runs every fiber that has something to do; an armed timer
\* fires; runTask settles once its signal is aborted; a new process recovers.
Fairness ==
    /\ \A f \in Fibers : WF_vars(FiberStep(f))
    /\ \A s \in Spawners : WF_vars(SpawnStep(s))
    /\ \A t \in Tasks :
        /\ WF_vars(SaveRejected(t) \/ Finally(t))
        /\ WF_vars(abort[t] = "none" /\ Timeout(t))
        /\ WF_vars(abort[t] # "none" /\ Settles(t))
    /\ WF_vars(RecoverFromRestart)
    /\ WF_vars(ShutdownResolves)

FairSpec == Spec /\ Fairness

-----------------------------------------------------------------------------
(* Properties *)

\* Types of the variables of worker-manager.ts and of the tasks table.
TypeOK ==
    /\ store \in [Tasks -> States]
    /\ up \in BOOLEAN
    /\ pending \in Seq(Tasks)
    /\ running \subseteq Tasks
    /\ abort \in [Tasks -> {"none", "cancelled", "timeout"}]
    /\ pc \in [Fibers -> {"idle", "reading", "starting", "draining",
                          "executing", "caught", "saving"}]
    /\ \A s \in Spawners : pc[s] \notin {"executing", "caught", "saving"}
    /\ cur \in [Fibers -> Tasks \cup {NoTask}]
    /\ won \in [Fibers -> BOOLEAN]
    /\ starts \in [Tasks -> Nat]
    /\ shut \in {"no", "waiting", "resolved"}
    /\ awaited \subseteq Tasks
    /\ faults \in Nat /\ restarts \in Nat /\ shutdowns \in Nat

\* runTask is called at most once for a task, whatever spawns race for it and
\* whatever restarts happen: two entries of the same id can be in pending, and
\* only the expectedStatus of queue.start keeps the second from running.
RunsOnce == \A t \in Tasks : starts[t] <= 1

\* A row says "running" only while this process will still end it: no order of
\* spawn, completion, cancellation, shutdown and crash strands a task in
\* "running", except a store that refused to write.
NoOrphanRunning ==
    up /\ faults = 0 =>
        \A t \in Tasks : store[t] = "running" =>
            pc[t] = "executing" \/ \E f \in Fibers : InFlight(f, t)

\* cancel(), shutdown() and the timer beat a result that has not been stored:
\* a running task whose signal is aborted is never recorded complete.
AbortBeatsResult ==
    [][\A t \in Tasks : abort[t] # "none" /\ store[t] = "running"
            => store'[t] # "complete"]_vars

\* What becomes of a task in pendingTaskIds: it is ended, or dropped by shutdown or
\* crash; the timer bounds every worker ahead of it.  A store that refuses writes
\* excuses.
Served(t) == store[t] \in Terminal \/ shut # "no" \/ ~up \/ faults > 0

\* What worker-manager.test.ts calls "enforces max concurrency".
ConcurrencyLimit == Cardinality(running) <= MaxWorkers

\* The abstract task: every step of the pool is one of its transitions.
Lifecycle == INSTANCE TaskLifecycle WITH status <- store
RefinesLifecycle == Lifecycle!Spec
=============================================================================
