----------------------------- MODULE AgentsProofs -----------------------------
(***************************************************************************)
(* For every value of the constants: what the parts of MCAgents promise,   *)
(* one section for each part and its inductive invariant, and then the     *)
(* properties of the whole.                                                *)
(***************************************************************************)
EXTENDS MCAgents, TLAPS, FiniteSetTheorems, SequenceTheorems

-----------------------------------------------------------------------------
(* WorkerManager: for every set of tasks, every number of spawn() calls    *)
(* and every pool size.                                                    *)

\* A fiber that awaits an answer is concerned with a task.
AwaitsTask == \A f \in Fibers : pc[f] \in {"reading", "starting"} => cur[f] \in Tasks

\* A task that was run, or is about to be, has left "pending" for good.
RunInv ==
    /\ \A t \in Tasks : starts[t] \in {0, 1}
    /\ \A t \in Tasks : starts[t] = 1 => store[t] \notin {"absent", "pending"}
    /\ \A f \in Fibers, t \in Tasks :
           InFlight(f, t) => starts[t] = 0 /\ store[t] \notin {"absent", "pending"}
    /\ \A f, g \in Fibers, t \in Tasks : InFlight(f, t) /\ InFlight(g, t) => f = g

TypeInv == TypeOK /\ AwaitsTask
IInv == TypeInv /\ RunInv

-----------------------------------------------------------------------------
\* What one evaluation of drainQueue's loop keeps, whichever fiber runs it.
LEMMA DrainType ==
    ASSUME TypeInv, NEW f \in Fibers, NEW q \in Seq(Tasks), NEW r, Drain(f, q, r)
    PROVE  /\ store' \in [Tasks -> States]
           /\ pending' \in Seq(Tasks)
           /\ cur' \in [Fibers -> Tasks \cup {NoTask}]
           /\ won' \in [Fibers -> BOOLEAN]
           /\ faults' \in Nat
           /\ pc' \in [Fibers -> {"idle", "reading", "starting", "draining",
                                  "executing", "caught", "saving"}]
           /\ \A s \in Spawners : pc'[s] \notin {"executing", "caught", "saving"}
           /\ AwaitsTask'
  <1> USE DEF TypeInv, TypeOK, AwaitsTask
  <1>1. CASE /\ q # <<>>
             /\ pending' = Tail(q)
             /\ QueueStart(Head(q))
             /\ Await(f, "starting", Head(q), StartHits(Head(q)))
             /\ UNCHANGED faults
    <2>1. Head(q) \in Tasks /\ Tail(q) \in Seq(Tasks)
      BY <1>1
    <2>2. store' \in [Tasks -> States]
      BY <1>1, <2>1 DEF QueueStart, States
    <2> QED
      BY <1>1, <2>1, <2>2 DEF Await, StartHits
  <1>2. CASE q # <<>> /\ StoreThrows /\ pending' = Tail(q) /\ Goto(f, "idle")
    BY <1>2 DEF StoreThrows, Goto
  <1>3. CASE pending' = q /\ Goto(f, "idle") /\ UNCHANGED <<store, faults>>
    BY <1>3 DEF Goto
  <1> QED
    BY <1>1, <1>2, <1>3 DEF Drain

LEMMA EmptyIsSeq == <<>> \in Seq(Tasks)
  OBVIOUS

\* A conditional UPDATE keeps the type of the status column.
LEMMA UpdateType ==
    ASSUME store \in [Tasks -> States], NEW t \in Tasks, NEW from, NEW to \in States,
           UpdateIf(t, from, to)
    PROVE  store' \in [Tasks -> States]
  BY DEF UpdateIf

LEMMA SaveType ==
    ASSUME store \in [Tasks -> States], NEW t \in Tasks, QueueFail(t) \/ QueueComplete(t)
    PROVE  store' \in [Tasks -> States]
  BY UpdateType DEF QueueFail, QueueComplete, States

\* A worker fiber that leaves runTask waits for nothing any more.
LEMMA WorkerMoves ==
    ASSUME TypeInv, NEW t \in Tasks, NEW x \in {"saving", "caught"},
           pc' = [pc EXCEPT ![t] = x]
    PROVE  /\ pc' \in [Fibers -> {"idle", "reading", "starting", "draining",
                                  "executing", "caught", "saving"}]
           /\ \A s \in Spawners : pc'[s] \notin {"executing", "caught", "saving"}
           /\ \A f \in Fibers : pc'[f] \in {"reading", "starting"} => pc'[f] = pc[f]
  <1>1. /\ t \in Fibers /\ t \notin Spawners
        /\ \A s \in Spawners : s \in Fibers
    BY FibersDisjoint DEF Fibers
  <1>2. pc \in [Fibers -> {"idle", "reading", "starting", "draining",
                           "executing", "caught", "saving"}]
    BY DEF TypeInv, TypeOK
  <1>3. \A f \in Fibers : pc'[f] = IF f = t THEN x ELSE pc[f]
    BY <1>1, <1>2
  <1>4. \A s \in Spawners : pc'[s] = pc[s]
    BY <1>1, <1>3
  <1>5. \A s \in Spawners : pc[s] \notin {"executing", "caught", "saving"}
    BY DEF TypeInv, TypeOK
  <1> QED
    BY <1>2, <1>3, <1>4, <1>5

LEMMA TypeInit == Init => TypeInv
  <1> SUFFICES ASSUME Init PROVE TypeInv
    OBVIOUS
  <1>1. store \in [Tasks -> States] /\ up \in BOOLEAN /\ pending \in Seq(Tasks)
    BY EmptyIsSeq DEF Init, States
  <1>2. running \subseteq Tasks /\ abort \in [Tasks -> {"none", "cancelled", "timeout"}]
    BY DEF Init
  <1>3. /\ pc \in [Fibers -> {"idle", "reading", "starting", "draining",
                             "executing", "caught", "saving"}]
        /\ \A f \in Fibers : pc[f] = "idle"
    BY DEF Init
  <1>4. cur \in [Fibers -> Tasks \cup {NoTask}] /\ won \in [Fibers -> BOOLEAN]
    BY DEF Init
  <1>5. starts \in [Tasks -> Nat] /\ shut \in {"no", "waiting", "resolved"}
    BY DEF Init
  <1>6. /\ awaited \subseteq Tasks
        /\ faults \in Nat /\ restarts \in Nat /\ shutdowns \in Nat
    BY DEF Init
  <1> QED
    BY <1>1, <1>2, <1>3, <1>4, <1>5, <1>6 DEF TypeInv, TypeOK, AwaitsTask, Fibers

LEMMA TypeNext == TypeInv /\ [Next]_vars => TypeInv'
  <1> SUFFICES ASSUME TypeInv, [Next]_vars PROVE TypeInv'
    OBVIOUS
  <1> USE FibersDisjoint, LimitsAreNaturals DEF TypeInv, TypeOK, AwaitsTask, Fibers, bounds, stopping, control
  <1>1. ASSUME NEW f \in Fibers, StartWorker(f) PROVE TypeInv'
    <2>1. cur[f] \in Tasks
      BY <1>1 DEF StartWorker
    <2>2. pc' = [pc EXCEPT ![f] = "draining", ![cur[f]] = "executing"]
      BY <1>1 DEF StartWorker
    <2>3. pc' \in [Fibers -> {"idle", "reading", "starting", "draining",
                              "executing", "caught", "saving"}]
      BY <2>1, <2>2
    <2>4. \A s \in Spawners : pc'[s] \notin {"executing", "caught", "saving"}
      BY <2>1, <2>2
    <2>5. starts' \in [Tasks -> Nat]
      BY <1>1, <2>1 DEF StartWorker
    <2>6. /\ store' \in [Tasks -> States] /\ running' \subseteq Tasks
          /\ abort' \in [Tasks -> {"none", "cancelled", "timeout"}]
      BY <1>1, <2>1 DEF StartWorker
    <2>7. /\ up' \in BOOLEAN /\ pending' \in Seq(Tasks)
          /\ cur' \in [Fibers -> Tasks \cup {NoTask}] /\ won' \in [Fibers -> BOOLEAN]
      BY <1>1 DEF StartWorker
    <2>8. /\ shut' \in {"no", "waiting", "resolved"} /\ awaited' \subseteq Tasks
          /\ faults' \in Nat /\ restarts' \in Nat /\ shutdowns' \in Nat
      BY <1>1 DEF StartWorker
    <2>9. AwaitsTask'
      BY <1>1, <2>1, <2>2 DEF StartWorker
    <2> QED
      BY <2>3, <2>4, <2>5, <2>6, <2>7, <2>8, <2>9
  <1>2. ASSUME NEW f \in Fibers, StartLost(f) PROVE TypeInv'
    BY <1>2 DEF StartLost, Goto
  <1>3. ASSUME NEW f \in Fibers, DrainAgain(f) PROVE TypeInv'
    <2>1. Drain(f, pending, running) /\ pending \in Seq(Tasks)
      BY <1>3 DEF DrainAgain
    <2> QED
      BY <1>3, <2>1, DrainType DEF DrainAgain
  <1>4. ASSUME NEW s \in Spawners, SpawnPush(s) PROVE TypeInv'
    <2>1. Append(pending, cur[s]) \in Seq(Tasks)
      BY <1>4 DEF SpawnPush
    <2>2. Drain(s, Append(pending, cur[s]), running)
      BY <1>4 DEF SpawnPush
    <2> QED
      BY <1>4, <2>1, <2>2, DrainType DEF SpawnPush
  <1>5. ASSUME NEW s \in Spawners, SpawnRefused(s) PROVE TypeInv'
    BY <1>5 DEF SpawnRefused, Goto
  <1>6. ASSUME NEW s \in Spawners, NEW t \in Tasks, SpawnRead(s, t) PROVE TypeInv'
    BY <1>6 DEF SpawnRead, Await
  <1>7. ASSUME NEW t \in Tasks, WorkerStep(t) PROVE TypeInv'
    <2>1. CASE Settles(t) \/ SaveRejected(t)
      <3>1. /\ pc' = [pc EXCEPT ![t] = "saving"] \/ pc' = [pc EXCEPT ![t] = "caught"]
            /\ UNCHANGED <<up, pending, running, abort, starts, cur, won, stopping, restarts, shutdowns>>
        BY <2>1 DEF Settles, RunTaskResolves, RunTaskRejects, SaveRejected, CatchBlock
      <3>2. \/ QueueFail(t) /\ UNCHANGED faults
            \/ QueueComplete(t) /\ UNCHANGED faults
            \/ StoreThrows
        BY <2>1 DEF Settles, RunTaskResolves, RunTaskRejects, SaveRejected, CatchBlock
      <3>3. store' \in [Tasks -> States] /\ faults' \in Nat
        BY <3>2, SaveType DEF StoreThrows
      <3>4. PICK x \in {"saving", "caught"} : pc' = [pc EXCEPT ![t] = x]
        BY <3>1
      <3>7. /\ pc' \in [Fibers -> {"idle", "reading", "starting", "draining",
                                  "executing", "caught", "saving"}]
            /\ \A s \in Spawners : pc'[s] \notin {"executing", "caught", "saving"}
            /\ \A f \in Fibers : pc'[f] \in {"reading", "starting"} => pc'[f] = pc[f]
        BY <3>4, WorkerMoves
      <3>5. AwaitsTask'
        BY <3>1, <3>7
      <3>6. /\ up' = up /\ pending' = pending /\ running' = running /\ abort' = abort
            /\ starts' = starts /\ cur' = cur /\ won' = won /\ shut' = shut
            /\ awaited' = awaited /\ restarts' = restarts /\ shutdowns' = shutdowns
        BY <3>1
      <3> QED
        BY <3>3, <3>5, <3>6, <3>7
    <2>2. CASE Finally(t)
      <3>1. Drain(t, pending, running') /\ pending \in Seq(Tasks)
        BY <2>2 DEF Finally
      <3> QED
        BY <2>2, <3>1, DrainType DEF Finally
    <2> QED
      BY <1>7, <2>1, <2>2 DEF WorkerStep
  <1>8. ASSUME NEW t \in Tasks, Cancel(t) \/ Timeout(t) PROVE TypeInv'
    BY <1>8 DEF Cancel, Timeout
  <1>9. ASSUME NEW t \in Tasks, Enqueue(t) PROVE TypeInv'
    BY <1>9 DEF Enqueue, States
  <1>10. CASE Shutdown \/ ShutdownResolves
    <2>1. CASE Shutdown
      <3>1. /\ abort' \in [Tasks -> {"none", "cancelled", "timeout"}]
            /\ pending' \in Seq(Tasks) /\ awaited' \subseteq Tasks
        BY <2>1, EmptyIsSeq DEF Shutdown
      <3>2. shutdowns' \in Nat /\ shut' = "waiting"
        BY <2>1 DEF Shutdown
      <3> QED
        BY <2>1, <3>1, <3>2 DEF Shutdown
    <2>2. CASE ShutdownResolves
      BY <2>2 DEF ShutdownResolves
    <2> QED
      BY <1>10, <2>1, <2>2
  <1>11. CASE Crash \/ RecoverFromRestart
    <2>1. CASE Crash
      <3>1. /\ abort' \in [Tasks -> {"none", "cancelled", "timeout"}]
            /\ pending' \in Seq(Tasks) /\ awaited' \subseteq Tasks
        BY <2>1, EmptyIsSeq DEF Crash
      <3>2. /\ pc' \in [Fibers -> {"idle", "reading", "starting", "draining",
                                  "executing", "caught", "saving"}]
            /\ \A f \in Fibers : pc'[f] = "idle"
        BY <2>1 DEF Crash
      <3>3. cur' \in [Fibers -> Tasks \cup {NoTask}] /\ won' \in [Fibers -> BOOLEAN]
        BY <2>1 DEF Crash
      <3>4. /\ store' \in [Tasks -> States] /\ starts' \in [Tasks -> Nat]
            /\ up' \in BOOLEAN /\ running' \subseteq Tasks
        BY <2>1 DEF Crash
      <3>5. shut' = "no" /\ restarts' = restarts + 1 /\ UNCHANGED <<faults, shutdowns>>
        BY <2>1 DEF Crash
      <3>6. AwaitsTask' /\ \A s \in Spawners : pc'[s] \notin {"executing", "caught", "saving"}
        BY <3>2
      <3> QED
        BY <3>1, <3>2, <3>3, <3>4, <3>5, <3>6
    <2>2. CASE RecoverFromRestart
      <3>1. store' \in [Tasks -> States]
        BY <2>2 DEF RecoverFromRestart, States
      <3> QED
        BY <2>2, <3>1 DEF RecoverFromRestart
    <2> QED
      BY <1>11, <2>1, <2>2
  <1>12. CASE UNCHANGED vars
    BY <1>12 DEF vars, InFlight
  <1> QED
    BY <1>1, <1>2, <1>3, <1>4, <1>5, <1>6, <1>7, <1>8, <1>9, <1>10, <1>11, <1>12
       DEF Next, FiberStep, SpawnStep, Retry

\* Type correctness of the pool and of the tasks table.
THEOREM TypeCorrect == Spec => []TypeOK
  <1>1. Init => TypeInv
    BY TypeInit
  <1>2. TypeInv /\ [Next]_vars => TypeInv'
    BY TypeNext
  <1>3. TypeInv => TypeOK
    BY DEF TypeInv
  <1> QED
    BY <1>1, <1>2, <1>3, PTL DEF Spec

-----------------------------------------------------------------------------
\* A step that starts no task, takes no task back to "pending" and puts no
\* fiber in flight keeps RunInv.
LEMMA RunKept ==
    ASSUME RunInv, UNCHANGED starts,
           \A t \in Tasks : store'[t] \in {"absent", "pending"} => store'[t] = store[t] \/ store[t] = "absent",
           \A f \in Fibers, t \in Tasks : InFlight(f, t)' => InFlight(f, t)
    PROVE  RunInv'
  BY DEF RunInv

LEMMA DrainRun ==
    ASSUME TypeInv, RunInv, NEW f \in Fibers, NEW q \in Seq(Tasks), NEW r,
           Drain(f, q, r), pc[f] # "starting", UNCHANGED starts
    PROVE  RunInv'
  <1>1. CASE /\ q # <<>>
             /\ QueueStart(Head(q))
             /\ Await(f, "starting", Head(q), StartHits(Head(q)))
    <2> DEFINE t == Head(q)
    <2>1. t \in Tasks
      BY <1>1
    <2>2. \A g \in Fibers \ {f}, u \in Tasks : InFlight(g, u)' <=> InFlight(g, u)
      BY <1>1 DEF Await, InFlight, TypeInv, TypeOK
    <2>3. \A u \in Tasks : InFlight(f, u)' <=> u = t /\ StartHits(t)
      BY <1>1, <2>1 DEF Await, InFlight, TypeInv, TypeOK
    <2>4. CASE StartHits(t)
      <3>1. store[t] = "pending" /\ store' = [store EXCEPT ![t] = "running"]
        BY <1>1, <2>4 DEF QueueStart, StartHits
      <3>2. starts[t] = 0 /\ \A g \in Fibers : ~InFlight(g, t)
        BY <2>1, <3>1 DEF RunInv
      <3>3. /\ store'[t] = "running"
            /\ \A u \in Tasks \ {t} : store'[u] = store[u]
        BY <2>1, <3>1 DEF TypeInv, TypeOK
      <3> HIDE DEF t
      <3> QED
        BY <2>1, <2>2, <2>3, <3>2, <3>3 DEF RunInv
    <2>5. CASE ~StartHits(t)
      <3>1. store' = store
        BY <1>1, <2>1, <2>5 DEF QueueStart, TypeInv, TypeOK
      <3> HIDE DEF t
      <3>2. \A g \in Fibers, u \in Tasks : InFlight(g, u)' => InFlight(g, u)
        BY <2>2, <2>3, <2>5
      <3> QED
        BY <3>1, <3>2, RunKept
    <2> QED
      BY <2>4, <2>5
  <1>2. CASE Goto(f, "idle") /\ UNCHANGED store
    <2>1. \A g \in Fibers, u \in Tasks : InFlight(g, u)' => InFlight(g, u)
      BY <1>2 DEF Goto, InFlight, TypeInv, TypeOK
    <2> QED
      BY <1>2, <2>1, RunKept
  <1> QED
    BY <1>1, <1>2 DEF Drain, StoreThrows

LEMMA RunInit == Init => RunInv
  BY DEF Init, RunInv, InFlight, Fibers

\* registering the worker turns the fiber's claim on the task into its one run
LEMMA StartRun ==
    ASSUME TypeInv, RunInv, NEW f \in Fibers, StartWorker(f)
    PROVE  RunInv'
  <1> DEFINE t == cur[f]
  <1>1. t \in Tasks /\ InFlight(f, t)
    BY DEF StartWorker, InFlight, TypeInv, AwaitsTask
  <1>2. starts[t] = 0 /\ store[t] \notin {"absent", "pending"}
    BY <1>1 DEF RunInv
  <1>3. \A g \in Fibers \ {f} : ~InFlight(g, t)
    BY <1>1 DEF RunInv
  <1>4. starts'[t] = 1 /\ \A u \in Tasks \ {t} : starts'[u] = starts[u]
    BY <1>1, <1>2 DEF StartWorker, TypeInv, TypeOK
  <1>5. \A g \in Fibers, u \in Tasks : InFlight(g, u)' => g # f /\ InFlight(g, u)
    BY <1>1 DEF StartWorker, InFlight, TypeInv, TypeOK, Fibers
  <1>6. store' = store
    BY DEF StartWorker
  <1> HIDE DEF t
  <1> QED
    BY <1>1, <1>2, <1>3, <1>4, <1>5, <1>6 DEF RunInv

LEMMA RunNext == TypeInv /\ RunInv /\ [Next]_vars => RunInv'
  <1> SUFFICES ASSUME TypeInv, RunInv, [Next]_vars PROVE RunInv'
    OBVIOUS
  <1> USE DEF TypeInv, TypeOK
  <1>1. ASSUME NEW f \in Fibers, StartLost(f) PROVE RunInv'
    <2>1. UNCHANGED <<starts, store>>
      BY <1>1 DEF StartLost
    <2>2. \A g \in Fibers, u \in Tasks : InFlight(g, u)' => InFlight(g, u)
      BY <1>1 DEF StartLost, Goto, InFlight
    <2> QED
      BY <2>1, <2>2, RunKept
  <1>2. ASSUME NEW f \in Fibers, DrainAgain(f) PROVE RunInv'
    BY <1>2, DrainRun DEF DrainAgain
  <1>3. ASSUME NEW s \in Spawners, SpawnPush(s) PROVE RunInv'
    <2>1. Append(pending, cur[s]) \in Seq(Tasks) /\ s \in Fibers /\ pc[s] # "starting"
      BY <1>3 DEF SpawnPush, AwaitsTask, Fibers
    <2> QED
      BY <1>3, <2>1, DrainRun DEF SpawnPush
  <1>4. ASSUME NEW s \in Spawners, SpawnRefused(s) PROVE RunInv'
    <2>1. UNCHANGED <<starts, store>>
      BY <1>4 DEF SpawnRefused
    <2>2. \A g \in Fibers, u \in Tasks : InFlight(g, u)' => InFlight(g, u)
      BY <1>4 DEF SpawnRefused, Goto, InFlight
    <2> QED
      BY <2>1, <2>2, RunKept
  <1>5. ASSUME NEW s \in Spawners, NEW t \in Tasks, SpawnRead(s, t) PROVE RunInv'
    <2>1. UNCHANGED <<starts, store>>
      BY <1>5 DEF SpawnRead, bounds
    <2>2. \A g \in Fibers, u \in Tasks : InFlight(g, u)' => InFlight(g, u)
      BY <1>5 DEF SpawnRead, Await, InFlight
    <2> QED
      BY <2>1, <2>2, RunKept
  <1>6. ASSUME NEW t \in Tasks, Settles(t) \/ SaveRejected(t) PROVE RunInv'
    <2>1. UNCHANGED <<starts, cur, won>> /\ pc' \in {[pc EXCEPT ![t] = "saving"], [pc EXCEPT ![t] = "caught"]}
      BY <1>6 DEF Settles, RunTaskResolves, RunTaskRejects, SaveRejected, CatchBlock
    <2>2. QueueFail(t) \/ QueueComplete(t) \/ UNCHANGED store
      BY <1>6 DEF Settles, RunTaskResolves, RunTaskRejects, SaveRejected, CatchBlock, StoreThrows
    <2>3. \A u \in Tasks : store'[u] \in {"absent", "pending"} => store'[u] = store[u]
      BY <2>2 DEF QueueFail, QueueComplete, UpdateIf
    <2>4. \A g \in Fibers, u \in Tasks : InFlight(g, u)' => InFlight(g, u)
      BY <2>1 DEF InFlight
    <2> QED
      BY <2>1, <2>3, <2>4, RunKept
  <1>7. ASSUME NEW t \in Tasks, Finally(t) PROVE RunInv'
    BY <1>7, DrainRun DEF Finally, Fibers
  <1>8. ASSUME NEW t \in Tasks, Cancel(t) \/ Timeout(t) \/ Enqueue(t) PROVE RunInv'
    <2>1. UNCHANGED starts /\ UNCHANGED control
      BY <1>8 DEF Cancel, Timeout, Enqueue
    <2>2. \A u \in Tasks : store'[u] = store[u] \/ store[u] = "absent"
      BY <1>8 DEF Cancel, Timeout, Enqueue
    <2>3. \A g \in Fibers, u \in Tasks : InFlight(g, u)' => InFlight(g, u)
      BY <2>1 DEF InFlight, control
    <2> QED
      BY <2>1, <2>2, <2>3, RunKept
  <1>9. CASE Shutdown \/ ShutdownResolves \/ UNCHANGED vars
    <2>1. UNCHANGED <<starts, store>> /\ UNCHANGED control
      BY <1>9 DEF Shutdown, ShutdownResolves, vars
    <2>2. \A g \in Fibers, u \in Tasks : InFlight(g, u)' => InFlight(g, u)
      BY <2>1 DEF InFlight, control
    <2> QED
      BY <2>1, <2>2, RunKept
  <1>10. CASE Crash
    <2>1. UNCHANGED <<starts, store>> /\ \A f \in Fibers : pc'[f] = "idle"
      BY <1>10 DEF Crash
    <2>2. \A g \in Fibers, u \in Tasks : InFlight(g, u)' => InFlight(g, u)
      BY <2>1 DEF InFlight
    <2> QED
      BY <2>1, <2>2, RunKept
  <1>11. CASE RecoverFromRestart
    <2>1. UNCHANGED starts /\ UNCHANGED control
      BY <1>11 DEF RecoverFromRestart
    <2>2. \A u \in Tasks : store'[u] \in {"absent", "pending"} => store'[u] = store[u]
      BY <1>11 DEF RecoverFromRestart
    <2>3. \A g \in Fibers, u \in Tasks : InFlight(g, u)' => InFlight(g, u)
      BY <2>1 DEF InFlight, control
    <2> QED
      BY <2>1, <2>2, <2>3, RunKept
  <1> QED
    BY <1>1, <1>2, <1>3, <1>4, <1>5, <1>6, <1>7, <1>8, <1>9, <1>10, <1>11, StartRun
       DEF Next, FiberStep, SpawnStep, WorkerStep, Retry

\* runTask is called at most once for a task: the expectedStatus of queue.start
\* is enough, however many spawn() calls race and however often the process dies.
THEOREM RunsOnceHolds == Spec => []RunsOnce
  <1>1. Init => IInv
    BY TypeInit, RunInit DEF IInv
  <1>2. IInv /\ [Next]_vars => IInv'
    BY TypeNext, RunNext DEF IInv
  <1>3. IInv => RunsOnce
    BY DEF IInv, RunInv, RunsOnce
  <1> QED
    BY <1>1, <1>2, <1>3, PTL DEF Spec

-----------------------------------------------------------------------------
\* The fiber of a task exists only for a task that was run.
WorkerRan == \A t \in Tasks : pc[t] # "idle" => starts[t] = 1

\* No step but StartWorker wakes the fiber of a task or counts a run.
LEMMA OthersWakeNoWorker ==
    ASSUME TypeInv, [Next]_vars, \A f \in Fibers : ~StartWorker(f)
    PROVE  UNCHANGED starts /\ \A t \in Tasks : pc[t] = "idle" => pc'[t] = "idle"
  <1> USE FibersDisjoint DEF TypeInv, TypeOK, Fibers
  <1>1. ASSUME NEW f \in Fibers, StartLost(f) \/ DrainAgain(f)
        PROVE  UNCHANGED starts /\ \A t \in Tasks : pc[t] = "idle" => pc'[t] = "idle"
    BY <1>1 DEF StartLost, DrainAgain, Drain, Goto, Await
  <1>2. ASSUME NEW s \in Spawners, SpawnStep(s)
        PROVE  UNCHANGED starts /\ \A t \in Tasks : pc[t] = "idle" => pc'[t] = "idle"
    <2>1. s \notin Tasks /\ s \in Fibers
      OBVIOUS
    <2> QED
      BY <1>2, <2>1 DEF SpawnStep, SpawnPush, SpawnRefused, Drain, Goto, Await
  <1>3. ASSUME NEW s \in Spawners, NEW t \in Tasks, SpawnRead(s, t)
        PROVE  UNCHANGED starts /\ \A u \in Tasks : pc[u] = "idle" => pc'[u] = "idle"
    BY <1>3 DEF SpawnRead, Await
  <1>4. ASSUME NEW t \in Tasks, WorkerStep(t)
        PROVE  UNCHANGED starts /\ \A u \in Tasks : pc[u] = "idle" => pc'[u] = "idle"
    <2>1. CASE Settles(t) \/ SaveRejected(t)
      BY <2>1 DEF Settles, RunTaskResolves, RunTaskRejects, SaveRejected, CatchBlock
    <2>2. CASE Finally(t)
      BY <2>2 DEF Finally, Drain, Goto, Await
    <2> QED
      BY <1>4, <2>1, <2>2 DEF WorkerStep
  <1>5. ASSUME NEW t \in Tasks, Cancel(t) \/ Timeout(t) \/ Enqueue(t)
        PROVE  UNCHANGED <<starts, pc>>
    BY <1>5 DEF Cancel, Timeout, Enqueue, control
  <1>6. CASE Shutdown \/ ShutdownResolves \/ RecoverFromRestart \/ UNCHANGED vars
    <2>1. UNCHANGED <<starts, pc>>
      BY <1>6 DEF Shutdown, ShutdownResolves, RecoverFromRestart, vars, control
    <2> QED
      BY <2>1
  <1>7. CASE Crash
    BY <1>7 DEF Crash
  <1> QED
    BY <1>1, <1>2, <1>3, <1>4, <1>5, <1>6, <1>7 DEF Next, FiberStep, Retry

LEMMA WorkerRanNext == TypeInv /\ RunInv /\ WorkerRan /\ [Next]_vars => WorkerRan'
  <1> SUFFICES ASSUME TypeInv, RunInv, WorkerRan, [Next]_vars PROVE WorkerRan'
    OBVIOUS
  <1>1. ASSUME NEW f \in Fibers, StartWorker(f) PROVE WorkerRan'
    <2> DEFINE t == cur[f]
    <2>1. t \in Tasks /\ InFlight(f, t) /\ starts[t] = 0
      BY <1>1 DEF StartWorker, InFlight, TypeInv, AwaitsTask, RunInv
    <2>2. starts' = [starts EXCEPT ![t] = 1] /\ pc' = [pc EXCEPT ![f] = "draining", ![t] = "executing"]
      BY <1>1, <2>1 DEF StartWorker, TypeInv, TypeOK
    <2>3. pc[f] # "idle"
      BY <1>1 DEF StartWorker
    <2> HIDE DEF t
    <2> QED
      BY <2>1, <2>2, <2>3 DEF WorkerRan, TypeInv, TypeOK, Fibers
  <1>2. CASE \A f \in Fibers : ~StartWorker(f)
    BY <1>2, OthersWakeNoWorker DEF WorkerRan
  <1> QED
    BY <1>1, <1>2

-----------------------------------------------------------------------------
\* A step that neither starts a task in the store, nor takes a worker out of
\* runTask, nor drops a claim, keeps NoOrphanRunning.
LEMMA OrphanKept ==
    ASSUME NoOrphanRunning, faults' = 0 => faults = 0, up' => up,
           \A t \in Tasks : store'[t] = "running" =>
               /\ store[t] = "running"
               /\ pc[t] = "executing" => pc'[t] = "executing"
               /\ \A f \in Fibers : InFlight(f, t) => InFlight(f, t)' \/ pc'[t] = "executing"
    PROVE  NoOrphanRunning'
  BY DEF NoOrphanRunning

LEMMA DrainOrphan ==
    ASSUME TypeInv, NoOrphanRunning, UNCHANGED up,
           NEW f \in Fibers, NEW q \in Seq(Tasks), NEW r,
           Drain(f, q, r), pc[f] \notin {"starting", "executing"}
    PROVE  NoOrphanRunning'
  <1> USE DEF TypeInv, TypeOK
  <1>0. \A g \in Fibers, u \in Tasks : InFlight(g, u) => g # f
    BY DEF InFlight
  <1>1. CASE /\ q # <<>>
             /\ QueueStart(Head(q))
             /\ Await(f, "starting", Head(q), StartHits(Head(q)))
             /\ UNCHANGED faults
    <2> DEFINE t == Head(q)
    <2>1. t \in Tasks
      BY <1>1
    <2>2. \A g \in Fibers, u \in Tasks : InFlight(g, u) => InFlight(g, u)'
      BY <1>0, <1>1 DEF Await, InFlight
    <2>3. StartHits(t) => InFlight(f, t)'
      BY <1>1, <2>1 DEF Await, InFlight
    <2>4. \A u \in Tasks : pc[u] = "executing" => pc'[u] = "executing"
      BY <1>1 DEF Await, Fibers
    <2>5. /\ \A u \in Tasks \ {t} : store'[u] = store[u]
          /\ ~StartHits(t) => store'[t] = store[t]
      BY <1>1, <2>1 DEF QueueStart
    <2> HIDE DEF t
    <2> QED
      BY <1>1, <2>1, <2>2, <2>3, <2>4, <2>5 DEF NoOrphanRunning
  <1>2. CASE Goto(f, "idle") /\ UNCHANGED store /\ (faults' = faults + 1 \/ UNCHANGED faults)
    <2>1. \A g \in Fibers, u \in Tasks : InFlight(g, u) => InFlight(g, u)'
      BY <1>0, <1>2 DEF Goto, InFlight
    <2>2. \A u \in Tasks : pc[u] = "executing" => pc'[u] = "executing"
      BY <1>2 DEF Goto, Fibers
    <2>3. faults' = 0 => faults = 0
      BY <1>2
    <2> QED
      BY <1>2, <2>1, <2>2, <2>3, OrphanKept
  <1> QED
    BY <1>1, <1>2 DEF Drain, StoreThrows

\* The registration of a worker replaces the claim of the fiber that started it.
LEMMA StartOrphan ==
    ASSUME TypeInv, RunInv, WorkerRan, NoOrphanRunning, NEW f \in Fibers, StartWorker(f)
    PROVE  NoOrphanRunning'
  <1> DEFINE t == cur[f]
  <1>1. t \in Tasks /\ InFlight(f, t) /\ starts[t] = 0
    BY DEF StartWorker, InFlight, TypeInv, AwaitsTask, RunInv
  <1>2. pc[t] = "idle" /\ f # t /\ t \in Fibers
    BY <1>1 DEF WorkerRan, InFlight, Fibers
  <1>3. /\ pc' = [pc EXCEPT ![f] = "draining", ![t] = "executing"]
        /\ cur' = [cur EXCEPT ![f] = NoTask] /\ won' = [won EXCEPT ![f] = FALSE]
        /\ UNCHANGED <<store, up, faults>>
    BY DEF StartWorker, bounds
  <1> HIDE DEF t
  <1>4. pc'[t] = "executing" /\ \A u \in Tasks : pc[u] = "executing" => pc'[u] = "executing"
    BY <1>1, <1>2, <1>3 DEF InFlight, TypeInv, TypeOK, Fibers
  <1>5. ASSUME NEW g \in Fibers, NEW u \in Tasks, InFlight(g, u)
        PROVE  InFlight(g, u)' \/ pc'[u] = "executing"
    <2>1. CASE g = f
      BY <1>1, <1>4, <1>5, <2>1 DEF InFlight
    <2>2. CASE g # f
      BY <1>2, <1>3, <1>5, <2>2 DEF InFlight, TypeInv, TypeOK
    <2> QED
      BY <2>1, <2>2
  <1> QED
    BY <1>3, <1>4, <1>5, OrphanKept

LEMMA OrphanNext == TypeInv /\ RunInv /\ WorkerRan /\ NoOrphanRunning /\ [Next]_vars => NoOrphanRunning'
  <1> SUFFICES ASSUME TypeInv, RunInv, WorkerRan, NoOrphanRunning, [Next]_vars
               PROVE  NoOrphanRunning'
    OBVIOUS
  <1> USE DEF TypeInv, TypeOK
  <1>1. ASSUME NEW f \in Fibers, StartLost(f) PROVE NoOrphanRunning'
    <2>1. UNCHANGED <<store, up, faults>>
      BY <1>1 DEF StartLost, bounds
    <2>2. /\ \A u \in Tasks : pc[u] = "executing" => pc'[u] = "executing"
          /\ \A g \in Fibers, u \in Tasks : InFlight(g, u) => InFlight(g, u)'
      BY <1>1 DEF StartLost, Goto, InFlight, Fibers
    <2> QED
      BY <2>1, <2>2, OrphanKept
  <1>2. ASSUME NEW f \in Fibers, DrainAgain(f) PROVE NoOrphanRunning'
    BY <1>2, DrainOrphan DEF DrainAgain
  <1>3. ASSUME NEW s \in Spawners, SpawnPush(s) PROVE NoOrphanRunning'
    <2>1. Append(pending, cur[s]) \in Seq(Tasks) /\ s \in Fibers /\ pc[s] = "reading"
      BY <1>3 DEF SpawnPush, AwaitsTask, Fibers
    <2> QED
      BY <1>3, <2>1, DrainOrphan DEF SpawnPush
  <1>4. ASSUME NEW s \in Spawners, SpawnRefused(s) PROVE NoOrphanRunning'
    <2>1. UNCHANGED <<store, up, faults>>
      BY <1>4 DEF SpawnRefused, bounds
    <2>2. /\ \A u \in Tasks : pc[u] = "executing" => pc'[u] = "executing"
          /\ \A g \in Fibers, u \in Tasks : InFlight(g, u) => InFlight(g, u)'
      BY <1>4 DEF SpawnRefused, Goto, InFlight, Fibers
    <2> QED
      BY <2>1, <2>2, OrphanKept
  <1>5. ASSUME NEW s \in Spawners, NEW t \in Tasks, SpawnRead(s, t) PROVE NoOrphanRunning'
    <2>1. UNCHANGED <<store, up, faults>>
      BY <1>5 DEF SpawnRead, bounds
    <2>2. /\ \A u \in Tasks : pc[u] = "executing" => pc'[u] = "executing"
          /\ \A g \in Fibers, u \in Tasks : InFlight(g, u) => InFlight(g, u)'
      BY <1>5 DEF SpawnRead, Await, InFlight, Fibers
    <2> QED
      BY <2>1, <2>2, OrphanKept
  <1>6. ASSUME NEW t \in Tasks, Settles(t) \/ SaveRejected(t) PROVE NoOrphanRunning'
    <2>1. /\ UNCHANGED <<cur, won, up>> /\ pc[t] \in {"executing", "caught"}
          /\ pc' \in {[pc EXCEPT ![t] = "saving"], [pc EXCEPT ![t] = "caught"]}
      BY <1>6 DEF Settles, RunTaskResolves, RunTaskRejects, SaveRejected, CatchBlock
    <2>2. /\ \A u \in Tasks \ {t} : pc[u] = "executing" => pc'[u] = "executing"
          /\ \A g \in Fibers, u \in Tasks : InFlight(g, u) => InFlight(g, u)'
      BY <2>1 DEF InFlight, Fibers
    <2>3. CASE (QueueFail(t) \/ QueueComplete(t)) /\ UNCHANGED faults
      <3>1. store'[t] # "running" /\ \A u \in Tasks \ {t} : store'[u] = store[u]
        BY <2>3 DEF QueueFail, QueueComplete, UpdateIf
      <3> QED
        BY <2>1, <2>2, <2>3, <3>1, OrphanKept
    <2>4. CASE StoreThrows
      BY <2>4 DEF StoreThrows, NoOrphanRunning
    <2> QED
      BY <1>6, <2>3, <2>4
         DEF Settles, RunTaskResolves, RunTaskRejects, SaveRejected, CatchBlock
  <1>7. ASSUME NEW t \in Tasks, Finally(t) PROVE NoOrphanRunning'
    BY <1>7, DrainOrphan DEF Finally, Fibers
  <1>8. ASSUME NEW t \in Tasks, Cancel(t) \/ Timeout(t) \/ Enqueue(t) PROVE NoOrphanRunning'
    <2>1. UNCHANGED <<up, faults>> /\ UNCHANGED control
      BY <1>8 DEF Cancel, Timeout, Enqueue, bounds
    <2>2. \A u \in Tasks : store'[u] = "running" => store[u] = "running"
      BY <1>8 DEF Cancel, Timeout, Enqueue
    <2>3. pc' = pc /\ \A g \in Fibers, u \in Tasks : InFlight(g, u) => InFlight(g, u)'
      BY <2>1 DEF InFlight, control
    <2> QED
      BY <2>1, <2>2, <2>3, OrphanKept
  <1>9. CASE Shutdown \/ ShutdownResolves \/ UNCHANGED vars
    <2>1. UNCHANGED <<store, up, faults>> /\ UNCHANGED control
      BY <1>9 DEF Shutdown, ShutdownResolves, vars, bounds
    <2>2. pc' = pc /\ \A g \in Fibers, u \in Tasks : InFlight(g, u) => InFlight(g, u)'
      BY <2>1 DEF InFlight, control
    <2> QED
      BY <2>1, <2>2, OrphanKept
  <1>10. CASE Crash
    BY <1>10 DEF Crash, NoOrphanRunning
  <1>11. CASE RecoverFromRestart
    <2>1. \A u \in Tasks : store'[u] # "running"
      BY <1>11 DEF RecoverFromRestart
    <2> QED
      BY <2>1 DEF NoOrphanRunning
  <1> QED
    BY <1>1, <1>2, <1>3, <1>4, <1>5, <1>6, <1>7, <1>8, <1>9, <1>10, <1>11, StartOrphan
       DEF Next, FiberStep, SpawnStep, WorkerStep, Retry

\* As long as the store accepts writes, a row that says "running" belongs to a
\* fiber of the living process that will end it.
THEOREM NoOrphanRunningHolds == Spec => []NoOrphanRunning
  <1> DEFINE Inv == IInv /\ WorkerRan /\ NoOrphanRunning
  <1>1. Init => Inv
    <2>1. Init => WorkerRan /\ NoOrphanRunning
      BY DEF Init, WorkerRan, NoOrphanRunning, Fibers
    <2> QED
      BY <2>1, TypeInit, RunInit DEF IInv
  <1>2. Inv /\ [Next]_vars => Inv'
    BY TypeNext, RunNext, WorkerRanNext, OrphanNext DEF IInv
  <1>3. Inv => NoOrphanRunning
    OBVIOUS
  <1> QED
    BY <1>1, <1>2, <1>3, PTL DEF Spec

-----------------------------------------------------------------------------
\* The pool implements TaskLifecycle: what it does to the tasks table is one
\* transition of one task, the recovery of all running ones, or nothing.

LEMMA StartRefines ==
    ASSUME TypeInv, NEW t \in Tasks, QueueStart(t) PROVE [Lifecycle!Next]_store
  <1> USE DEF TypeInv, TypeOK
  <1>1. CASE store[t] = "pending"
    <2>1. Lifecycle!Start(t)
      BY <1>1 DEF QueueStart, StartHits, Lifecycle!Start, Lifecycle!Becomes
    <2> QED
      BY <2>1 DEF Lifecycle!Next
  <1>2. CASE store[t] # "pending"
    <2>1. store' = store
      BY <1>2 DEF QueueStart, StartHits
    <2> QED
      BY <2>1
  <1> QED
    BY <1>1, <1>2

LEMMA DrainRefines ==
    ASSUME TypeInv, NEW f \in Fibers, NEW q \in Seq(Tasks), NEW r, Drain(f, q, r)
    PROVE  [Lifecycle!Next]_store
  <1>1. CASE q # <<>> /\ QueueStart(Head(q))
    <2>1. Head(q) \in Tasks
      BY <1>1
    <2> QED
      BY <1>1, <2>1, StartRefines
  <1>2. CASE UNCHANGED store
    BY <1>2
  <1> QED
    BY <1>1, <1>2 DEF Drain, StoreThrows

LEMMA SaveRefines ==
    ASSUME TypeInv, NEW t \in Tasks, QueueComplete(t) \/ QueueFail(t) PROVE [Lifecycle!Next]_store
  <1> USE DEF TypeInv, TypeOK
  <1>1. CASE store[t] = "running"
    <2>1. Lifecycle!Complete(t) \/ Lifecycle!Fail(t)
      BY <1>1 DEF QueueComplete, QueueFail, UpdateIf, Lifecycle!Complete, Lifecycle!Fail,
                  Lifecycle!Becomes
    <2> QED
      BY <2>1 DEF Lifecycle!Next
  <1>2. CASE store[t] # "running"
    <2>1. store' = store
      BY <1>2 DEF QueueComplete, QueueFail, UpdateIf
    <2> QED
      BY <2>1
  <1> QED
    BY <1>1, <1>2

LEMMA StepRefines == TypeInv /\ [Next]_vars => [Lifecycle!Next]_store
  <1> SUFFICES ASSUME TypeInv, [Next]_vars PROVE [Lifecycle!Next]_store
    OBVIOUS
  <1>0. pending \in Seq(Tasks) /\ \A t \in Tasks : t \in Fibers
    BY DEF TypeInv, TypeOK, Fibers
  <1>1. ASSUME NEW f \in Fibers, DrainAgain(f) PROVE [Lifecycle!Next]_store
    BY <1>0, <1>1, DrainRefines DEF DrainAgain
  <1>2. ASSUME NEW s \in Spawners, SpawnPush(s) PROVE [Lifecycle!Next]_store
    <2>1. s \in Fibers /\ cur[s] \in Tasks
      BY <1>2 DEF SpawnPush, TypeInv, AwaitsTask, Fibers
    <2>2. Append(pending, cur[s]) \in Seq(Tasks)
      BY <1>0, <2>1
    <2> QED
      BY <1>2, <2>1, <2>2, DrainRefines DEF SpawnPush
  <1>3. ASSUME NEW t \in Tasks, WorkerStep(t) PROVE [Lifecycle!Next]_store
    <2>1. CASE Finally(t)
      BY <1>0, <2>1, DrainRefines DEF Finally
    <2>2. CASE Settles(t) \/ SaveRejected(t)
      BY <2>2, SaveRefines DEF Settles, RunTaskResolves, RunTaskRejects, SaveRejected, CatchBlock,
         StoreThrows
    <2> QED
      BY <1>3, <2>1, <2>2 DEF WorkerStep
  <1>4. ASSUME NEW t \in Tasks, Enqueue(t) PROVE [Lifecycle!Next]_store
    <2>1. Lifecycle!Create(t)
      BY <1>4 DEF Enqueue, Lifecycle!Create, Lifecycle!Becomes
    <2> QED
      BY <2>1 DEF Lifecycle!Next
  <1>5. CASE RecoverFromRestart
    <2>1. Lifecycle!Recover
      BY <1>5 DEF RecoverFromRestart, Lifecycle!Recover
    <2> QED
      BY <2>1 DEF Lifecycle!Next
  <1>6. ASSUME NEW f \in Fibers, StartWorker(f) \/ StartLost(f) PROVE UNCHANGED store
    BY <1>6 DEF StartWorker, StartLost
  <1>7. ASSUME NEW s \in Spawners, SpawnRefused(s) \/ \E t \in Tasks : SpawnRead(s, t)
        PROVE  UNCHANGED store
    BY <1>7 DEF SpawnRefused, SpawnRead
  <1>8. ASSUME NEW t \in Tasks, Cancel(t) \/ Timeout(t) PROVE UNCHANGED store
    BY <1>8 DEF Cancel, Timeout
  <1>9. CASE Shutdown \/ ShutdownResolves \/ Crash \/ UNCHANGED vars
    <2>1. UNCHANGED store
      BY <1>9 DEF Shutdown, ShutdownResolves, Crash, vars
    <2> QED
      BY <2>1
  <1>10. CASE \E f \in Fibers : FiberStep(f)
    BY <1>1, <1>6, <1>10 DEF FiberStep
  <1>11. CASE \E s \in Spawners : SpawnStep(s) \/ \E t \in Tasks : SpawnRead(s, t)
    BY <1>2, <1>7, <1>11 DEF SpawnStep
  <1>12. CASE \E t \in Tasks : WorkerStep(t) \/ Cancel(t) \/ Timeout(t) \/ Enqueue(t)
    BY <1>3, <1>4, <1>8, <1>12
  <1>13. CASE \E source, t \in Tasks : Retry(source, t)
    BY <1>4, <1>13 DEF Retry
  <1> QED
    BY <1>5, <1>9, <1>10, <1>11, <1>12, <1>13 DEF Next

\* The worker pool over the tasks table implements the abstract task: a status
\* is only ever changed along a legal transition, whatever races or crashes.
THEOREM Refinement == Spec => RefinesLifecycle
  <1>1. Init => Lifecycle!Init
    BY DEF Init, Lifecycle!Init
  <1> QED
    BY <1>1, TypeInit, TypeNext, StepRefines, PTL DEF Spec, RefinesLifecycle, Lifecycle!Spec

-----------------------------------------------------------------------------
\* An aborted task that is still running is not recorded complete.

NotCompleted(t) == abort[t] # "none" /\ store[t] = "running" => store'[t] # "complete"

LEMMA DrainCompletesNone ==
    ASSUME TypeInv, NEW f, NEW q \in Seq(Tasks), NEW r, Drain(f, q, r), NEW t \in Tasks
    PROVE  store[t] # "complete" => store'[t] # "complete"
  <1>1. CASE q # <<>> /\ QueueStart(Head(q))
    BY <1>1 DEF QueueStart, TypeInv, TypeOK
  <1>2. CASE UNCHANGED store
    BY <1>2
  <1> QED
    BY <1>1, <1>2 DEF Drain, StoreThrows

LEMMA FailCompletesNone ==
    ASSUME TypeInv, NEW u \in Tasks, QueueFail(u), NEW t \in Tasks
    PROVE  store[t] # "complete" => store'[t] # "complete"
  BY DEF QueueFail, UpdateIf, TypeInv, TypeOK

LEMMA StepAbortWins ==
    ASSUME TypeInv, [Next]_vars, NEW t \in Tasks PROVE NotCompleted(t)
  <1>0. pending \in Seq(Tasks)
    BY DEF TypeInv, TypeOK
  <1>1. ASSUME NEW f \in Fibers, DrainAgain(f) PROVE NotCompleted(t)
    BY <1>0, <1>1, DrainCompletesNone DEF DrainAgain, NotCompleted
  <1>2. ASSUME NEW s \in Spawners, SpawnPush(s) PROVE NotCompleted(t)
    <2>1. cur[s] \in Tasks
      BY <1>2 DEF SpawnPush, TypeInv, AwaitsTask, Fibers
    <2>2. Append(pending, cur[s]) \in Seq(Tasks)
      BY <1>0, <2>1
    <2> QED
      BY <1>2, <2>2, DrainCompletesNone DEF SpawnPush, NotCompleted
  <1>3. ASSUME NEW u \in Tasks, Finally(u) PROVE NotCompleted(t)
    BY <1>0, <1>3, DrainCompletesNone DEF Finally, NotCompleted
  <1>4. ASSUME NEW u \in Tasks, RunTaskRejects(u) \/ SaveRejected(u) PROVE NotCompleted(t)
    BY <1>4, FailCompletesNone DEF RunTaskRejects, SaveRejected, CatchBlock, StoreThrows,
       NotCompleted
  <1>5. ASSUME NEW u \in Tasks, RunTaskResolves(u) PROVE NotCompleted(t)
    <2>1. CASE QueueFail(u) \/ UNCHANGED store
      BY <2>1, FailCompletesNone DEF NotCompleted
    <2>2. CASE abort[u] = "none" /\ QueueComplete(u)
      BY <2>2 DEF QueueComplete, UpdateIf, NotCompleted, TypeInv, TypeOK
    <2> QED
      BY <1>5, <2>1, <2>2 DEF RunTaskResolves, StoreThrows
  <1>6. CASE UNCHANGED store
    BY <1>6 DEF NotCompleted
  <1>7. CASE RecoverFromRestart \/ \E u \in Tasks : Enqueue(u)
    BY <1>7 DEF RecoverFromRestart, Enqueue, NotCompleted, TypeInv, TypeOK
  <1>8. CASE \E f \in Fibers : FiberStep(f)
    BY <1>1, <1>6, <1>8 DEF FiberStep, StartWorker, StartLost
  <1>9. CASE \E s \in Spawners : SpawnStep(s) \/ \E u \in Tasks : SpawnRead(s, u)
    BY <1>2, <1>6, <1>9 DEF SpawnStep, SpawnRefused, SpawnRead
  <1>10. CASE \E u \in Tasks : WorkerStep(u) \/ Cancel(u) \/ Timeout(u) \/ Enqueue(u)
    BY <1>3, <1>4, <1>5, <1>6, <1>7, <1>10 DEF WorkerStep, Settles, Cancel, Timeout
  <1>11. CASE \E source, u \in Tasks : Retry(source, u)
    BY <1>7, <1>11 DEF Retry
  <1>12. CASE Shutdown \/ ShutdownResolves \/ Crash \/ UNCHANGED vars
    BY <1>6, <1>12 DEF Shutdown, ShutdownResolves, Crash, vars
  <1> QED
    BY <1>7, <1>8, <1>9, <1>10, <1>11, <1>12 DEF Next

\* cancel(), shutdown() and the timer win over a result not yet stored.
THEOREM AbortBeatsResultHolds == Spec => AbortBeatsResult
  <1>1. TypeInv /\ [Next]_vars => \A t \in Tasks : NotCompleted(t)
    BY StepAbortWins
  <1>2. TypeInv /\ [Next]_vars =>
          [\A t \in Tasks : abort[t] # "none" /\ store[t] = "running"
              => store'[t] # "complete"]_vars
    BY <1>1 DEF NotCompleted
  <1> QED
    BY <1>2, TypeInit, TypeNext, PTL DEF Spec, AbortBeatsResult

-----------------------------------------------------------------------------
(* SubAgentPool *)

\* The waiters are in the queue once each, so that a permit handed to the first
\* is not handed to it again.
PoolQueueShape ==
    /\ \A i \in 1..Len(queue) : taskAt[queue[i]] = "queued"
    /\ \A i, j \in 1..Len(queue) : queue[i] = queue[j] => i = j
    /\ (\E t \in Pool!TaskIds : taskAt[t] = "new") => \A t \in Pool!TaskIds : taskAt[t] = "new"

PoolInv == Pool!TypeOK /\ PoolQueueShape /\ Pool!PermitsConserved

-----------------------------------------------------------------------------
\* The library's Cardinality, under the two names it has here.
LEMMA SameCardinality == \A S : Pool!Cardinality(S) = Cardinality(S)
    BY DEF Pool!Cardinality, Cardinality

\* What the helpers do to the types.

LEMMA PoolHoldingFinite ==
    ASSUME Pool!PoolLimits PROVE IsFiniteSet(Pool!Holding) /\ Cardinality(Pool!Holding) \in Nat
<1>1. IsFiniteSet(1..SubTasks)
    BY FS_Interval DEF Pool!PoolLimits
<1>2. Pool!Holding \in SUBSET (1..SubTasks)
    BY DEF Pool!Holding, Pool!In, Pool!TaskIds
<1> QED
    BY <1>1, <1>2, FS_Subset, FS_CardinalityType

LEMMA PoolInitInv == ASSUME Pool!PoolLimits, Pool!Init PROVE PoolInv
<1>1. Pool!TypeOK
    <2>1. queue \in Seq(Pool!TaskIds) /\ permits \in Nat
        BY DEF Pool!Init, Pool!PoolLimits
    <2> QED
        BY <2>1 DEF Pool!Init, Pool!TypeOK
<1>2. PoolQueueShape
    <2>1. Len(queue) = 0 /\ \A t \in Pool!TaskIds : taskAt[t] = "new"
        BY DEF Pool!Init
    <2> QED
        BY <2>1 DEF PoolQueueShape
<1>3. Pool!Holding = {}
    BY DEF Pool!Init, Pool!Holding, Pool!In
<1>4. Pool!PermitsConserved
    BY <1>3, FS_EmptySet , SameCardinality DEF Pool!PermitsConserved, Pool!Init, Pool!PoolLimits
<1> QED
    BY <1>1, <1>2, <1>4 DEF PoolInv

\* The tasks that take a permit at once are counted by it.
LEMMA PoolRunAllInv == ASSUME Pool!PoolLimits, PoolInv, Pool!RunAll PROVE PoolInv'
<1> USE DEF Pool!PoolLimits
<1>1. Pool!AtOnce \in 1..SubTasks /\ Pool!AtOnce <= MaxConcurrent /\ Pool!AtOnce \in Nat
    BY DEF Pool!AtOnce
<1> HIDE DEF Pool!PoolLimits
<1>2. Pool!TypeOK'
    <2>1. queue' \in Seq(Pool!TaskIds)
        BY <1>1 DEF Pool!RunAll, Pool!TaskIds, Pool!PoolLimits
    <2>2. permits' \in Nat
        BY <1>1 DEF Pool!RunAll, Pool!PoolLimits
    <2> QED
        BY <2>1, <2>2 DEF Pool!RunAll, PoolInv, Pool!TypeOK
<1>3. Len(queue') = SubTasks - Pool!AtOnce /\ \A i \in 1..Len(queue') : queue'[i] = Pool!AtOnce + i
    BY <1>1 DEF Pool!RunAll, Pool!PoolLimits
<1>4. PoolQueueShape'
    BY <1>1, <1>3 DEF Pool!RunAll, PoolQueueShape, Pool!TaskIds, Pool!PoolLimits
<1>5. Pool!Holding' = 1..Pool!AtOnce
    BY <1>1 DEF Pool!RunAll, Pool!Holding, Pool!In, Pool!TaskIds, Pool!PoolLimits
<1>6. Cardinality(1..Pool!AtOnce) = Pool!AtOnce
    BY <1>1, FS_Interval
<1>7. Pool!PermitsConserved'
    BY <1>1, <1>5, <1>6 , SameCardinality DEF Pool!RunAll, Pool!PermitsConserved, Pool!PoolLimits
<1> QED
    BY <1>2, <1>4, <1>7 DEF PoolInv

\* A task that held a permit gives it to the first waiter, or back.
LEMMA PoolReleaseInv ==
    ASSUME Pool!PoolLimits, PoolInv, NEW t \in Pool!Holding, Pool!Release(t)
    PROVE  /\ taskAt' \in [Pool!TaskIds -> {"new", "queued", "granted", "running", "settled"}]
           /\ permits' \in Nat /\ queue' \in Seq(Pool!TaskIds)
           /\ PoolQueueShape' /\ Pool!PermitsConserved'
<1> USE DEF Pool!TypeOK, PoolInv
<1>1. t \in Pool!TaskIds /\ taskAt[t] \in {"granted", "running"}
    BY DEF Pool!Holding, Pool!In
<1>2. IsFiniteSet(Pool!Holding) /\ Cardinality(Pool!Holding) \in Nat
    BY PoolHoldingFinite
<1>3. Cardinality(Pool!Holding \ {t}) = Cardinality(Pool!Holding) - 1 /\ IsFiniteSet(Pool!Holding \ {t})
    BY <1>2, FS_RemoveElement
<1>4. CASE queue = <<>> /\ permits' = permits + 1 /\ taskAt' = [taskAt EXCEPT ![t] = "settled"]
           /\ UNCHANGED queue
    <2>1. Pool!Holding' = Pool!Holding \ {t}
        BY <1>1, <1>4 DEF Pool!Holding, Pool!In
    <2>2. Pool!PermitsConserved'
        BY <1>2, <1>3, <1>4, <2>1 , SameCardinality DEF Pool!PermitsConserved
    <2>3. PoolQueueShape'
        BY <1>1, <1>4 DEF PoolQueueShape
    <2> QED
        BY <1>1, <1>4, <2>2, <2>3
<1>5. CASE queue # <<>> /\ taskAt' = [taskAt EXCEPT ![t] = "settled", ![Head(queue)] = "granted"]
           /\ queue' = Tail(queue) /\ UNCHANGED permits
    <2> DEFINE h == Head(queue)
    <2>1. h \in Pool!TaskIds /\ h = queue[1] /\ 1 \in 1..Len(queue)
        BY <1>5
    <2>2. taskAt[h] = "queued" /\ h # t /\ h \notin Pool!Holding
        BY <1>1, <2>1 DEF PoolQueueShape, Pool!Holding, Pool!In
    <2>3. Pool!Holding' = (Pool!Holding \ {t}) \cup {h}
        BY <1>1, <1>5, <2>1, <2>2 DEF Pool!Holding, Pool!In
    <2>4. Cardinality((Pool!Holding \ {t}) \cup {h}) = Cardinality(Pool!Holding \ {t}) + 1
        BY <1>3, <2>2, FS_AddElement
    <2>5. Pool!PermitsConserved'
        BY <1>2, <1>3, <1>5, <2>3, <2>4 , SameCardinality DEF Pool!PermitsConserved
    <2>6. queue' \in Seq(Pool!TaskIds) /\ Len(queue') = Len(queue) - 1
          /\ \A i \in 1..Len(queue') : queue'[i] = queue[i + 1] /\ i + 1 \in 1..Len(queue)
        BY <1>5
    <2>7. \A i \in 1..Len(queue') : queue'[i] \in Pool!TaskIds /\ queue'[i] # h /\ queue'[i] # t
                                     /\ taskAt[queue'[i]] = "queued"
        <3> SUFFICES ASSUME NEW i \in 1..Len(queue')
                     PROVE  /\ queue'[i] \in Pool!TaskIds /\ queue'[i] # h /\ queue'[i] # t
                            /\ taskAt[queue'[i]] = "queued"
            OBVIOUS
        <3>1. queue'[i] = queue[i + 1] /\ i + 1 \in 1..Len(queue) /\ i + 1 # 1
            BY <2>6
        <3>2. queue[i + 1] # queue[1]
            BY <2>1, <3>1 DEF PoolQueueShape
        <3>3. taskAt[queue[i + 1]] = "queued"
            BY <3>1 DEF PoolQueueShape
        <3>4. queue'[i] # h
            BY <2>1, <3>1, <3>2
        <3> QED
            BY <1>1, <3>1, <3>3, <3>4
    <2>8. \A i, j \in 1..Len(queue') : queue'[i] = queue'[j] => i = j
        <3> SUFFICES ASSUME NEW i \in 1..Len(queue'), NEW j \in 1..Len(queue'),
                            queue'[i] = queue'[j]
                     PROVE  i = j
            OBVIOUS
        <3>1. i + 1 = j + 1
            BY <2>6 DEF PoolQueueShape
        <3> QED
            BY <2>6, <3>1
    <2>9. PoolQueueShape'
        <3>1. \A i \in 1..Len(queue') : taskAt'[queue'[i]] = "queued"
            BY <1>1, <1>5, <2>1, <2>7
        <3>2. \A u \in Pool!TaskIds : taskAt'[u] = "new" => taskAt[u] = "new"
            BY <1>1, <1>5, <2>1
        <3>3. ~ \E u \in Pool!TaskIds : taskAt'[u] = "new"
            BY <1>1, <3>2 DEF PoolQueueShape
        <3> QED
            BY <2>8, <3>1, <3>3 DEF PoolQueueShape
    <2> QED
        BY <1>1, <1>5, <2>1, <2>5, <2>6, <2>9
<1> QED
    BY <1>4, <1>5 DEF Pool!Release

LEMMA PoolSettleInv ==
    ASSUME Pool!PoolLimits, PoolInv, NEW t \in Pool!Holding,
           NEW state \in {"done", "failed"}, NEW how \in {"text", "aborted", "error"},
           Pool!Settle(t, state, how), UNCHANGED <<ran, poolAborted, returned>>
    PROVE  PoolInv'
<1>1. /\ taskAt' \in [Pool!TaskIds -> {"new", "queued", "granted", "running", "settled"}]
      /\ permits' \in Nat /\ queue' \in Seq(Pool!TaskIds) /\ PoolQueueShape' /\ Pool!PermitsConserved'
    BY PoolReleaseInv DEF Pool!Settle
<1> QED
    BY <1>1 DEF PoolInv, Pool!TypeOK, Pool!Settle

\* A task that goes on to run keeps its permit.
LEMMA PoolContinueInv == ASSUME Pool!PoolLimits, PoolInv, NEW t \in Pool!TaskIds, Pool!Continue(t) PROVE PoolInv'
<1>1. taskAt[t] = "granted" /\ t \in Pool!Holding
    BY DEF Pool!Continue, Pool!FirstGranted, Pool!Holding, Pool!In
<1>2. CASE Pool!Settle(t, "failed", "aborted") /\ UNCHANGED ran
    BY <1>1, <1>2, PoolSettleInv DEF Pool!Continue
<1>3. CASE /\ taskAt' = [taskAt EXCEPT ![t] = "running"] /\ ran' = ran \cup {t}
           /\ listed' = [listed EXCEPT ![t] = "running"] /\ UNCHANGED <<permits, queue, outcome>>
    <2>1. Pool!TypeOK'
        BY <1>3 DEF PoolInv, Pool!TypeOK, Pool!Continue
    <2>2. \A i \in 1..Len(queue) : queue[i] \in Pool!TaskIds /\ queue[i] # t
        BY <1>1 DEF PoolInv, Pool!TypeOK, PoolQueueShape
    <2>3. PoolQueueShape'
        BY <1>1, <1>3, <2>2 DEF PoolInv, Pool!TypeOK, PoolQueueShape
    <2>4. Pool!Holding' = Pool!Holding
        BY <1>1, <1>3 DEF PoolInv, Pool!TypeOK, Pool!Holding, Pool!In
    <2>5. Pool!PermitsConserved'
        BY <1>3, <2>4 DEF PoolInv, Pool!PermitsConserved
    <2> QED
        BY <2>1, <2>3, <2>5 DEF PoolInv
<1> QED
    BY <1>2, <1>3 DEF Pool!Continue

LEMMA PoolNextInv == ASSUME Pool!PoolLimits, PoolInv, [Pool!Next]_poolVars PROVE PoolInv'
<1>1. ASSUME NEW t \in Pool!TaskIds, Pool!RunTaskResolves(t) PROVE PoolInv'
    <2>1. t \in Pool!Holding
        BY <1>1 DEF Pool!RunTaskResolves, Pool!Holding, Pool!In
    <2> QED
        BY <1>1, <2>1, PoolSettleInv DEF Pool!RunTaskResolves
<1>2. ASSUME NEW t \in Pool!TaskIds, Pool!RunTaskThrows(t) PROVE PoolInv'
    <2>1. t \in Pool!Holding
        BY <1>2 DEF Pool!RunTaskThrows, Pool!Holding, Pool!In
    <2> QED
        BY <1>2, <2>1, PoolSettleInv DEF Pool!RunTaskThrows
<1>3. CASE Pool!AllSettled \/ Pool!Abort \/ UNCHANGED poolVars
    <2>1. UNCHANGED <<taskAt, permits, queue, listed, outcome, ran>>
          /\ poolAborted' \in BOOLEAN /\ returned' \in BOOLEAN
        BY <1>3 DEF Pool!AllSettled, Pool!Abort, poolVars, PoolInv, Pool!TypeOK
    <2> QED
        BY <2>1 DEF PoolInv, Pool!TypeOK, PoolQueueShape, Pool!PermitsConserved, Pool!Holding, Pool!In
<1> QED
    BY <1>1, <1>2, <1>3, PoolRunAllInv, PoolContinueInv DEF Pool!Next, Pool!TaskStep

-----------------------------------------------------------------------------
(* TaskDelivery *)

\* Until deliveries overlap, the one in progress is alone and the row holds its
\* result once it has been accepted; what a call counts as a success has reached
\* the user.
Sending == {"sending", "trying", "marking"}
DeliveryShape ==
    /\ \A c \in Deliveries :
        /\ deliveryAt[c] \in {"new", "accepted"} => ~successes[c]
        /\ successes[c] => arg[c] \in received
        /\ deliveryAt[c] # "new" => arg[c] \in TaskResults
        /\ deliveryAt[c] = "trying" => left[c] # 0
    /\ ~overlapped =>
        /\ \A c, d \in Delivery!Busy : c = d
        /\ \A c \in Deliveries : deliveryAt[c] \in Sending => stored = arg[c]

DeliveryInv == Delivery!TypeOK /\ DeliveryShape /\ Delivery!DeliveredIsReceived

LEMMA DeliveryInitInv == ASSUME Delivery!ChannelsNat, Delivery!Init PROVE DeliveryInv
<1>1. left \in [Deliveries -> 0..EnabledChannels]
    BY DEF Delivery!Init, Delivery!ChannelsNat
<1>2. Delivery!TypeOK
    BY <1>1 DEF Delivery!Init, Delivery!TypeOK
<1>3. DeliveryShape /\ Delivery!DeliveredIsReceived
    BY DEF Delivery!Init, DeliveryShape, Delivery!DeliveredIsReceived, Delivery!Busy, Sending
<1> QED
    BY <1>2, <1>3 DEF DeliveryInv

LEMMA DeliverInv ==
    ASSUME DeliveryInv, NEW c \in Deliveries, NEW r \in TaskResults, Delivery!Deliver(c, r)
    PROVE  DeliveryInv'
<1> USE DEF DeliveryInv, Delivery!Deliver, Delivery!Goes, Delivery!row
<1>1. Delivery!TypeOK'
    BY DEF Delivery!TypeOK
<1>2. DeliveryShape'
    BY DEF Delivery!TypeOK, DeliveryShape, Delivery!Busy, Sending
<1>3. Delivery!DeliveredIsReceived'
    BY DEF Delivery!DeliveredIsReceived
<1> QED
    BY <1>1, <1>2, <1>3

LEMMA PersistInv ==
    ASSUME Delivery!ChannelsNat, DeliveryInv, NEW c \in Deliveries, Delivery!Persist(c)
    PROVE  DeliveryInv'
<1> USE DEF DeliveryInv, Delivery!Persist, Delivery!Goes, Delivery!row
<1>1. Delivery!TypeOK'
    <2>1. left' \in [Deliveries -> 0..EnabledChannels]
        BY DEF Delivery!TypeOK, DeliveryShape, Delivery!ChannelsNat
    <2> QED
        BY <2>1 DEF Delivery!TypeOK, DeliveryShape
<1>2. DeliveryShape'
    BY DEF Delivery!TypeOK, DeliveryShape, Delivery!Busy, Sending, Delivery!ChannelsNat
<1>3. Delivery!DeliveredIsReceived'
    BY DEF Delivery!DeliveredIsReceived, Delivery!TypeOK
<1> QED
    BY <1>1, <1>2, <1>3

LEMMA SendSettlesInv ==
    ASSUME DeliveryInv, NEW c \in Deliveries, Delivery!SendSettles(c) PROVE DeliveryInv'
<1> USE DEF DeliveryInv, Delivery!SendSettles, Delivery!Goes, Delivery!row
<1>1. Delivery!TypeOK'
    BY DEF Delivery!TypeOK, DeliveryShape
<1>2. DeliveryShape'
    BY DEF Delivery!TypeOK, DeliveryShape, Delivery!Busy, Sending
<1>3. Delivery!DeliveredIsReceived'
    BY DEF Delivery!DeliveredIsReceived
<1> QED
    BY <1>1, <1>2, <1>3

LEMMA ChannelSettlesInv ==
    ASSUME Delivery!ChannelsNat, DeliveryInv, NEW c \in Deliveries, Delivery!ChannelSettles(c)
    PROVE  DeliveryInv'
<1> USE DEF DeliveryInv, Delivery!ChannelSettles, Delivery!Goes, Delivery!row
<1>1. Delivery!TypeOK'
    <2>1. left' \in [Deliveries -> 0..EnabledChannels]
        BY DEF Delivery!TypeOK, DeliveryShape, Delivery!ChannelsNat
    <2> QED
        BY <2>1 DEF Delivery!TypeOK, DeliveryShape
<1>2. DeliveryShape'
    BY DEF Delivery!TypeOK, DeliveryShape, Delivery!Busy, Sending
<1>3. Delivery!DeliveredIsReceived'
    BY DEF Delivery!DeliveredIsReceived
<1> QED
    BY <1>1, <1>2, <1>3

\* The last update marks as delivered only what some transport took.
LEMMA MarkInv == ASSUME DeliveryInv, NEW c \in Deliveries, Delivery!Mark(c) PROVE DeliveryInv'
<1> USE DEF DeliveryInv, Delivery!Mark, Delivery!Goes
<1>1. Delivery!TypeOK'
    BY DEF Delivery!TypeOK
<1>2. DeliveryShape'
    BY DEF Delivery!TypeOK, DeliveryShape, Delivery!Busy, Sending
<1>3. Delivery!DeliveredIsReceived'
    BY DEF Delivery!DeliveredIsReceived, DeliveryShape, Sending
<1> QED
    BY <1>1, <1>2, <1>3

LEMMA DeliveryCrashInv == ASSUME DeliveryInv, Delivery!Crash PROVE DeliveryInv'
<1> USE DEF DeliveryInv, Delivery!Crash, Delivery!row
<1>1. Delivery!TypeOK'
    BY DEF Delivery!TypeOK
<1>2. DeliveryShape'
    BY DEF Delivery!TypeOK, DeliveryShape, Delivery!Busy, Sending
<1>3. Delivery!DeliveredIsReceived'
    BY DEF Delivery!DeliveredIsReceived
<1> QED
    BY <1>1, <1>2, <1>3

LEMMA DeliveryNextInv ==
    ASSUME Delivery!ChannelsNat, DeliveryInv, [Delivery!Next]_deliveryVars PROVE DeliveryInv'
<1>1. CASE Delivery!Complete \/ Delivery!Delete \/ UNCHANGED deliveryVars
    BY <1>1 DEF Delivery!Complete, Delivery!Delete, deliveryVars, DeliveryInv, Delivery!TypeOK,
                DeliveryShape, Delivery!Busy, Sending, Delivery!DeliveredIsReceived
<1> QED
    BY <1>1, DeliverInv, PersistInv, SendSettlesInv, ChannelSettlesInv, MarkInv,
       DeliveryCrashInv DEF Delivery!Next, Delivery!Step

-----------------------------------------------------------------------------
(* StepLoop *)

\* What is past the permissions was allowed or granted, and while tools may run
\* the guard has not heard of too many failures; a step adds at most one for each
\* of its calls.
LoopShape ==
    /\ \A i \in Loop!Calls :
        phase[i] \in {"ready", "started", "executing"} =>
            Rule[calls[i]] = "allow" \/ i \in granted
    /\ Len(calls) <= LoopCalls
    /\ loopAt \in {"permitting", "running"} => guard.total < MaxTotal
    /\ Loop!FailuresBounded

LoopInv == Loop!TypeOK /\ LoopShape

LEMMA LoopInitInv == ASSUME Loop!StepLimits, Loop!Init PROVE LoopInv
<1>1. calls \in Seq(Names) /\ Len(calls) = 0 /\ Loop!Calls = {}
    BY DEF Loop!Init, Loop!Calls
<1>2. guard \in [consecutive : Nat, total : Nat, recent : Seq(Names)]
      /\ Len(guard.recent) = 0 /\ guard.total = 0
    BY DEF Loop!Init, Loop!Fresh
<1>3. phase \in [Loop!Calls -> {"new", "asking", "ready", "started", "executing", "over"}]
      /\ result \in [Loop!Calls -> {"none", "ok", "error"}]
    BY <1>1 DEF Loop!Init
<1>4. Loop!TypeOK
    <2>1. 0 \in 0..LoopSteps /\ Len(guard.recent) <= Window
        BY <1>2 DEF Loop!StepLimits
    <2> QED
        BY <1>1, <1>2, <1>3, <2>1 DEF Loop!Init, Loop!TypeOK
<1>5. LoopShape
    BY <1>1, <1>2 DEF Loop!Init, LoopShape, Loop!FailuresBounded, Loop!StepLimits
<1> QED
    BY <1>4, <1>5 DEF LoopInv

\* The guard's window after a step.
LEMMA TrackType ==
    ASSUME Loop!StepLimits, Loop!TypeOK, NEW names \in Seq(Names)
    PROVE  /\ Loop!Track(guard, names) \in [consecutive : Nat, total : Nat, recent : Seq(Names)]
           /\ Len(Loop!Track(guard, names).recent) <= Window
           /\ Loop!Track(guard, names).total = guard.total
<1> DEFINE all == guard.recent \o names
           over == IF Len(all) > Window THEN Len(all) - Window ELSE 0
           kept == SubSeq(all, over + 1, Len(all))
<1>1. all \in Seq(Names) /\ Len(all) \in Nat /\ Window \in Nat
    BY DEF Loop!TypeOK, Loop!StepLimits
<1>2. over \in Nat /\ over <= Len(all) /\ Len(all) - over <= Window
    BY <1>1
<1>3. \A i \in (over + 1)..Len(all) : all[i] \in Names
    BY <1>1, <1>2
<1> HIDE DEF all, over
<1>4. kept \in Seq(Names)
      /\ Len(kept) = IF over + 1 <= Len(all) THEN Len(all) - (over + 1) + 1 ELSE 0
    BY <1>1, <1>2, <1>3, SubSeqProperties
<1>5. Len(kept) <= Window
    BY <1>1, <1>2, <1>4
<1> HIDE DEF kept
<1>6. Loop!Track(guard, names) = [guard EXCEPT !.recent = kept]
    BY DEF Loop!Track, kept, over, all
<1> QED
    BY <1>4, <1>5, <1>6 DEF Loop!TypeOK

LEMMA StepCallsInv ==
    ASSUME Loop!StepLimits, LoopInv,
           NEW names \in Loop!BoundedSeq(Names, LoopCalls), Loop!StepCalls(names)
    PROVE  LoopInv'
<1> USE DEF LoopInv
<1>1. names \in Seq(Names) /\ Len(names) <= LoopCalls
    BY DEF Loop!BoundedSeq, Loop!SeqOf, Loop!StepLimits
<1>2. CASE loopSteps >= LoopSteps
    BY <1>2 DEF Loop!StepCalls, Loop!tools, Loop!TypeOK, LoopShape, Loop!FailuresBounded,
                Loop!Calls
<1>3. CASE ~(loopSteps >= LoopSteps)
    <2>1. /\ guard' \in [consecutive : Nat, total : Nat, recent : Seq(Names)]
          /\ Len(guard'.recent) <= Window /\ guard'.total = guard.total
        BY <1>1, <1>3, TrackType DEF Loop!StepCalls
    <2>2. loopSteps' \in 0..LoopSteps
        BY <1>3 DEF Loop!StepCalls, Loop!TypeOK, Loop!StepLimits
    <2>3. CASE Loop!ShouldEscalate(guard')
        BY <1>3, <2>1, <2>2, <2>3
           DEF Loop!StepCalls, Loop!tools, Loop!TypeOK, LoopShape, Loop!FailuresBounded, Loop!Calls
    <2>4. CASE ~Loop!ShouldEscalate(guard')
        <3>1. guard'.total < MaxTotal
            BY <2>1, <2>4 DEF Loop!ShouldEscalate, Loop!StepLimits
        <3>2. /\ loopAt' = "permitting" /\ calls' = names /\ granted' = {}
              /\ phase' = [i \in DOMAIN names |-> "new"]
              /\ result' = [i \in DOMAIN names |-> "none"]
              /\ UNCHANGED <<loopAborted, reason>>
            BY <1>3, <2>4 DEF Loop!StepCalls
        <3>3. Loop!TypeOK'
            BY <1>1, <2>1, <2>2, <3>2 DEF Loop!TypeOK, Loop!Calls
        <3>4. LoopShape'
            BY <1>1, <2>1, <3>1, <3>2 DEF LoopShape, Loop!FailuresBounded, Loop!Calls, Loop!StepLimits
        <3> QED
            BY <3>3, <3>4
    <2> QED
        BY <2>3, <2>4
<1> QED
    BY <1>2, <1>3

\* A step of one call.
LEMMA CallStepInv ==
    ASSUME LoopInv, NEW i \in Loop!Places,
           Loop!CallStep(i) \/ (\E yes \in BOOLEAN : Loop!ResolvePermission(i, yes))
    PROVE  LoopInv'
<1> USE DEF LoopInv, Loop!Turn, Loop!Answers
<1>1. /\ i \in Loop!Calls
      /\ UNCHANGED <<loopAt, loopSteps, guard, loopAborted, reason, calls>>
    BY DEF Loop!CallStep, Loop!Delegate, Loop!RequestPermission, Loop!ResolvePermission,
           Loop!PipelineStarts, Loop!HookThrows, Loop!ToolExecutes, Loop!ToolSettles
<1>2. granted \subseteq granted' /\ granted' \subseteq Loop!Calls
    BY <1>1 DEF Loop!CallStep, Loop!Delegate, Loop!RequestPermission, Loop!ResolvePermission,
           Loop!PipelineStarts, Loop!HookThrows, Loop!ToolExecutes, Loop!ToolSettles, Loop!TypeOK
<1>3. \E place \in {"asking", "ready", "started", "executing", "over"} :
        /\ phase' = [phase EXCEPT ![i] = place]
        /\ place \in {"ready", "started", "executing"} =>
              Rule[calls[i]] = "allow" \/ i \in granted'
    BY <1>1 DEF Loop!CallStep, Loop!Delegate, Loop!RequestPermission, Loop!ResolvePermission,
           Loop!PipelineStarts, Loop!HookThrows, Loop!ToolExecutes, Loop!ToolSettles,
           Loop!TypeOK, LoopShape
<1>4. result' \in [Loop!Calls -> {"none", "ok", "error"}]
    BY <1>1 DEF Loop!CallStep, Loop!Delegate, Loop!RequestPermission, Loop!ResolvePermission,
           Loop!PipelineStarts, Loop!HookThrows, Loop!ToolExecutes, Loop!ToolSettles, Loop!TypeOK
<1>5. Loop!Calls' = Loop!Calls
    BY <1>1 DEF Loop!Calls
<1>6. Loop!TypeOK'
    <2>1. phase' \in [Loop!Calls -> {"new", "asking", "ready", "started", "executing", "over"}]
        BY <1>3 DEF Loop!TypeOK
    <2> HIDE DEF Loop!Turn, Loop!Answers
    <2> QED
        BY <1>1, <1>2, <1>4, <1>5, <2>1 DEF Loop!TypeOK
<1>7. LoopShape'
    BY <1>1, <1>2, <1>3, <1>5 DEF Loop!TypeOK, LoopShape, Loop!FailuresBounded
<1> QED
    BY <1>6, <1>7

\* What the guard hears of a step: not more failures than the step has calls.
LEMMA ResultsPushedInv == ASSUME Loop!StepLimits, LoopInv, Loop!ResultsPushed PROVE LoopInv'
<1> USE DEF LoopInv
<1>1. Loop!Calls = 1..Len(calls) /\ Len(calls) \in Nat
    BY DEF Loop!TypeOK, Loop!Calls
<1>2. IsFiniteSet(Loop!Calls) /\ Cardinality(Loop!Calls) = Len(calls)
    <2>1. PICK n \in Nat : n = Len(calls)
        BY <1>1
    <2>2. IsFiniteSet(1..n) /\ Cardinality(1..n) = IF 1 > n THEN 0 ELSE n - 1 + 1
        BY FS_Interval
    <2> QED
        BY <1>1, <2>1, <2>2
<1>3. Loop!Failures \in SUBSET Loop!Calls /\ Loop!InARow \in SUBSET Loop!Calls
    BY DEF Loop!Failures, Loop!InARow
<1>4. /\ Cardinality(Loop!Failures) \in Nat /\ Cardinality(Loop!Failures) <= Len(calls)
      /\ Cardinality(Loop!InARow) \in Nat
    BY <1>1, <1>2, <1>3, FS_Subset, FS_CardinalityType
<1>5. \A S : Loop!Cardinality(S) = Cardinality(S)
    BY DEF Loop!Cardinality, Cardinality
<1>6. /\ guard' \in [consecutive : Nat, total : Nat, recent : Seq(Names)]
      /\ guard'.recent = guard.recent
      /\ guard'.total = guard.total + Cardinality(Loop!Failures)
    <2>1. guard \in [consecutive : Nat, total : Nat, recent : Seq(Names)]
        BY DEF Loop!TypeOK
    <2>2. PICK m \in Nat : m = guard.total + Cardinality(Loop!Failures)
        BY <1>4, <2>1
    <2>3. PICK n \in Nat : n = Cardinality(Loop!InARow)
                                  + IF Loop!InARow = Loop!Calls THEN guard.consecutive ELSE 0
        BY <1>4, <2>1
    <2>4. guard' = [guard EXCEPT !.total = m, !.consecutive = n]
        BY <1>5, <2>1, <2>2, <2>3 DEF Loop!ResultsPushed, Loop!Recorded
    <2> QED
        BY <2>1, <2>2, <2>4
<1>7. Loop!TypeOK'
    BY <1>6 DEF Loop!ResultsPushed, Loop!TypeOK, Loop!tools, Loop!Calls
<1>8. guard.total < MaxTotal /\ Len(calls) <= LoopCalls
    BY DEF Loop!ResultsPushed, LoopShape
<1>9. LoopShape'
    BY <1>1, <1>4, <1>6, <1>8
       DEF Loop!ResultsPushed, Loop!TypeOK, Loop!tools, Loop!Calls, LoopShape,
           Loop!FailuresBounded, Loop!StepLimits
<1> QED
    BY <1>7, <1>9

LEMMA LoopNextInv == ASSUME Loop!StepLimits, LoopInv, [Loop!Next]_loopVars PROVE LoopInv'
<1>1. CASE \/ Loop!SeesAbort \/ Loop!StepStarts \/ Loop!StepFails \/ Loop!StepIsText
           \/ Loop!Completes \/ Loop!PermissionsDone \/ Loop!Abort \/ UNCHANGED loopVars
    <2>1. /\ UNCHANGED <<loopSteps, guard, calls, phase, result, granted>>
          /\ loopAt' \in {"top", "stepping", "limit", "doom", "returned"}
                \/ loopAt' = loopAt \/ loopAt = "permitting"
          /\ loopAt' \in {"top", "stepping", "limit", "doom", "permitting", "running", "returned"}
          /\ loopAborted' \in BOOLEAN
          /\ reason' \in {"none", "aborted", "error", "text_only_response",
                          "max_steps_reached", "doom_loop_detected"}
        BY <1>1 DEF LoopInv, Loop!TypeOK, Loop!SeesAbort, Loop!StepStarts, Loop!StepFails,
                    Loop!StepIsText, Loop!Completes, Loop!PermissionsDone, Loop!Abort, loopVars,
                    Loop!Ends, Loop!Return, Loop!tools
    <2> QED
        BY <2>1 DEF LoopInv, Loop!TypeOK, LoopShape, Loop!FailuresBounded, Loop!Calls
<1> QED
    BY <1>1, StepCallsInv, CallStepInv, ResultsPushedInv DEF Loop!Next, Loop!LoopStep

-----------------------------------------------------------------------------
(* AgentLoop *)

Requests == [role : {"user", "assistant"}, uses : SUBSET Conversing!Ids,
             results : SUBSET Conversing!Ids]
Stored == [role : {"user", "assistant"}, groups : Seq(Conversing!Groups)]

\* What the content of the turn answers.
Answers == {id \in Conversing!Ids :
              \E i \in DOMAIN blocks : blocks[i].kind = "result" /\ id \in blocks[i].ids}
AllAnswered(sent) == \A i \in DOMAIN sent : Conversing!Answered(sent, i)
AtTools == turnAt \in {"tools", "starting", "running", "results"}

\* While tools run, the last message asks for the calls and the results so far
\* are those of the first ones; whatever has run is answered in the content, or in
\* these results, or is running.
TurnShape ==
    /\ turnAt \in {"top", "streaming"} => AllAnswered(messages)
    /\ turnAt \in {"top", "streaming", "done"} => turnRan \subseteq Answers
    /\ turnAt = "streaming" => results = <<>>
    /\ turnAt \in {"starting", "running"} => Len(results) < Len(turnCalls)
    /\ turnAt = "results" => turnAborted
    /\ AtTools =>
        /\ Len(messages) > 0
        /\ \A i \in 1..(Len(messages) - 1) : Conversing!Answered(messages, i)
        /\ messages[Len(messages)].uses = Conversing!ToSet(turnCalls)
        /\ Len(results) <= Len(turnCalls)
        /\ \A i \in 1..Len(results) : results[i] = turnCalls[i]
        /\ turnRan \subseteq Answers \cup Conversing!ToSet(results)
                        \cup IF turnAt = "running" THEN {Conversing!Current} ELSE {}

\* Conversing!TypeOK in three parts, with names for its sets.
SeqTypes ==
    /\ history \in Seq(Stored)
    /\ messages \in Seq(Requests)
    /\ blocks \in Seq(Conversing!Groups)
    /\ turnCalls \in Seq(Conversing!Ids)
    /\ results \in Seq(Conversing!Ids)
FlagTypes ==
    /\ turnAt \in {"idle", "top", "streaming", "tools", "starting", "running", "results", "done"}
    /\ text \in BOOLEAN /\ turnAborted \in BOOLEAN
    /\ turnReason \in {"none", "error", "aborted", "text_only_response", "max_steps_reached"}
CountTypes ==
    /\ turnSteps \in 0..TurnSteps
    /\ nextId \in Nat \ {0} /\ turns \in 0..MaxTurns
    /\ turnRan \subseteq Conversing!Ids

TurnInv == Conversing!TypeOK /\ TurnShape

LEMMA TypesNamed ==
    /\ Conversing!TypeOK <=> SeqTypes /\ FlagTypes /\ CountTypes
    /\ Conversing!TypeOK' <=> SeqTypes' /\ FlagTypes' /\ CountTypes'
    BY DEF Conversing!TypeOK, SeqTypes, FlagTypes, CountTypes, Stored, Requests

LEMMA SameIds ==
    ASSUME nextId' = nextId
    PROVE  /\ Conversing!Ids' = Conversing!Ids /\ Conversing!Groups' = Conversing!Groups
           /\ Stored' = Stored /\ Requests' = Requests
    BY DEF Conversing!Ids, Conversing!Groups, Stored, Requests

LEMMA TurnInitInv == ASSUME Conversing!LimitsNat, Conversing!Init PROVE TurnInv
<1>1. SeqTypes
    BY DEF Conversing!Init, SeqTypes
<1>2. FlagTypes
    BY DEF Conversing!Init, FlagTypes
<1>3. CountTypes
    BY DEF Conversing!Init, CountTypes, Conversing!LimitsNat
<1>4. TurnShape
    BY DEF Conversing!Init, TurnShape, AtTools
<1> QED
    BY <1>1, <1>2, <1>3, <1>4, TypesNamed DEF TurnInv

LEMMA FlagTypesKept == ASSUME TurnInv, [Conversing!Next]_turnVars PROVE FlagTypes'
<1>1. FlagTypes
    BY TypesNamed DEF TurnInv
<1>2. CASE Conversing!ToolStart \/ Conversing!ToolExecutes \/ Conversing!ToolSettles
           \/ Conversing!ToolsEnd \/ Conversing!Persist \/ Conversing!Abort
    BY <1>1, <1>2 DEF FlagTypes, Conversing!ToolStart, Conversing!ToolExecutes,
       Conversing!ToolSettles, Conversing!ToolsEnd, Conversing!Persist, Conversing!Abort,
       Conversing!Done, Conversing!turn
<1>3. CASE Conversing!BeginTurn \/ Conversing!Token \/ Conversing!CallReceived \/ Conversing!Top
           \/ Conversing!StreamAborted \/ Conversing!StreamError
           \/ Conversing!StreamEndsInText \/ Conversing!StreamEndsInCalls \/ UNCHANGED turnVars
    BY <1>1, <1>3 DEF FlagTypes, Conversing!BeginTurn, Conversing!Token, Conversing!CallReceived,
       Conversing!Top, Conversing!StreamAborted, Conversing!StreamError,
       Conversing!StreamEndsInText, Conversing!StreamEndsInCalls, Conversing!Done,
       Conversing!turn, turnVars
<1> QED
    BY <1>2, <1>3 DEF Conversing!Next, Conversing!LoopStep

LEMMA CountTypesKept ==
    ASSUME Conversing!LimitsNat, TurnInv, [Conversing!Next]_turnVars PROVE CountTypes'
<1>1. CountTypes /\ SeqTypes
    BY TypesNamed DEF TurnInv
<1>2. CASE Conversing!ToolExecutes
    <2>1. Conversing!Current \in Conversing!Ids
        BY <1>1, <1>2 DEF SeqTypes, Conversing!ToolExecutes, Conversing!Current, TurnInv, TurnShape
    <2> QED
        BY <1>1, <1>2, <2>1, SameIds DEF CountTypes, Conversing!ToolExecutes
<1>3. CASE Conversing!CallReceived
    BY <1>1, <1>3 DEF CountTypes, Conversing!CallReceived, Conversing!turn, Conversing!Ids
<1>4. CASE Conversing!BeginTurn
    BY <1>1, <1>4, SameIds DEF CountTypes, Conversing!BeginTurn, Conversing!LimitsNat
<1>5. CASE Conversing!StreamEndsInCalls
    BY <1>1, <1>5, SameIds DEF CountTypes, Conversing!StreamEndsInCalls, Conversing!LimitsNat
<1>6. CASE UNCHANGED <<turnSteps, nextId, turns, turnRan>>
    BY <1>1, <1>6, SameIds DEF CountTypes
<1> QED
    BY <1>2, <1>3, <1>4, <1>5, <1>6
       DEF Conversing!Next, Conversing!LoopStep, Conversing!Token, Conversing!Top,
           Conversing!StreamAborted, Conversing!StreamError, Conversing!StreamEndsInText,
           Conversing!ToolStart, Conversing!ToolSettles, Conversing!ToolsEnd,
           Conversing!Persist, Conversing!Abort, Conversing!turn, turnVars

\* An answer of the provider is paired with what the loop adds after it.
LEMMA AppendAnswered ==
    ASSUME NEW S, NEW sent \in Seq(S), NEW m,
           \A i \in 1..(Len(sent) - 1) : Conversing!Answered(sent, i),
           Len(sent) > 0 => sent[Len(sent)].uses \in {{}, m.results}
    PROVE  \A i \in 1..Len(sent) : Conversing!Answered(Append(sent, m), i)
<1> SUFFICES ASSUME NEW i \in 1..Len(sent) PROVE Conversing!Answered(Append(sent, m), i)
    OBVIOUS
<1>1. Len(Append(sent, m)) = Len(sent) + 1 /\ Append(sent, m)[i] = sent[i]
    OBVIOUS
<1>2. Append(sent, m)[i + 1] = IF i = Len(sent) THEN m ELSE sent[i + 1]
    OBVIOUS
<1> QED
    BY <1>1, <1>2 DEF Conversing!Answered

LEMMA SeqsGrow == ASSUME NEW S, NEW T, S \subseteq T PROVE Seq(S) \subseteq Seq(T)
    BY SeqMonotonic

\* Ids of calls are only ever added.
LEMMA IdsGrow ==
    ASSUME Conversing!TypeOK, nextId' = nextId + 1
    PROVE  /\ Conversing!Ids \subseteq Conversing!Ids' /\ nextId \in Conversing!Ids'
           /\ Conversing!Groups \subseteq Conversing!Groups'
           /\ Seq(Conversing!Groups) \subseteq Seq(Conversing!Groups')
           /\ Seq(Stored) \subseteq Seq(Stored') /\ Seq(Requests) \subseteq Seq(Requests')
           /\ Seq(Conversing!Ids) \subseteq Seq(Conversing!Ids')
<1>1. Conversing!Ids \subseteq Conversing!Ids' /\ nextId \in Conversing!Ids'
    BY DEF Conversing!TypeOK, Conversing!Ids
<1>2. Conversing!Groups \subseteq Conversing!Groups'
    BY <1>1 DEF Conversing!Groups
<1>3. Seq(Conversing!Groups) \subseteq Seq(Conversing!Groups')
    BY <1>2, SeqsGrow
<1>4. Stored \subseteq Stored' /\ Requests \subseteq Requests'
    BY <1>1, <1>3 DEF Stored, Requests
<1>5. Seq(Stored) \subseteq Seq(Stored') /\ Seq(Requests) \subseteq Seq(Requests')
    BY <1>4, SeqsGrow
<1>6. Seq(Conversing!Ids) \subseteq Seq(Conversing!Ids')
    BY <1>1, SeqsGrow
<1> QED
    BY <1>1, <1>2, <1>3, <1>5, <1>6

LEMMA CallReceivedInv == ASSUME TurnInv, Conversing!CallReceived PROVE SeqTypes' /\ TurnShape'
<1> USE DEF TurnInv, Conversing!CallReceived, Conversing!turn
<1>1. turnCalls' \in Seq(Conversing!Ids')
    BY IdsGrow, TypesNamed DEF SeqTypes
<1>2. SeqTypes'
    BY <1>1, IdsGrow, TypesNamed DEF SeqTypes
<1>3. Answers \subseteq Answers'
    BY IdsGrow DEF Answers
<1>4. TurnShape'
    BY <1>3 DEF TurnShape, AtTools, AllAnswered, Conversing!Answered, Conversing!Streaming
<1> QED
    BY <1>2, <1>4

LEMMA BeginTurnInv == ASSUME TurnInv, Conversing!BeginTurn PROVE SeqTypes' /\ TurnShape'
<1> USE DEF TurnInv, Conversing!BeginTurn
<1>1. [role |-> "user", groups |-> <<>>] \in Stored
    BY DEF Stored
<1>2. SeqTypes'
    BY <1>1, TypesNamed, SameIds DEF SeqTypes
<1>3. TurnShape'
    BY DEF TurnShape, AtTools, AllAnswered
<1> QED
    BY <1>2, <1>3

LEMMA StreamEndsInCallsInv ==
    ASSUME TurnInv, Conversing!StreamEndsInCalls PROVE SeqTypes' /\ TurnShape'
<1> USE DEF TurnInv, Conversing!StreamEndsInCalls, Conversing!Done
<1> DEFINE ids == Conversing!ToSet(turnCalls)
           m == Conversing!Message("assistant", ids, {})
           b == Append(Conversing!WithText, Conversing!Uses(ids))
<1>1. /\ turnAt = "streaming" /\ results = <<>> /\ AllAnswered(messages)
      /\ turnRan \subseteq Answers
    BY DEF TurnShape, Conversing!Streaming
<1>2. ids \subseteq Conversing!Ids
    BY DEF Conversing!TypeOK, Conversing!ToSet
<1>3. messages' = Append(messages, m) /\ blocks' = b /\ UNCHANGED <<nextId, turnRan>>
    OBVIOUS
<1>4. m \in Requests /\ messages \in Seq(Requests)
    BY <1>2 DEF Conversing!Message, Requests, Conversing!TypeOK
<1>5. Conversing!Uses(ids) \in Conversing!Groups /\ Conversing!Text \in Conversing!Groups
    BY <1>2 DEF Conversing!Uses, Conversing!Text, Conversing!Groups
<1>6. Conversing!WithText \in Seq(Conversing!Groups)
    BY <1>5 DEF Conversing!WithText, Conversing!TypeOK
<1>7. b \in Seq(Conversing!Groups) /\ messages' \in Seq(Requests)
    BY <1>3, <1>4, <1>5, <1>6
<1>8. SeqTypes'
    BY <1>3, <1>7, TypesNamed, SameIds DEF SeqTypes
<1>9. Answers \subseteq Answers'
    <2>1. \A i \in DOMAIN blocks : i \in DOMAIN Conversing!WithText
                                    /\ Conversing!WithText[i] = blocks[i]
        BY DEF Conversing!WithText, Conversing!TypeOK
    <2>2. \A i \in DOMAIN Conversing!WithText : i \in DOMAIN b /\ b[i] = Conversing!WithText[i]
        BY <1>6
    <2> QED
        BY <1>3, <2>1, <2>2 DEF Answers, Conversing!Ids
<1>10. Len(messages) > 0 => messages[Len(messages)].uses = {}
    BY <1>1, <1>4 DEF AllAnswered, Conversing!Answered
<1>11. \A i \in 1..Len(messages) : Conversing!Answered(messages', i)
    <2>1. \A i \in 1..(Len(messages) - 1) : Conversing!Answered(messages, i)
        BY <1>1, <1>4 DEF AllAnswered
    <2> HIDE DEF m
    <2> QED
        BY <1>3, <1>4, <1>10, <2>1, AppendAnswered
<1>12. Len(messages') = Len(messages) + 1 /\ messages'[Len(messages')] = m /\ m.uses = ids
    BY <1>3, <1>4 DEF Conversing!Message
<1>13. turnAt' \in {"tools", "done"} /\ results' = <<>> /\ turnCalls' = turnCalls
    BY <1>1
<1>14. AtTools' => /\ Len(messages') > 0
                   /\ \A i \in 1..(Len(messages') - 1) : Conversing!Answered(messages', i)
                   /\ messages'[Len(messages')].uses = ids
    <2> HIDE DEF m
    <2> QED
        BY <1>4, <1>11, <1>12
<1>15. Len(turnCalls) \in Nat
    BY TypesNamed DEF SeqTypes
<1>16. turnRan' \subseteq Answers'
    BY <1>1, <1>3, <1>9
<1>17. TurnShape'
    BY <1>13, <1>14, <1>15, <1>16 DEF TurnShape, AtTools, Conversing!ToSet
<1> QED
    BY <1>8, <1>17

\* The results go to the content and to the request together.
LEMMA ToolsEndInv == ASSUME TurnInv, Conversing!ToolsEnd PROVE SeqTypes' /\ TurnShape'
<1> USE DEF TurnInv, Conversing!ToolsEnd, Conversing!Done
<1> DEFINE ids == Conversing!ToSet(results)
           m == Conversing!Message("user", {}, ids)
<1>1. AtTools /\ turnAt # "running" /\ messages' = Append(messages, m)
      /\ UNCHANGED <<nextId, turnRan, turnCalls, results>>
    BY DEF Conversing!ToolsOver, AtTools
<1>2. ids \subseteq Conversing!Ids
    BY DEF Conversing!TypeOK, Conversing!ToSet
<1>3. m \in Requests /\ messages \in Seq(Requests) /\ messages' \in Seq(Requests)
    BY <1>1, <1>2, TypesNamed DEF Conversing!Message, Requests, SeqTypes
<1>4. blocks' \in Seq(Conversing!Groups)
    <2>1. Conversing!Results(ids) \in Conversing!Groups
        BY <1>2 DEF Conversing!Results, Conversing!Groups
    <2>2. blocks \in Seq(Conversing!Groups)
        BY TypesNamed DEF SeqTypes
    <2> QED
        BY <2>1, <2>2
<1>5. SeqTypes'
    BY <1>1, <1>3, <1>4, TypesNamed, SameIds DEF SeqTypes
<1>6. turnRan' \subseteq Answers'
    <2>1. turnRan \subseteq Answers \cup ids
        BY <1>1 DEF TurnShape
    <2>2. CASE results = <<>>
        BY <1>1, <2>1, <2>2 DEF Answers, Conversing!Ids, Conversing!ToSet
    <2>3. CASE results # <<>>
        <3>1. blocks' = Append(blocks, Conversing!Results(ids)) /\ blocks \in Seq(Conversing!Groups)
            BY <2>3 DEF Conversing!TypeOK
        <3>2. \A i \in DOMAIN blocks : i \in DOMAIN blocks' /\ blocks'[i] = blocks[i]
            BY <3>1
        <3>3. \E i \in DOMAIN blocks' : blocks'[i].kind = "result" /\ blocks'[i].ids = ids
            BY <3>1 DEF Conversing!Results
        <3> QED
            BY <1>1, <1>2, <2>1, <3>2, <3>3 DEF Answers, Conversing!Ids
    <2> QED
        BY <2>2, <2>3
<1>7. CASE turnAborted
    BY <1>1, <1>5, <1>6, <1>7 DEF TurnShape, AtTools
<1>8. CASE ~turnAborted
    <2>1. turnAt' = "top" /\ Len(results) = Len(turnCalls)
        BY <1>1, <1>8, TypesNamed DEF Conversing!ToolsOver, Conversing!MoreCalls, TurnShape, SeqTypes
    <2>2. ids = Conversing!ToSet(turnCalls)
        <3>1. DOMAIN results = DOMAIN turnCalls /\ \A i \in DOMAIN results : results[i] = turnCalls[i]
            BY <1>1, <2>1, TypesNamed DEF TurnShape, SeqTypes
        <3> QED
            BY <3>1 DEF Conversing!ToSet
    <2>3. \A i \in 1..Len(messages) : Conversing!Answered(messages', i)
        <3>1. messages[Len(messages)].uses = m.results
            BY <1>1, <2>2 DEF TurnShape, Conversing!Message
        <3> QED
            BY <1>1, <1>3, <3>1, AppendAnswered DEF TurnShape
    <2>4. Len(messages') = Len(messages) + 1 /\ messages'[Len(messages')].uses = {}
        BY <1>1, <1>3 DEF Conversing!Message
    <2>5. AllAnswered(messages')
        BY <1>3, <2>3, <2>4 DEF AllAnswered, Conversing!Answered
    <2> QED
        BY <1>5, <1>6, <2>1, <2>5 DEF TurnShape, AtTools
<1> QED
    BY <1>5, <1>7, <1>8

\* A tool starts, runs and has its result.
LEMMA ToolStepInv ==
    ASSUME TurnInv, Conversing!ToolStart \/ Conversing!ToolExecutes \/ Conversing!ToolSettles
    PROVE  SeqTypes' /\ TurnShape'
<1> USE DEF TurnInv
<1>1. /\ AtTools /\ AtTools' /\ UNCHANGED <<history, messages, blocks, turnCalls, nextId, turnAborted,
                                       turnSteps, text, turnReason, turns>>
      /\ Len(results) < Len(turnCalls)
    BY DEF Conversing!ToolStart, Conversing!ToolExecutes, Conversing!ToolSettles,
           Conversing!MoreCalls, Conversing!turn, AtTools, TurnShape
<1>2. Conversing!Current = turnCalls[Len(results) + 1] /\ Conversing!Current \in Conversing!Ids
    BY <1>1 DEF Conversing!Current, Conversing!TypeOK
<1>3. results \in Seq(Conversing!Ids) /\ turnCalls \in Seq(Conversing!Ids)
    BY DEF Conversing!TypeOK
<1>4. CASE results' = Append(results, Conversing!Current) /\ turnRan' = turnRan
           /\ turnAt' \in {"results", "tools"} /\ (turnAt' = "results" => turnAborted)
    <2>1. SeqTypes'
        BY <1>1, <1>2, <1>3, <1>4, TypesNamed, SameIds DEF SeqTypes
    <2>2. Conversing!ToSet(results') = Conversing!ToSet(results) \cup {Conversing!Current}
        BY <1>2, <1>3, <1>4 DEF Conversing!ToSet
    <2>3. Len(results') <= Len(turnCalls) /\ \A i \in 1..Len(results') : results'[i] = turnCalls[i]
        BY <1>1, <1>2, <1>3, <1>4 DEF TurnShape
    <2>4. Answers' = Answers
        BY <1>1 DEF Answers, Conversing!Ids
    <2>5. TurnShape'
        BY <1>1, <1>4, <2>2, <2>3, <2>4 DEF TurnShape, AtTools, Conversing!ToSet
    <2> QED
        BY <2>1, <2>5
<1>5. CASE results' = results /\ turnRan' = turnRan \cup {Conversing!Current} /\ turnAt' = "running"
    <2>1. SeqTypes'
        BY <1>1, <1>2, <1>5, TypesNamed, SameIds DEF SeqTypes
    <2>2. Answers' = Answers /\ Conversing!Current' = Conversing!Current
        BY <1>1, <1>5 DEF Answers, Conversing!Ids, Conversing!Current
    <2> QED
        BY <1>1, <1>5, <2>1, <2>2 DEF TurnShape, AtTools, Conversing!ToSet, Conversing!ToolStart,
           Conversing!ToolExecutes, Conversing!ToolSettles
<1>6. CASE Conversing!ToolStart
    <2>1. results' = results /\ turnRan' = turnRan /\ turnAt' = "starting" /\ turnAt = "tools"
        BY <1>6 DEF Conversing!ToolStart
    <2>2. SeqTypes'
        BY <1>1, <2>1, TypesNamed, SameIds DEF SeqTypes
    <2>3. Answers' = Answers
        BY <1>1 DEF Answers, Conversing!Ids
    <2> QED
        BY <1>1, <2>1, <2>2, <2>3 DEF TurnShape, AtTools, Conversing!ToSet
<1> QED
    BY <1>4, <1>5, <1>6 DEF Conversing!ToolExecutes, Conversing!ToolSettles, Conversing!turn

LEMMA QuietStepInv ==
    ASSUME TurnInv,
           \/ Conversing!Top \/ Conversing!Token \/ Conversing!StreamAborted
           \/ Conversing!StreamEndsInText \/ Conversing!Abort \/ UNCHANGED turnVars
    PROVE  SeqTypes' /\ TurnShape'
<1> USE DEF TurnInv
<1>1. /\ UNCHANGED <<history, messages, turnSteps, nextId, turns, turnRan>>
      /\ blocks' \in {blocks, Append(blocks, Conversing!Text)}
      /\ turnCalls' = turnCalls \/ turnCalls' = <<>>
      /\ results' = results \/ results' = <<>>
    BY DEF Conversing!Top, Conversing!Token, Conversing!StreamAborted,
       Conversing!StreamEndsInText, Conversing!Abort, turnVars, Conversing!turn,
       Conversing!WithText
<1>2. Conversing!Text \in Conversing!Groups /\ blocks \in Seq(Conversing!Groups)
    BY TypesNamed DEF Conversing!Text, Conversing!Groups, SeqTypes
<1>3. blocks' \in Seq(Conversing!Groups)
    BY <1>1, <1>2
<1>4. SeqTypes'
    <2>1. SeqTypes
        BY TypesNamed
    <2>2. turnCalls \in Seq(Conversing!Ids) /\ results \in Seq(Conversing!Ids)
        BY <2>1 DEF SeqTypes
    <2>3. <<>> \in Seq(Conversing!Ids)
        OBVIOUS
    <2>4. turnCalls' \in Seq(Conversing!Ids)
        BY <1>1, <2>2, <2>3, Zenon
    <2>5. results' \in Seq(Conversing!Ids)
        BY <1>1, <2>2, <2>3, Zenon
    <2> QED
        BY <1>1, <1>3, <2>1, <2>4, <2>5, SameIds DEF SeqTypes
<1>5. \A i \in DOMAIN blocks : i \in DOMAIN blocks' /\ blocks'[i] = blocks[i]
    BY <1>1, <1>2
<1>6. Answers \subseteq Answers'
    BY <1>1, <1>5 DEF Answers, Conversing!Ids
<1>7. TurnShape'
    BY <1>1, <1>6 DEF Conversing!Top, Conversing!Token, Conversing!StreamAborted,
       Conversing!StreamEndsInText, Conversing!Abort, turnVars, Conversing!turn,
       Conversing!Done, Conversing!Streaming, TurnShape, AtTools, AllAnswered,
       Conversing!Answered, Conversing!ToSet, Conversing!Current
<1> QED
    BY <1>4, <1>7

LEMMA StoresTurnInv ==
    ASSUME TurnInv, Conversing!StreamError \/ Conversing!Persist PROVE SeqTypes' /\ TurnShape'
<1> USE DEF TurnInv
<1>1. <<Conversing!Text>> \in Seq(Conversing!Groups) /\ blocks \in Seq(Conversing!Groups)
    BY TypesNamed DEF Conversing!Text, Conversing!Groups, SeqTypes
<1>2. \A g \in Seq(Conversing!Groups) : [role |-> "assistant", groups |-> g] \in Stored
    BY DEF Stored
<1>3. \E g \in Seq(Conversing!Groups) :
           history' = Append(history, [role |-> "assistant", groups |-> g])
    BY <1>1 DEF Conversing!StreamError, Conversing!Persist
<1>4. history' \in Seq(Stored)
    BY <1>2, <1>3, TypesNamed DEF SeqTypes
<1>5. SeqTypes'
    BY <1>4, TypesNamed, SameIds
       DEF Conversing!StreamError, Conversing!Persist, SeqTypes, Conversing!turn
<1>6. TurnShape'
    BY DEF Conversing!StreamError, Conversing!Persist, TurnShape, AtTools
<1> QED
    BY <1>5, <1>6

LEMMA TurnNextInv ==
    ASSUME Conversing!LimitsNat, TurnInv, [Conversing!Next]_turnVars PROVE TurnInv'
<1>1. SeqTypes' /\ TurnShape'
    BY QuietStepInv, StoresTurnInv, BeginTurnInv, CallReceivedInv, StreamEndsInCallsInv,
       ToolStepInv, ToolsEndInv DEF Conversing!Next, Conversing!LoopStep
<1> QED
    BY <1>1, FlagTypesKept, CountTypesKept, TypesNamed DEF TurnInv

-----------------------------------------------------------------------------
(* The whole *)

\* A step of the whole is one of the part that runs.
LEMMA PartSteps ==
    ASSUME [AgentsNext]_allVars
    PROVE  /\ part' = part
           /\ part = "workers" => [Next]_vars
           /\ part = "delivery" => [Delivery!Next]_deliveryVars
           /\ part = "turn" => [Conversing!Next]_turnVars
           /\ part = "loop" => [Loop!Next]_loopVars
           /\ part = "pool" => [Pool!Next]_poolVars
    BY DEF AgentsNext, allVars

\* As long as deliveries do not overlap, a task marked delivered is one whose stored
\* result has reached the user, for any number of deliveries, results and channels.
THEOREM DeliveredIsReceivedHolds == AgentsSpec => []DeliveredIsReceived
<1> DEFINE Inv == part = "delivery" => DeliveryInv
<1>1. AgentsInit => Inv
    BY AgentsLimits, DeliveryInitInv DEF AgentsInit
<1>2. Inv /\ [AgentsNext]_allVars => Inv'
    BY AgentsLimits, PartSteps, DeliveryNextInv
<1>3. Inv => DeliveredIsReceived
    BY DEF DeliveryInv, DeliveredIsReceived
<1> QED
    BY <1>1, <1>2, <1>3, PTL DEF AgentsSpec

\* What the loop adds to a request is paired, and a tool that ran is answered in what
\* the turn stores, for any number of turns, steps and calls and any abort.
THEOREM MessagesKeptHolds == AgentsSpec => []MessagesKept
<1> DEFINE Inv == part = "turn" => TurnInv
<1>1. AgentsInit => Inv
    BY AgentsLimits, TurnInitInv DEF AgentsInit
<1>2. Inv /\ [AgentsNext]_allVars => Inv'
    BY AgentsLimits, PartSteps, TurnNextInv
<1>3. Inv => MessagesKept
    BY DEF TurnInv, TurnShape, MessagesKept, Conversing!OwnMessagesPaired, AllAnswered,
           Conversing!RanToolsRecorded, Answers
<1> QED
    BY <1>1, <1>2, <1>3, PTL DEF AgentsSpec

\* No tool runs that neither the profile nor the user allows, and none once the
\* guard has heard of too many failures, for any profile, limits and answers.
THEOREM ToolsGuardedHolds == AgentsSpec => []ToolsGuarded
<1> DEFINE Inv == part = "loop" => LoopInv
<1>1. AgentsInit => Inv
    BY AgentsLimits, LoopInitInv DEF AgentsInit
<1>2. Inv /\ [AgentsNext]_allVars => Inv'
    BY AgentsLimits, PartSteps, LoopNextInv
<1>3. Inv => ToolsGuarded
    BY DEF LoopInv, LoopShape, ToolsGuarded, Loop!PermissionRespected
<1> QED
    BY <1>1, <1>2, <1>3, PTL DEF AgentsSpec

\* No permit is lost or made, so at most MaxConcurrent tasks run, for any number
\* of tasks that end, throw or are aborted in any order.
THEOREM PermitsConservedHolds == AgentsSpec => []PermitsConserved
<1> DEFINE Inv == part = "pool" => PoolInv
<1>1. AgentsInit => Inv
    BY AgentsLimits, PoolInitInv DEF AgentsInit
<1>2. Inv /\ [AgentsNext]_allVars => Inv'
    BY AgentsLimits, PartSteps, PoolNextInv
<1>3. Inv => PermitsConserved
    BY DEF PoolInv, PermitsConserved
<1> QED
    BY <1>1, <1>2, <1>3, PTL DEF AgentsSpec

\* The types of the five parts.
THEOREM AgentsTypes == AgentsSpec => []AgentsTypeOK
<1> DEFINE Inv == /\ part \in {"workers", "delivery", "turn", "loop", "pool"}
                  /\ part = "workers" => TypeInv
                  /\ part = "delivery" => DeliveryInv
                  /\ part = "turn" => TurnInv
                  /\ part = "loop" => LoopInv
                  /\ part = "pool" => PoolInv
<1>1. AgentsInit => Inv
    BY AgentsLimits, TypeInit, DeliveryInitInv, TurnInitInv, LoopInitInv, PoolInitInv
       DEF AgentsInit
<1>2. Inv /\ [AgentsNext]_allVars => Inv'
    BY AgentsLimits, PartSteps, TypeNext, DeliveryNextInv, TurnNextInv, LoopNextInv, PoolNextInv
<1>3. Inv => AgentsTypeOK
    <2>1. TypeInv => TypeOK
        BY DEF TypeInv
    <2>2. /\ (DeliveryInv => Delivery!TypeOK) /\ (TurnInv => Conversing!TypeOK)
          /\ (LoopInv => Loop!TypeOK) /\ (PoolInv => Pool!TypeOK)
        BY DEF DeliveryInv, TurnInv, LoopInv, PoolInv
    <2> QED
        BY <2>1, <2>2 DEF AgentsTypeOK
<1> QED
    BY <1>1, <1>2, <1>3, PTL DEF AgentsSpec

\* Once the signal has fired no tool of a turn starts, however long the consumer held
\* the loop, and no task of a pool, also one that was handed a permit before.
THEOREM NothingStartsAfterAbortHolds == AgentsSpec => NothingStartsAfterAbort
<1>1. ASSUME [AgentsNext]_allVars
      PROVE  [turnAborted => turnRan' = turnRan \/ turnAt = "idle"]_(Conversing!vars)
    <2>1. CASE part = "turn"
        <3>1. [Conversing!Next]_turnVars
            BY <1>1, <2>1, PartSteps
        <3>2. turnAborted /\ turnAt # "idle" /\ Conversing!Next => turnRan' = turnRan
            BY DEF Conversing!Next, Conversing!LoopStep, Conversing!BeginTurn, Conversing!Token,
               Conversing!CallReceived, Conversing!Top, Conversing!StreamAborted,
               Conversing!StreamError, Conversing!StreamEndsInText,
               Conversing!StreamEndsInCalls, Conversing!ToolStart, Conversing!ToolExecutes,
               Conversing!ToolSettles, Conversing!ToolsEnd, Conversing!Persist,
               Conversing!Abort, Conversing!turn
        <3> QED
            BY <3>1, <3>2 DEF turnVars, Conversing!vars, Conversing!turn
    <2>2. CASE part # "turn"
        BY <1>1, <2>2 DEF AgentsNext, allVars, turnVars, Conversing!vars, Conversing!turn
    <2> QED
        BY <2>1, <2>2
<1>2. ASSUME [AgentsNext]_allVars
      PROVE  [poolAborted => ran' = ran]_(Pool!vars)
    <2>1. CASE part = "pool"
        <3>1. [Pool!Next]_poolVars
            BY <1>2, <2>1, PartSteps
        <3>2. poolAborted /\ Pool!Next => ran' = ran
            BY DEF Pool!Next, Pool!TaskStep, Pool!RunAll, Pool!Continue, Pool!RunTaskResolves,
               Pool!RunTaskThrows, Pool!AllSettled, Pool!Abort
        <3> QED
            BY <3>1, <3>2 DEF poolVars, Pool!vars
    <2>2. CASE part # "pool"
        BY <1>2, <2>2 DEF AgentsNext, allVars, poolVars, Pool!vars
    <2> QED
        BY <2>1, <2>2
<1> QED
    BY <1>1, <1>2, PTL DEF AgentsSpec, NothingStartsAfterAbort, Conversing!NoToolAfterAbort,
                           Pool!NoStartAfterAbort
=============================================================================
