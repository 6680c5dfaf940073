---------------------------- MODULE CronScheduler ----------------------------
(***************************************************************************)
(* The cron scheduler (src/src/cron/scheduler.ts) over its directory of    *)
(* JSON files (src/src/cron/store.ts).                                     *)
(*                                                                         *)
(* The fibers are the running tick and the calls of users: tools, HTTP     *)
(* routes and the bootstrap service.  An action is the code between two    *)
(* awaits; the file behind save() and delete() changes in a step of its    *)
(* own, between the call and the continuation of its caller.               *)
(*                                                                         *)
(* A job keeps what decides its executions: status, nextRunAt, runCount    *)
(* and maxRuns.  Time is counted in minutes and a schedule fires every     *)
(* Period minutes.  runTick walks the live Map: todo is the set of entries *)
(* its iterator has not reached.                                           *)
(***************************************************************************)
EXTENDS Naturals, FiniteSets

CONSTANTS
    Jobs,          \* job ids
    Users,         \* calls that may be in progress at once
    Tick,          \* the fiber of runTick
    NoJob,         \* no job under that id
    Calls,         \* the calls users make, a subset of AllCalls
    Limits,        \* values of maxRuns at creation; 0 stands for null
    Period,        \* minutes between two slots of a schedule
    MaxTime,       \* bound: minutes
    MaxCalls,      \* bound: calls of users
    MaxCrashes,    \* bound: crashes of the process
    MaxSaveFaults  \* bound: calls of save() that fail

AllCalls == {"create", "pause", "resume", "edit", "remove", "list", "start", "stop"}

ASSUME TickIsNoUser == Tick \notin Users
ASSUME CallsKnown == Calls \subseteq AllCalls
ASSUME LimitsNat == Limits \subseteq Nat
ASSUME PeriodPositive == Period \in Nat \ {0}
ASSUME BoundsNat ==
    MaxTime \in Nat /\ MaxCalls \in Nat /\ MaxCrashes \in Nat /\ MaxSaveFaults \in Nat

VARIABLES
    jobs,        \* the Map in memory
    disk,        \* the files
    running,     \* the running flag
    todo,        \* entries the iteration of runTick has not reached
    tickTime,    \* the time runTick read when it began
    fiber,       \* what each fiber awaits, see Idle
    now,
    executions,  \* calls of onExecute for each job since it was created
    copied,      \* history: jobs executed while a user's call held a copy of them
    said,        \* the last call about a job, once it has finished
    halted,      \* stop() has resolved, and no start() since
    calls, crashes, faults

history == <<executions, said, halted>>
bounds == <<calls, crashes, faults>>
vars == <<jobs, disk, running, todo, tickTime, fiber, now, copied, history, bounds>>

Fibers == Users \cup {Tick}
Never == 0   \* nextRunAt = null

\* What a fiber is doing: the await it is at, the call, the job id, and the job
\* or the list of jobs it holds in local variables.
Idle == [at |-> "idle", call |-> "none", id |-> NoJob, job |-> NoJob, list |-> <<>>]
At(label, call, id, job) ==
    [at |-> label, call |-> call, id |-> id, job |-> job, list |-> <<>>]

\* A copy of a job that a call will write, to its file or into the map.
HoldsCopy(s, j) ==
    \/ s.at \in {"saving", "saved"} /\ s.id = j
    \/ s.at = "listing" /\ s.list[j] # NoJob
Copied(fibers) ==
    {j \in Jobs : /\ fibers[Tick].at # "idle" /\ fibers[Tick].id = j
                  /\ \E u \in Users : HoldsCopy(fibers[u], j)}

Goes(f, state) ==
    /\ fiber' = [fiber EXCEPT ![f] = state]
    /\ copied' = copied \cup Copied(fiber')

Init ==
    /\ jobs = [j \in Jobs |-> NoJob]
    /\ disk = [j \in Jobs |-> NoJob]
    /\ running = FALSE
    /\ todo = {}
    /\ tickTime = 0
    /\ fiber = [f \in Fibers |-> Idle]
    /\ now = 0
    /\ executions = [j \in Jobs |-> 0] /\ copied = {}
    /\ said = [j \in Jobs |-> "nothing"]
    /\ halted = FALSE
    /\ calls = 0 /\ crashes = 0 /\ faults = 0

-----------------------------------------------------------------------------
(* Jobs *)

\* computeNextRunAt: the first slot strictly after a time.
NextSlot(time) == (time \div Period + 1) * Period

\* Mutant: pausing a job sets the status only.
WithStatusOnly(job, status, time) == [job EXCEPT !.status = status]

\* update(): an active job gets a new next slot, any other has none.
WithStatus(job, status, time) ==
    [job EXCEPT !.status = status,
                !.next = IF status = "active" THEN NextSlot(time) ELSE Never]

NewJob(limit, time) ==
    [status |-> "active", next |-> NextSlot(time), runs |-> 0, max |-> limit]

\* isExecutionDue
Due(job, time) ==
    job # NoJob /\ job.status = "active" /\ job.next # Never /\ job.next <= time

\* Mutant: the last run writes the status word of the task table.
AfterRunComplete(job, time) ==
    LET counted == [job EXCEPT !.runs = @ + 1]
    IN  IF job.max # 0 /\ counted.runs >= job.max
        THEN WithStatus(counted, "complete", time)
        ELSE WithStatus(counted, "active", time)

\* executeJob after onExecute returned: completed by its last run, else next slot.
AfterRun(job, time) ==
    LET counted == [job EXCEPT !.runs = @ + 1]
    IN  IF job.max # 0 /\ counted.runs >= job.max
        THEN WithStatus(counted, "completed", time)
        ELSE WithStatus(counted, "active", time)

\* executeJob when onExecute throws or no next slot can be computed.
AfterFailure(job, time) ==
    WithStatus([job EXCEPT !.runs = @ + 1], "failed", time)

-----------------------------------------------------------------------------
(* The tick *)

Ticking == fiber[Tick].at # "idle"

\* runTick goes on over the entries T of the map js at time t: entries that are
\* not due are passed, a due one is executed, the end of the map ends the tick.
Continue(T, js, t) ==
    LET due == {j \in T : Due(js[j], t)}
    IN  \/ \E j \in due, passed \in SUBSET (T \ due) :
            /\ todo' = T \ (passed \cup {j})
            /\ Goes(Tick, At("executing", "tick", j, js[j]))
            /\ executions' = [executions EXCEPT ![j] = @ + 1]
        \/ /\ due = {}
           /\ todo' = {}
           /\ Goes(Tick, Idle)
           /\ UNCHANGED executions

Entries(js) == {j \in Jobs : js[j] # NoJob}

\* Mutant: only the minute of the slot itself counts as due.
TickBeginsOnSlot ==
    /\ running /\ ~Ticking
    /\ \E j \in Jobs : Due(jobs[j], now) /\ jobs[j].next = now
    /\ tickTime' = now
    /\ Continue(Entries(jobs), jobs, now)
    /\ UNCHANGED <<jobs, disk, running, now, said, halted, bounds>>

\* The interval fires; tickPromise keeps ticks from overlapping.
TickBegins ==
    /\ running /\ ~Ticking
    /\ \E j \in Jobs : Due(jobs[j], now)
    /\ tickTime' = now
    /\ Continue(Entries(jobs), jobs, now)
    /\ UNCHANGED <<jobs, disk, running, now, said, halted, bounds>>

\* Mutant: runCount is not incremented.
ExecuteUncounted ==
    /\ fiber[Tick].at = "executing"
    /\ Goes(Tick, [fiber[Tick] EXCEPT !.at = "saving",
            !.job = WithStatus(fiber[Tick].job, "active", tickTime)])
    /\ UNCHANGED <<jobs, disk, running, todo, tickTime, now, history, bounds>>

\* onExecute settles and save() is called with the job copied before it.
ExecuteSettles ==
    /\ fiber[Tick].at = "executing"
    /\ \E job \in {AfterRun(fiber[Tick].job, tickTime), AfterFailure(fiber[Tick].job, tickTime)} :
          Goes(Tick, [fiber[Tick] EXCEPT !.at = "saving", !.job = job])
    /\ UNCHANGED <<jobs, disk, running, todo, tickTime, now, history, bounds>>

\* jobs.set(id, next) whatever happened to the entry meanwhile, then the loop
\* goes on.  An entry deleted meanwhile is a new one, which the loop will reach.
TickSaved ==
    /\ fiber[Tick].at = "saved"
    /\ LET id == fiber[Tick].id
           js == [jobs EXCEPT ![id] = fiber[Tick].job]
       IN  /\ jobs' = js
           /\ Continue(IF jobs[id] = NoJob THEN todo \cup {id} ELSE todo, js, tickTime)
    /\ UNCHANGED <<disk, running, tickTime, now, said, halted, bounds>>

\* save() failed: the entry stays as it was.
TickSaveFails ==
    /\ fiber[Tick].at = "saving"
    /\ faults < MaxSaveFaults
    /\ faults' = faults + 1
    /\ Continue(todo, jobs, tickTime)
    /\ UNCHANGED <<jobs, disk, running, tickTime, now, said, halted, calls, crashes>>

-----------------------------------------------------------------------------
(* The store *)

\* Bun.write of the fiber that awaits save(); that of create() is a new job.
FileWritten(f) ==
    /\ fiber[f].at = "saving"
    /\ disk' = [disk EXCEPT ![fiber[f].id] = fiber[f].job]
    /\ Goes(f, [fiber[f] EXCEPT !.at = "saved"])
    /\ executions' = [executions EXCEPT
                        ![fiber[f].id] = IF fiber[f].call = "create" THEN 0 ELSE @]
    /\ UNCHANGED <<jobs, running, todo, tickTime, now, said, halted, bounds>>

\* save() failed under a call of a user, which returns the error.
SaveFails(u) ==
    /\ fiber[u].at = "saving"
    /\ faults < MaxSaveFaults
    /\ faults' = faults + 1
    /\ Goes(u, Idle)
    /\ UNCHANGED <<jobs, disk, running, todo, tickTime, now, history, calls, crashes>>

\* unlink of the file, also when there is none (ENOENT).
FileDeleted(u) ==
    /\ fiber[u].at = "deleting"
    /\ disk' = [disk EXCEPT ![fiber[u].id] = NoJob]
    /\ Goes(u, [fiber[u] EXCEPT !.at = "deleted"])
    /\ UNCHANGED <<jobs, running, todo, tickTime, now, history, bounds>>

-----------------------------------------------------------------------------
(* Calls of users *)

Called(u, call) ==
    /\ call \in Calls
    /\ fiber[u].at = "idle"
    /\ calls < MaxCalls
    /\ calls' = calls + 1

\* A call about a job begins: what was said of it before no longer counts.
CalledOn(u, call, id) == Called(u, call) /\ said' = [said EXCEPT ![id] = "nothing"]

\* What jobs.set does to an iteration in progress: a new entry will be reached.
Reaches(id) == IF Ticking /\ jobs[id] = NoJob THEN todo \cup {id} ELSE todo

\* create() with an id that is not in memory looks for its file.
Create(u, id) ==
    /\ CalledOn(u, "create", id)
    /\ jobs[id] = NoJob
    /\ Goes(u, At("checking", "create", id, NoJob))
    /\ UNCHANGED <<jobs, disk, running, todo, tickTime, now, executions, halted, crashes, faults>>

CreateChecked(u) ==
    /\ fiber[u].at = "checking"
    /\ \/ /\ disk[fiber[u].id] = NoJob
          /\ \E limit \in Limits :
                Goes(u, At("saving", "create", fiber[u].id, NewJob(limit, now)))
       \/ /\ disk[fiber[u].id] # NoJob
          /\ Goes(u, Idle)
    /\ UNCHANGED <<jobs, disk, running, todo, tickTime, now, history, bounds>>

\* The jobs update(call) may save when it finds a job; an edit may set maxRuns.
Updates(job, call) ==
    CASE call = "pause"  -> {WithStatus(job, "paused", now)}
      [] call = "resume" -> {WithStatus(job, "active", now)}
      [] call = "edit"   ->
            {WithStatus([job EXCEPT !.max = limit], job.status, now) :
                limit \in Limits \cup {job.max}}

UpdateCalls == {"pause", "resume", "edit"}

\* update() finds the job in memory, or has to read its file.
Update(u, id, call) ==
    /\ CalledOn(u, call, id)
    /\ call \in UpdateCalls
    /\ IF jobs[id] # NoJob
       THEN \E job \in Updates(jobs[id], call) : Goes(u, At("saving", call, id, job))
       ELSE Goes(u, At("fetching", call, id, NoJob))
    /\ UNCHANGED <<jobs, disk, running, todo, tickTime, now, executions, halted, crashes, faults>>

\* getRequiredJob puts the job it read into the map.
UpdateFetched(u) ==
    /\ fiber[u].at = "fetching"
    /\ LET id == fiber[u].id
       IN  \/ /\ disk[id] # NoJob
              /\ jobs' = [jobs EXCEPT ![id] = disk[id]]
              /\ todo' = Reaches(id)
              /\ \E job \in Updates(disk[id], fiber[u].call) :
                    Goes(u, At("saving", fiber[u].call, id, job))
           \/ /\ disk[id] = NoJob
              /\ Goes(u, Idle)
              /\ UNCHANGED <<jobs, todo>>
    /\ UNCHANGED <<disk, running, tickTime, now, history, bounds>>

\* create() and update() put the job they saved into the map and return.
Saved(u) ==
    /\ fiber[u].at = "saved"
    /\ jobs' = [jobs EXCEPT ![fiber[u].id] = fiber[u].job]
    /\ todo' = Reaches(fiber[u].id)
    /\ said' = [said EXCEPT ![fiber[u].id] = fiber[u].call]
    /\ Goes(u, Idle)
    /\ UNCHANGED <<disk, running, tickTime, now, executions, halted, bounds>>

Remove(u, id) ==
    /\ CalledOn(u, "remove", id)
    /\ Goes(u, At("deleting", "remove", id, NoJob))
    /\ UNCHANGED <<jobs, disk, running, todo, tickTime, now, executions, halted, crashes, faults>>

Removed(u) ==
    /\ fiber[u].at = "deleted"
    /\ jobs' = [jobs EXCEPT ![fiber[u].id] = NoJob]
    /\ todo' = todo \ {fiber[u].id}
    /\ said' = [said EXCEPT ![fiber[u].id] = "remove"]
    /\ Goes(u, Idle)
    /\ UNCHANGED <<disk, running, tickTime, now, executions, halted, bounds>>

\* listJobs() and start() read every file.
List(u, call) ==
    /\ Called(u, call)
    /\ call \in {"list", "start"}
    /\ call = "start" => ~running
    /\ Goes(u, [At("listing", call, NoJob, NoJob) EXCEPT !.list = disk])
    /\ halted' = (halted /\ call # "start")
    /\ UNCHANGED <<jobs, disk, running, todo, tickTime, now, executions, said, crashes, faults>>

\* ... then clear the map and fill it again; start() also arms the interval.
Listed(u) ==
    /\ fiber[u].at = "listing"
    /\ jobs' = fiber[u].list
    /\ todo' = IF Ticking THEN Entries(fiber[u].list) ELSE {}
    /\ running' = (running \/ fiber[u].call = "start")
    /\ halted' = (halted /\ fiber[u].call # "start")
    /\ Goes(u, Idle)
    /\ UNCHANGED <<disk, tickTime, now, executions, said, bounds>>

\* stop() clears the flag and the interval, and awaits a tick in progress.
Stop(u) ==
    /\ Called(u, "stop")
    /\ running' = FALSE
    /\ Goes(u, At("stopping", "stop", NoJob, NoJob))
    /\ UNCHANGED <<jobs, disk, todo, tickTime, now, history, crashes, faults>>

Starting == \E u \in Users : fiber[u].at = "listing" /\ fiber[u].call = "start"

\* Mutant: stop() does not await tickPromise.
StoppedAtOnce(u) ==
    /\ fiber[u].at = "stopping"
    /\ halted' = (~running /\ ~Starting)
    /\ Goes(u, Idle)
    /\ UNCHANGED <<jobs, disk, running, todo, tickTime, now, executions, said, bounds>>

Stopped(u) ==
    /\ fiber[u].at = "stopping"
    /\ ~Ticking
    /\ halted' = (~running /\ ~Starting)
    /\ Goes(u, Idle)
    /\ UNCHANGED <<jobs, disk, running, todo, tickTime, now, executions, said, bounds>>

-----------------------------------------------------------------------------
TimePasses ==
    /\ now < MaxTime
    /\ now' = now + 1
    /\ UNCHANGED <<jobs, disk, running, todo, tickTime, fiber, copied, history, bounds>>

\* The process dies; the files stay.
Crash ==
    /\ crashes < MaxCrashes
    /\ crashes' = crashes + 1
    /\ jobs' = [j \in Jobs |-> NoJob]
    /\ running' = FALSE
    /\ todo' = {}
    /\ tickTime' = 0
    /\ fiber' = [f \in Fibers |-> Idle]
    /\ halted' = FALSE
    /\ UNCHANGED <<disk, now, executions, copied, said, calls, faults>>

TickStep == TickBegins \/ ExecuteSettles \/ TickSaved \/ FileWritten(Tick)
UserStep(u) ==
    \/ CreateChecked(u) \/ UpdateFetched(u) \/ FileWritten(u) \/ Saved(u)
    \/ FileDeleted(u) \/ Removed(u) \/ Listed(u) \/ Stopped(u)
UserCalls(u) ==
    \/ \E id \in Jobs :
          Create(u, id) \/ Remove(u, id) \/ \E call \in UpdateCalls : Update(u, id, call)
    \/ List(u, "list") \/ List(u, "start") \/ Stop(u)

Next ==
    \/ TickStep \/ TickSaveFails
    \/ \E u \in Users : UserCalls(u) \/ UserStep(u) \/ SaveFails(u)
    \/ TimePasses \/ Crash

Spec == Init /\ [][Next]_vars

\* The interval keeps firing, onExecute settles, file operations end.
Fairness ==
    /\ WF_vars(TickStep)
    /\ \A u \in Users : WF_vars(UserStep(u))

FairSpec == Spec /\ Fairness

-----------------------------------------------------------------------------
(* Properties *)

JobType ==
    [status : {"active", "paused", "completed", "failed"},
     next : Nat, runs : Nat, max : Nat]
Maps == [Jobs -> JobType \cup {NoJob}]
ASSUME NoJobIsNone == NoJob \notin JobType

\* Types of the scheduler's fields, of its files and of its fibers' locals.
TypeOK ==
    /\ jobs \in Maps /\ disk \in Maps
    /\ running \in BOOLEAN /\ halted \in BOOLEAN
    /\ todo \subseteq Jobs
    /\ tickTime \in Nat /\ now \in Nat
    /\ fiber \in [Fibers ->
          [at : {"idle", "executing", "checking", "fetching", "saving", "saved",
                 "deleting", "deleted", "listing", "stopping"},
           call : AllCalls \cup {"none", "tick"},
           id : Jobs \cup {NoJob}, job : JobType \cup {NoJob},
           list : Maps \cup {<<>>}]]
    /\ executions \in [Jobs -> Nat] /\ copied \subseteq Jobs
    /\ said \in [Jobs -> AllCalls \cup {"nothing"}]
    /\ calls \in Nat /\ crashes \in Nat /\ faults \in Nat

Consistent(job) ==
    job # NoJob => (job.status = "active" <=> job.next # Never)

\* An active job always has a next slot and a job that is not active has none,
\* in memory and in every file: no order of ticks, updates, reloads and crashes
\* leaves a job that claims to be active and will never run.
NoDeadActiveJob == \A j \in Jobs : Consistent(jobs[j]) /\ Consistent(disk[j])

\* scheduler.test.ts "stop prevents further execution": once stop() has resolved
\* no job is executing or will be before the next start().
StopHolds == halted => ~running /\ ~Ticking

InProgress(j) == IF fiber[Tick].at \in {"executing", "saving"} /\ fiber[Tick].id = j THEN 1 ELSE 0

\* Every execution of a job since its creation shows in the runCount of its file, but
\* for the one in progress and for those whose process died or whose save failed
\* (at-least-once), whatever calls overlap, reload the map or take the job away: an
\* update, a reload or a new job under the id can undo the count only if it held a
\* copy of the job while the job was executed.
RunsAccounted ==
    \A j \in Jobs \ copied :
        disk[j] # NoJob =>
            executions[j] <= disk[j].runs + InProgress(j) + crashes + faults

\* A job that is due is executed or taken off the schedule while the scheduler
\* runs, whatever the other jobs do.
DueJobsRun ==
    \A j \in Jobs :
        (running /\ Due(jobs[j], now))
            ~> (~running \/ ~Due(jobs[j], now) \/ InProgress(j) = 1)

\* scheduler.test.ts "remove job": after remove() the job is gone.
RemovedStaysRemoved ==
    \A j \in Jobs : said[j] = "remove" => jobs[j] = NoJob /\ disk[j] = NoJob
=============================================================================
