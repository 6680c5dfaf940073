------------------------- MODULE CronSchedulerProofs -------------------------
(***************************************************************************)
(* Proofs about CronScheduler, for every set of jobs, users and calls and  *)
(* every bound.  The inductive invariant strengthens the type invariant in *)
(* one way: every job in the map, in a file, or held by a fiber across an  *)
(* await is consistent (active exactly when it has a next slot).           *)
(***************************************************************************)
EXTENDS MCCronScheduler, TLAPS

Statuses == {"active", "paused", "completed", "failed"}
GoodJobs == {job \in JobType : job.status = "active" <=> job.next # Never}
GoodMaps == [Jobs -> GoodJobs \cup {NoJob}]

\* What a fiber holds at each await.
FiberStates ==
    {s \in [at : {"idle", "executing", "checking", "fetching", "saving", "saved",
                  "deleting", "deleted", "listing", "stopping"},
            call : AllCalls \cup {"none", "tick"},
            id : Jobs \cup {NoJob}, job : JobType \cup {NoJob},
            list : Maps \cup {<<>>}] :
        /\ s.at \in {"executing", "saving", "saved"} =>
                s.id \in Jobs /\ s.job \in GoodJobs /\ s.call # "none"
        /\ s.at \in {"checking", "fetching", "deleting", "deleted"} => s.id \in Jobs
        /\ s.at = "fetching" => s.call \in UpdateCalls
        /\ s.at = "listing" => s.list \in GoodMaps}

UsersHold == \A u \in Users : fiber[u].call # "tick"

Stored == jobs \in GoodMaps /\ disk \in GoodMaps
Held == fiber \in [Fibers -> FiberStates] /\ UsersHold /\ copied \subseteq Jobs
Flags == running \in BOOLEAN /\ halted \in BOOLEAN
Times == todo \subseteq Jobs /\ tickTime \in Nat /\ now \in Nat
Counts ==
    /\ executions \in [Jobs -> Nat]
    /\ calls \in Nat /\ crashes \in Nat /\ faults \in Nat
Said == said \in [Jobs -> AllCalls \cup {"nothing"}]

Inv == Stored /\ Held /\ Flags /\ Times /\ Counts /\ Said

-----------------------------------------------------------------------------
LEMMA NextSlotNever ==
    ASSUME NEW t \in Nat PROVE NextSlot(t) \in Nat /\ NextSlot(t) # Never
<1>1. t \div Period \in Nat
  BY PeriodPositive
<1>2. \A a, b \in Nat : b # 0 => (a + 1) * b \in Nat /\ (a + 1) * b # 0
  OBVIOUS
<1> QED BY <1>1, <1>2, PeriodPositive DEF NextSlot, Never

LEMMA WithStatusGood ==
    ASSUME NEW job \in JobType, NEW status \in Statuses, NEW t \in Nat
    PROVE  WithStatus(job, status, t) \in GoodJobs
BY NextSlotNever DEF WithStatus, GoodJobs, JobType, Statuses, Never

LEMMA GoodIsJob == GoodJobs \subseteq JobType /\ GoodMaps \subseteq Maps
BY DEF GoodJobs, GoodMaps, Maps

\* What executeJob saves is consistent.
LEMMA AfterRunGood ==
    ASSUME NEW job \in JobType, NEW t \in Nat
    PROVE  AfterRun(job, t) \in GoodJobs /\ AfterFailure(job, t) \in GoodJobs
<1>1. [job EXCEPT !.runs = @ + 1] \in JobType
  BY DEF JobType
<1> QED BY <1>1, WithStatusGood DEF AfterRun, AfterFailure, Statuses

LEMMA NewJobGood ==
    ASSUME NEW limit \in Limits, NEW t \in Nat
    PROVE  NewJob(limit, t) \in GoodJobs
BY NextSlotNever, LimitsNat DEF NewJob, GoodJobs, JobType, Never

\* What update() saves is consistent.
LEMMA UpdatesGood ==
    ASSUME NEW job \in GoodJobs, NEW call \in UpdateCalls, now \in Nat
    PROVE  Updates(job, call) \subseteq GoodJobs
<1>1. job \in JobType /\ job.status \in Statuses /\ job.max \in Nat
  BY DEF GoodJobs, JobType, Statuses
<1>2. \A limit \in Limits \cup {job.max} : [job EXCEPT !.max = limit] \in JobType
  BY <1>1, LimitsNat DEF JobType
<1>3. CASE call = "pause"
  BY <1>1, <1>3, WithStatusGood DEF Updates, Statuses
<1>4. CASE call = "resume"
  BY <1>1, <1>4, WithStatusGood DEF Updates, Statuses
<1>5. CASE call = "edit"
  <2>1. \A limit \in Limits \cup {job.max} :
            WithStatus([job EXCEPT !.max = limit], job.status, now) \in GoodJobs
    BY <1>1, <1>2, WithStatusGood
  <2> QED BY <1>5, <2>1 DEF Updates
<1> QED BY <1>3, <1>4, <1>5 DEF UpdateCalls

\* An update keeps the count of runs.
LEMMA UpdatesKeepRuns ==
    ASSUME NEW job \in GoodJobs, NEW call \in UpdateCalls, NEW updated \in Updates(job, call)
    PROVE  updated.runs = job.runs
<1>1. job \in JobType
    BY DEF GoodJobs
<1>2. \A j \in JobType : \A status : WithStatus(j, status, now).runs = j.runs
    BY DEF WithStatus, JobType
<1>3. \A limit \in Limits \cup {job.max} :
          [job EXCEPT !.max = limit] \in JobType /\ [job EXCEPT !.max = limit].runs = job.runs
    BY <1>1, LimitsNat DEF JobType
<1>4. CASE call \in {"pause", "resume"}
    BY <1>1, <1>2, <1>4 DEF Updates
<1>5. CASE call = "edit"
    <2>1. PICK limit \in Limits \cup {job.max} :
              updated = WithStatus([job EXCEPT !.max = limit], job.status, now)
        BY <1>5 DEF Updates
    <2> QED
        BY <1>2, <1>3, <2>1
<1> QED
    BY <1>4, <1>5 DEF UpdateCalls

LEMMA IdleState == Idle \in FiberStates
BY DEF Idle, FiberStates

LEMMA HoldingState ==
    ASSUME NEW label \in {"executing", "saving", "saved"},
           NEW call \in AllCalls \cup {"tick"}, NEW id \in Jobs, NEW job \in GoodJobs
    PROVE  At(label, call, id, job) \in FiberStates
BY GoodIsJob DEF At, FiberStates, AllCalls

LEMMA WaitingState ==
    ASSUME NEW label \in {"checking", "deleting", "stopping", "fetching"},
           NEW call \in AllCalls, NEW id \in Jobs \cup {NoJob},
           label = "stopping" \/ id \in Jobs,
           label = "fetching" => call \in UpdateCalls
    PROVE  At(label, call, id, NoJob) \in FiberStates
BY DEF At, FiberStates, AllCalls

LEMMA ListingState ==
    ASSUME NEW call \in AllCalls, NEW list \in GoodMaps
    PROVE  [At("listing", call, NoJob, NoJob) EXCEPT !.list = list] \in FiberStates
BY GoodIsJob DEF At, FiberStates, AllCalls

LEMMA CopiedAreJobs == ASSUME NEW fibers PROVE Copied(fibers) \subseteq Jobs
BY DEF Copied

\* One fiber moves.
LEMMA UserGoes ==
    ASSUME Held, NEW u \in Users, NEW s \in FiberStates, Goes(u, s), s.call # "tick"
    PROVE  Held' /\ fiber'[Tick] = fiber[Tick]
BY TickIsNoUser, CopiedAreJobs DEF Held, UsersHold, Goes, Fibers

LEMMA TickGoes ==
    ASSUME Held, NEW s \in FiberStates, Goes(Tick, s)
    PROVE  Held' /\ fiber'[Tick] = s
BY TickIsNoUser, CopiedAreJobs DEF Held, UsersHold, Goes, Fibers

LEMMA ContinueTyped ==
    ASSUME Held, executions \in [Jobs -> Nat], NEW T \in SUBSET Jobs, NEW js \in GoodMaps,
           NEW t \in Nat, Continue(T, js, t)
    PROVE  Held' /\ todo' \subseteq Jobs /\ executions' \in [Jobs -> Nat]
<1> DEFINE due == {j \in T : Due(js[j], t)}
<1>1. CASE \E j \in due, passed \in SUBSET (T \ due) :
            /\ todo' = T \ (passed \cup {j})
            /\ Goes(Tick, At("executing", "tick", j, js[j]))
            /\ executions' = [executions EXCEPT ![j] = @ + 1]
  <2>1. PICK j \in due : /\ todo' \subseteq T
                         /\ Goes(Tick, At("executing", "tick", j, js[j]))
                         /\ executions' = [executions EXCEPT ![j] = @ + 1]
    BY <1>1
  <2>2. j \in Jobs /\ js[j] \in GoodJobs
    BY <2>1 DEF Due, GoodMaps
  <2>3. At("executing", "tick", j, js[j]) \in FiberStates
    BY <2>2, HoldingState
  <2> QED BY <2>1, <2>2, <2>3, TickGoes
<1>2. CASE due = {} /\ todo' = {} /\ Goes(Tick, Idle) /\ UNCHANGED executions
  BY <1>2, IdleState, TickGoes
<1> QED BY <1>1, <1>2 DEF Continue

LEMMA MapSet ==
    ASSUME NEW m \in GoodMaps, NEW id \in Jobs, NEW job \in GoodJobs \cup {NoJob}
    PROVE  [m EXCEPT ![id] = job] \in GoodMaps
BY DEF GoodMaps

LEMMA HeldState ==
    ASSUME Held, NEW f \in Fibers
    PROVE  /\ fiber[f] \in FiberStates
           /\ fiber[f].at \in {"executing", "saving", "saved"} =>
                    /\ fiber[f].id \in Jobs /\ fiber[f].job \in GoodJobs
                    /\ fiber[f].call # "none"
           /\ fiber[f].at \in {"checking", "fetching", "deleting", "deleted"} => fiber[f].id \in Jobs
           /\ fiber[f].at = "fetching" => fiber[f].call \in UpdateCalls
           /\ fiber[f].at = "listing" => fiber[f].list \in GoodMaps
BY DEF Held, FiberStates

LEMMA RelabelledState ==
    ASSUME NEW s \in FiberStates
    PROVE  /\ s.at = "saving" => [s EXCEPT !.at = "saved"] \in FiberStates
           /\ s.at = "deleting" => [s EXCEPT !.at = "deleted"] \in FiberStates
           /\ \A label : [s EXCEPT !.at = label].call = s.call
<1>1. s.at = "saving" => [s EXCEPT !.at = "saved"] \in FiberStates
  BY DEF FiberStates
<1>2. s.at = "deleting" => [s EXCEPT !.at = "deleted"] \in FiberStates
  BY DEF FiberStates
<1>3. \A label : [s EXCEPT !.at = label].call = s.call
  BY DEF FiberStates
<1> QED BY <1>1, <1>2, <1>3

-----------------------------------------------------------------------------
(* One lemma per action. *)

LEMMA InitInv == Init => Inv
<1> SUFFICES ASSUME Init PROVE Inv
  OBVIOUS
<1>1. Stored
  BY DEF Init, Stored, GoodMaps
<1>2. Held
  <2>1. \A f \in Fibers : fiber[f] = Idle
    BY DEF Init
  <2>2. UsersHold
    BY <2>1 DEF UsersHold, Idle, Fibers
  <2> QED BY <2>2, IdleState DEF Init, Held
<1>3. Flags /\ Times /\ Counts /\ Said
  BY DEF Init, Flags, Times, Counts, Said
<1> QED BY <1>1, <1>2, <1>3 DEF Inv

LEMMA TickBeginsInv == Inv /\ TickBegins => Inv'
<1> SUFFICES ASSUME Inv, TickBegins PROVE Inv'
  OBVIOUS
<1>1. Entries(jobs) \in SUBSET Jobs
  BY DEF Entries
<1>2. Held' /\ todo' \subseteq Jobs /\ executions' \in [Jobs -> Nat]
  BY <1>1, ContinueTyped DEF TickBegins, Inv, Stored, Counts, Times
<1>3. Stored' /\ Flags'
  BY DEF TickBegins, Inv, Stored, Flags
<1>4. Times' /\ Counts' /\ Said'
  BY <1>2 DEF TickBegins, Inv, Times, Counts, Said, bounds
<1> QED BY <1>2, <1>3, <1>4 DEF Inv

LEMMA ExecuteSettlesInv == Inv /\ ExecuteSettles => Inv'
<1> SUFFICES ASSUME Inv, ExecuteSettles PROVE Inv'
  OBVIOUS
<1> DEFINE s == fiber[Tick]
<1>1. s \in FiberStates /\ s.at = "executing" /\ s.id \in Jobs /\ s.job \in GoodJobs /\ s.call # "none"
  BY HeldState DEF Inv, Fibers, ExecuteSettles
<1>2. PICK job \in {AfterRun(s.job, tickTime), AfterFailure(s.job, tickTime)} :
          Goes(Tick, [s EXCEPT !.at = "saving", !.job = job])
  BY DEF ExecuteSettles
<1>3. job \in GoodJobs
  BY <1>1, <1>2, AfterRunGood, GoodIsJob DEF Inv, Times
<1>4. [s EXCEPT !.at = "saving", !.job = job] \in FiberStates
  BY <1>1, <1>3, GoodIsJob DEF FiberStates
<1>5. Held'
  BY <1>2, <1>4, TickGoes DEF Inv
<1>6. Stored' /\ Flags' /\ Times' /\ Counts' /\ Said'
  BY DEF ExecuteSettles, Inv, Stored, Flags, Times, Counts, Said, history, bounds
<1> QED BY <1>5, <1>6 DEF Inv

LEMMA TickSavedInv == Inv /\ TickSaved => Inv'
<1> SUFFICES ASSUME Inv, TickSaved PROVE Inv'
  OBVIOUS
<1> DEFINE id == fiber[Tick].id
           js == [jobs EXCEPT ![id] = fiber[Tick].job]
           T == IF jobs[id] = NoJob THEN todo \cup {id} ELSE todo
<1>1. id \in Jobs /\ fiber[Tick].job \in GoodJobs
  BY HeldState DEF Inv, Fibers, TickSaved
<1>2. js \in GoodMaps
  BY <1>1, MapSet DEF Inv, Stored
<1>3. T \in SUBSET Jobs
  BY <1>1 DEF Inv, Times
<1>4. jobs' = js /\ Continue(T, js, tickTime)
  BY DEF TickSaved
<1> HIDE DEF id, js, T
<1>5. Held' /\ todo' \subseteq Jobs /\ executions' \in [Jobs -> Nat]
  BY <1>2, <1>3, <1>4, ContinueTyped DEF Inv, Counts, Times
<1>6. Stored' /\ Flags'
  BY <1>2, <1>4 DEF TickSaved, Inv, Stored, Flags
<1>7. Times' /\ Counts' /\ Said'
  BY <1>5 DEF TickSaved, Inv, Times, Counts, Said, bounds
<1> QED BY <1>5, <1>6, <1>7 DEF Inv

LEMMA TickSaveFailsInv == Inv /\ TickSaveFails => Inv'
<1> SUFFICES ASSUME Inv, TickSaveFails PROVE Inv'
  OBVIOUS
<1>1. Held' /\ todo' \subseteq Jobs /\ executions' \in [Jobs -> Nat]
  BY ContinueTyped DEF TickSaveFails, Inv, Stored, Counts, Times
<1>2. Stored' /\ Flags'
  BY DEF TickSaveFails, Inv, Stored, Flags
<1>3. Times' /\ Counts' /\ Said'
  BY <1>1 DEF TickSaveFails, Inv, Times, Counts, Said
<1> QED BY <1>1, <1>2, <1>3 DEF Inv

\* The fiber that saves is the tick or a user.
LEMMA FileWrittenInv == ASSUME NEW f \in Fibers PROVE Inv /\ FileWritten(f) => Inv'
<1> SUFFICES ASSUME Inv, FileWritten(f) PROVE Inv'
  OBVIOUS
<1>1. fiber[f] \in FiberStates /\ fiber[f].id \in Jobs /\ fiber[f].job \in GoodJobs
  BY HeldState DEF Inv, FileWritten
<1>2. [fiber[f] EXCEPT !.at = "saved"] \in FiberStates
      /\ [fiber[f] EXCEPT !.at = "saved"].call = fiber[f].call
  BY <1>1, RelabelledState DEF FileWritten
<1>3. Held'
  <2>1. CASE f = Tick
    BY <1>2, <2>1, TickGoes DEF Inv, FileWritten
  <2>2. CASE f \in Users
    <3>1. fiber[f].call # "tick"
      BY <2>2 DEF Inv, Held, UsersHold
    <3> QED BY <1>2, <2>2, <3>1, UserGoes DEF Inv, FileWritten
  <2> QED BY <2>1, <2>2 DEF Fibers
<1>4. disk' \in GoodMaps
  BY <1>1, MapSet DEF Inv, Stored, FileWritten
<1>5. Stored' /\ Flags' /\ Times' /\ Counts' /\ Said'
  BY <1>4 DEF FileWritten, Inv, Stored, Flags, Times, Counts, Said, history, bounds
<1> QED BY <1>3, <1>5 DEF Inv

LEMMA IdleUser ==
    ASSUME Held, NEW u \in Users, Goes(u, Idle)
    PROVE  Held'
BY IdleState, UserGoes DEF Idle

LEMMA SaveFailsInv == ASSUME NEW u \in Users PROVE Inv /\ SaveFails(u) => Inv'
<1> SUFFICES ASSUME Inv, SaveFails(u) PROVE Inv'
  OBVIOUS
<1>1. Held'
  BY IdleUser DEF Inv, SaveFails
<1>2. Stored' /\ Flags' /\ Times' /\ Counts' /\ Said'
  BY DEF SaveFails, Inv, Stored, Flags, Times, Counts, Said, history
<1> QED BY <1>1, <1>2 DEF Inv

LEMMA FileDeletedInv == ASSUME NEW u \in Users PROVE Inv /\ FileDeleted(u) => Inv'
<1> SUFFICES ASSUME Inv, FileDeleted(u) PROVE Inv'
  OBVIOUS
<1>1. fiber[u] \in FiberStates /\ fiber[u].id \in Jobs /\ fiber[u].call # "tick"
  BY HeldState DEF Inv, FileDeleted, Held, UsersHold, Fibers
<1>2. [fiber[u] EXCEPT !.at = "deleted"] \in FiberStates
      /\ [fiber[u] EXCEPT !.at = "deleted"].call = fiber[u].call
  BY <1>1, RelabelledState DEF FileDeleted
<1>3. Held'
  BY <1>1, <1>2, UserGoes DEF Inv, FileDeleted
<1>4. disk' \in GoodMaps
  BY <1>1, MapSet DEF Inv, Stored, FileDeleted
<1>5. Stored' /\ Flags' /\ Times' /\ Counts' /\ Said'
  BY <1>4 DEF FileDeleted, Inv, Stored, Flags, Times, Counts, Said, history, bounds
<1> QED BY <1>3, <1>5 DEF Inv

\* The counters and notes of a call about a job.
LEMMA CalledOnKeeps ==
    ASSUME Inv, NEW u \in Users, NEW id \in Jobs, NEW call, CalledOn(u, call, id)
    PROVE  calls' \in Nat /\ Said' /\ call \in AllCalls
BY CallsKnown DEF CalledOn, Called, Inv, Counts, Said

LEMMA CreateInv == ASSUME NEW u \in Users, NEW id \in Jobs PROVE Inv /\ Create(u, id) => Inv'
<1> SUFFICES ASSUME Inv, Create(u, id) PROVE Inv'
  OBVIOUS
<1>1. calls' \in Nat /\ Said'
  BY CalledOnKeeps DEF Create
<1>2. At("checking", "create", id, NoJob) \in FiberStates
  BY WaitingState DEF AllCalls
<1>3. Held'
  BY <1>2, UserGoes DEF Inv, Create, At
<1>4. Stored' /\ Flags' /\ Times' /\ Counts'
  BY <1>1 DEF Create, Inv, Stored, Flags, Times, Counts
<1> QED BY <1>1, <1>3, <1>4 DEF Inv

LEMMA CreateCheckedInv == ASSUME NEW u \in Users PROVE Inv /\ CreateChecked(u) => Inv'
<1> SUFFICES ASSUME Inv, CreateChecked(u) PROVE Inv'
  OBVIOUS
<1>1. fiber[u].id \in Jobs
  BY HeldState DEF Inv, CreateChecked, Fibers
<1>2. Held'
  <2>1. CASE Goes(u, Idle)
    BY <2>1, IdleUser DEF Inv
  <2>2. ASSUME NEW limit \in Limits, Goes(u, At("saving", "create", fiber[u].id, NewJob(limit, now)))
        PROVE  Held'
    <3>1. NewJob(limit, now) \in GoodJobs
      BY NewJobGood DEF Inv, Times
    <3>2. At("saving", "create", fiber[u].id, NewJob(limit, now)) \in FiberStates
      BY <1>1, <3>1, HoldingState DEF AllCalls
    <3> QED BY <2>2, <3>2, UserGoes DEF Inv, At
  <2> QED BY <2>1, <2>2 DEF CreateChecked
<1>3. Stored' /\ Flags' /\ Times' /\ Counts' /\ Said'
  BY DEF CreateChecked, Inv, Stored, Flags, Times, Counts, Said, history, bounds
<1> QED BY <1>2, <1>3 DEF Inv

LEMMA UpdateInv ==
    ASSUME NEW u \in Users, NEW id \in Jobs, NEW call \in UpdateCalls
    PROVE  Inv /\ Update(u, id, call) => Inv'
<1> SUFFICES ASSUME Inv, Update(u, id, call) PROVE Inv'
  OBVIOUS
<1>1. calls' \in Nat /\ Said'
  BY CalledOnKeeps DEF Update
<1>2. call \in AllCalls /\ call # "tick"
  BY DEF UpdateCalls, AllCalls
<1>3. Held'
  <2>1. ASSUME jobs[id] # NoJob, NEW job \in Updates(jobs[id], call),
               Goes(u, At("saving", call, id, job))
        PROVE  Held'
    <3>1. job \in GoodJobs
      BY <2>1, UpdatesGood DEF Inv, Stored, GoodMaps, Times
    <3>2. At("saving", call, id, job) \in FiberStates
      BY <1>2, <3>1, HoldingState
    <3> QED BY <1>2, <2>1, <3>2, UserGoes DEF Inv, At
  <2>2. CASE Goes(u, At("fetching", call, id, NoJob))
    <3>1. At("fetching", call, id, NoJob) \in FiberStates
      BY <1>2, WaitingState
    <3> QED BY <1>2, <2>2, <3>1, UserGoes DEF Inv, At
  <2> QED BY <2>1, <2>2 DEF Update
<1>4. Stored' /\ Flags' /\ Times' /\ Counts'
  BY <1>1 DEF Update, Inv, Stored, Flags, Times, Counts
<1> QED BY <1>1, <1>3, <1>4 DEF Inv

LEMMA UpdateFetchedInv == ASSUME NEW u \in Users PROVE Inv /\ UpdateFetched(u) => Inv'
<1> SUFFICES ASSUME Inv, UpdateFetched(u) PROVE Inv'
  OBVIOUS
<1> DEFINE id == fiber[u].id
           call == fiber[u].call
<1>1. id \in Jobs /\ call \in UpdateCalls
  BY HeldState DEF Inv, UpdateFetched, Fibers
<1>2. call \in AllCalls /\ call # "tick"
  BY <1>1 DEF UpdateCalls, AllCalls
<1>3. Stored' /\ Held' /\ todo' \subseteq Jobs
  <2>1. ASSUME disk[id] # NoJob, jobs' = [jobs EXCEPT ![id] = disk[id]], todo' = Reaches(id),
               NEW job \in Updates(disk[id], call), Goes(u, At("saving", call, id, job)), disk' = disk
        PROVE  Stored' /\ Held' /\ todo' \subseteq Jobs
    <3>1. disk[id] \in GoodJobs
      BY <1>1, <2>1 DEF Inv, Stored, GoodMaps
    <3>2. job \in GoodJobs
      BY <1>1, <2>1, <3>1, UpdatesGood DEF Inv, Times
    <3>3. At("saving", call, id, job) \in FiberStates
      BY <1>1, <1>2, <3>2, HoldingState
    <3>4. Held'
      BY <1>2, <2>1, <3>3, UserGoes DEF Inv, At
    <3>5. Stored'
      BY <1>1, <2>1, <3>1, MapSet DEF Inv, Stored
    <3>6. todo' \subseteq Jobs
      BY <1>1, <2>1 DEF Inv, Times, Reaches
    <3> QED BY <3>4, <3>5, <3>6
  <2>2. CASE Goes(u, Idle) /\ UNCHANGED <<jobs, todo, disk>>
    BY <2>2, IdleUser DEF Inv, Stored, Times
  <2> QED BY <2>1, <2>2 DEF UpdateFetched
<1>4. Flags' /\ Times' /\ Counts' /\ Said'
  BY <1>3 DEF UpdateFetched, Inv, Flags, Times, Counts, Said, history, bounds
<1> QED BY <1>3, <1>4 DEF Inv

LEMMA SavedInv == ASSUME NEW u \in Users PROVE Inv /\ Saved(u) => Inv'
<1> SUFFICES ASSUME Inv, Saved(u) PROVE Inv'
  OBVIOUS
<1>1. fiber[u].id \in Jobs /\ fiber[u].job \in GoodJobs /\ fiber[u].call # "none"
  BY HeldState DEF Inv, Saved, Fibers
<1>2. fiber[u].call \in AllCalls
  BY <1>1, HeldState DEF Inv, Held, UsersHold, FiberStates, Fibers
<1>3. Held'
  BY IdleUser DEF Inv, Saved
<1>4. Stored'
  BY <1>1, MapSet DEF Inv, Stored, Saved
<1>5. todo' \subseteq Jobs
  BY <1>1 DEF Inv, Times, Saved, Reaches
<1>6. Said'
  BY <1>1, <1>2 DEF Inv, Said, Saved
<1>7. Flags' /\ Times' /\ Counts'
  BY <1>5 DEF Saved, Inv, Flags, Times, Counts, bounds
<1> QED BY <1>3, <1>4, <1>6, <1>7 DEF Inv

LEMMA RemoveInv == ASSUME NEW u \in Users, NEW id \in Jobs PROVE Inv /\ Remove(u, id) => Inv'
<1> SUFFICES ASSUME Inv, Remove(u, id) PROVE Inv'
  OBVIOUS
<1>1. calls' \in Nat /\ Said'
  BY CalledOnKeeps DEF Remove
<1>2. At("deleting", "remove", id, NoJob) \in FiberStates
  BY WaitingState DEF AllCalls
<1>3. Held'
  BY <1>2, UserGoes DEF Inv, Remove, At
<1>4. Stored' /\ Flags' /\ Times' /\ Counts'
  BY <1>1 DEF Remove, Inv, Stored, Flags, Times, Counts
<1> QED BY <1>1, <1>3, <1>4 DEF Inv

LEMMA RemovedInv == ASSUME NEW u \in Users PROVE Inv /\ Removed(u) => Inv'
<1> SUFFICES ASSUME Inv, Removed(u) PROVE Inv'
  OBVIOUS
<1>1. fiber[u].id \in Jobs
  BY HeldState DEF Inv, Removed, Fibers
<1>2. Held'
  BY IdleUser DEF Inv, Removed
<1>3. Stored'
  BY <1>1, MapSet DEF Inv, Stored, Removed
<1>4. Said'
  BY <1>1 DEF Inv, Said, Removed, AllCalls
<1>5. Flags' /\ Times' /\ Counts'
  BY DEF Removed, Inv, Flags, Times, Counts, bounds
<1> QED BY <1>2, <1>3, <1>4, <1>5 DEF Inv

LEMMA ListInv == ASSUME NEW u \in Users, NEW call PROVE Inv /\ List(u, call) => Inv'
<1> SUFFICES ASSUME Inv, List(u, call) PROVE Inv'
  OBVIOUS
<1>1. call \in {"list", "start"} /\ calls' \in Nat
  BY DEF List, Called, Inv, Counts
<1>2. [At("listing", call, NoJob, NoJob) EXCEPT !.list = disk] \in FiberStates
  BY <1>1, ListingState DEF Inv, Stored, AllCalls
<1>3. Held'
  BY <1>1, <1>2, UserGoes DEF Inv, List, At
<1>4. halted' \in BOOLEAN
  BY DEF List
<1>5. Flags'
  BY <1>4 DEF List, Inv, Flags
<1>6. Stored' /\ Times' /\ Counts' /\ Said'
  BY <1>1 DEF List, Inv, Stored, Times, Counts, Said
<1> QED BY <1>3, <1>5, <1>6 DEF Inv

LEMMA ListedInv == ASSUME NEW u \in Users PROVE Inv /\ Listed(u) => Inv'
<1> SUFFICES ASSUME Inv, Listed(u) PROVE Inv'
  OBVIOUS
<1>1. fiber[u].list \in GoodMaps
  BY HeldState DEF Inv, Listed, Fibers
<1>2. Held'
  BY IdleUser DEF Inv, Listed
<1>3. running' \in BOOLEAN /\ halted' \in BOOLEAN
  BY DEF Listed
<1>4. todo' \subseteq Jobs
  BY DEF Listed, Entries
<1>5. Stored'
  BY <1>1 DEF Listed, Inv, Stored
<1>6. Flags'
  BY <1>3 DEF Flags
<1>7. Times' /\ Counts' /\ Said'
  BY <1>4 DEF Listed, Inv, Times, Counts, Said, bounds
<1> QED BY <1>2, <1>5, <1>6, <1>7 DEF Inv

LEMMA StopInv == ASSUME NEW u \in Users PROVE Inv /\ Stop(u) => Inv'
<1> SUFFICES ASSUME Inv, Stop(u) PROVE Inv'
  OBVIOUS
<1>1. At("stopping", "stop", NoJob, NoJob) \in FiberStates
  BY WaitingState DEF AllCalls
<1>2. Held'
  BY <1>1, UserGoes DEF Inv, Stop, At
<1>3. Flags'
  BY DEF Stop, Inv, Flags, history
<1>4. Stored' /\ Times' /\ Counts' /\ Said'
  BY DEF Stop, Called, Inv, Stored, Times, Counts, Said, history
<1> QED BY <1>2, <1>3, <1>4 DEF Inv

LEMMA StoppedInv == ASSUME NEW u \in Users PROVE Inv /\ Stopped(u) => Inv'
<1> SUFFICES ASSUME Inv, Stopped(u) PROVE Inv'
  OBVIOUS
<1>1. Held'
  BY IdleUser DEF Inv, Stopped
<1>2. halted' \in BOOLEAN
  BY DEF Stopped
<1>3. Flags'
  BY <1>2 DEF Stopped, Inv, Flags
<1>4. Stored' /\ Times' /\ Counts' /\ Said'
  BY DEF Stopped, Inv, Stored, Times, Counts, Said, bounds
<1> QED BY <1>1, <1>3, <1>4 DEF Inv

LEMMA TimeInv == Inv /\ (TimePasses \/ UNCHANGED vars) => Inv'
<1>1. Inv /\ TimePasses => Inv'
  <2> SUFFICES ASSUME Inv, TimePasses PROVE Inv'
    OBVIOUS
  <2>1. Stored' /\ Held'
    BY DEF TimePasses, Inv, Stored, Held, UsersHold
  <2>2. Flags' /\ Times' /\ Counts' /\ Said'
    BY DEF TimePasses, Inv, Flags, Times, Counts, Said, history, bounds
  <2> QED BY <2>1, <2>2 DEF Inv
<1>2. Inv /\ UNCHANGED vars => Inv'
  BY DEF vars, history, bounds, Inv, Stored, Held, UsersHold, Flags, Times, Counts, Said
<1> QED BY <1>1, <1>2

LEMMA CrashInv == Inv /\ Crash => Inv'
<1> SUFFICES ASSUME Inv, Crash PROVE Inv'
  OBVIOUS
<1>1. Stored'
  BY DEF Crash, Inv, Stored, GoodMaps
<1>2. Held'
  <2>1. \A f \in Fibers : fiber'[f] = Idle
    BY DEF Crash
  <2>2. UsersHold'
    BY <2>1 DEF UsersHold, Idle, Fibers
  <2> QED BY <2>2, IdleState DEF Crash, Held, Inv
<1>3. Flags'
  BY DEF Crash, Flags
<1>4. Times' /\ Counts' /\ Said'
  BY DEF Crash, Inv, Times, Counts, Said
<1> QED BY <1>1, <1>2, <1>3, <1>4 DEF Inv

-----------------------------------------------------------------------------
LEMMA NextInv == Inv /\ [Next]_vars => Inv'
<1>1. \A f \in Fibers : Inv /\ FileWritten(f) => Inv'
  BY FileWrittenInv
<1>2. Inv /\ (TickStep \/ TickSaveFails) => Inv'
  BY <1>1, TickBeginsInv, ExecuteSettlesInv, TickSavedInv, TickSaveFailsInv DEF TickStep, Fibers
<1>3. ASSUME NEW u \in Users PROVE Inv /\ (UserStep(u) \/ SaveFails(u)) => Inv'
  BY <1>1, CreateCheckedInv, UpdateFetchedInv, SavedInv, FileDeletedInv, RemovedInv,
     ListedInv, StoppedInv, SaveFailsInv DEF UserStep, Fibers
<1>4. ASSUME NEW u \in Users PROVE Inv /\ UserCalls(u) => Inv'
  BY CreateInv, RemoveInv, UpdateInv, ListInv, StopInv DEF UserCalls
<1> QED BY <1>2, <1>3, <1>4, TimeInv, CrashInv DEF Next

LEMMA InvHolds == Spec => []Inv
BY InitInv, NextInv, PTL DEF Spec

LEMMA InvTypes == Inv => TypeOK
<1> SUFFICES ASSUME Inv PROVE TypeOK
  OBVIOUS
<1>1. jobs \in Maps /\ disk \in Maps
  BY GoodIsJob DEF Inv, Stored
<1>2. FiberStates \subseteq
        [at : {"idle", "executing", "checking", "fetching", "saving", "saved",
               "deleting", "deleted", "listing", "stopping"},
         call : AllCalls \cup {"none", "tick"},
         id : Jobs \cup {NoJob}, job : JobType \cup {NoJob},
         list : Maps \cup {<<>>}]
  BY DEF FiberStates
<1>3. fiber \in [Fibers ->
        [at : {"idle", "executing", "checking", "fetching", "saving", "saved",
               "deleting", "deleted", "listing", "stopping"},
         call : AllCalls \cup {"none", "tick"},
         id : Jobs \cup {NoJob}, job : JobType \cup {NoJob},
         list : Maps \cup {<<>>}]]
  BY <1>2 DEF Inv, Held
<1>4. copied \subseteq Jobs
  BY DEF Inv, Held
<1> QED BY <1>1, <1>3, <1>4 DEF TypeOK, Inv, Flags, Times, Counts, Said

\* The scheduler's fields, its files and the locals of its fibers keep their types.
THEOREM TypeCorrect == Spec => []TypeOK
BY InvTypes, InvHolds, PTL

\* No order of ticks, updates, reloads, crashes and failed writes leaves an active
\* job without a next slot, or a slot on a job that is not active.
THEOREM NoDeadActiveJobHolds == Spec => []NoDeadActiveJob
<1>1. Inv => NoDeadActiveJob
  BY DEF Inv, Stored, GoodMaps, GoodJobs, NoDeadActiveJob, Consistent
<1> QED BY <1>1, InvHolds, PTL

-----------------------------------------------------------------------------
\* A step of a user leaves the tick alone, and a halted scheduler has no tick.
LEMMA StopStep == Inv /\ StopHolds /\ [Next]_vars => StopHolds'
<1> SUFFICES ASSUME Inv, StopHolds, [Next]_vars PROVE StopHolds'
  OBVIOUS
<1> USE DEF StopHolds, Ticking
<1>1. CASE TickStep \/ TickSaveFails
  <2>1. CASE TickBegins
    BY <2>1 DEF TickBegins
  <2>2. CASE ExecuteSettles
    BY <2>2 DEF ExecuteSettles, history
  <2>3. CASE TickSaved
    BY <2>3 DEF TickSaved
  <2>4. CASE TickSaveFails
    BY <2>4 DEF TickSaveFails
  <2>5. CASE FileWritten(Tick)
    BY <2>5 DEF FileWritten, history
  <2> QED BY <1>1, <2>1, <2>2, <2>3, <2>4, <2>5 DEF TickStep
<1>2. ASSUME NEW u \in Users, NEW s, Goes(u, s) PROVE fiber'[Tick] = fiber[Tick]
  BY <1>2, TickIsNoUser DEF Goes, Inv, Held, Fibers
<1>3. ASSUME NEW u \in Users, UserStep(u) \/ SaveFails(u) PROVE StopHolds'
  <2>1. CASE CreateChecked(u)
    BY <1>2, <2>1 DEF CreateChecked, history
  <2>2. CASE UpdateFetched(u)
    BY <1>2, <2>2 DEF UpdateFetched, history
  <2>3. CASE FileWritten(u)
    BY <1>2, <2>3 DEF FileWritten, history
  <2>4. CASE Saved(u)
    BY <1>2, <2>4 DEF Saved
  <2>5. CASE FileDeleted(u)
    BY <1>2, <2>5 DEF FileDeleted, history
  <2>6. CASE Removed(u)
    BY <1>2, <2>6 DEF Removed
  <2>7. CASE Listed(u)
    BY <1>2, <2>7 DEF Listed
  <2>8. CASE Stopped(u)
    BY <1>2, <2>8 DEF Stopped
  <2>9. CASE SaveFails(u)
    BY <1>2, <2>9 DEF SaveFails, history
  <2> QED BY <1>3, <2>1, <2>2, <2>3, <2>4, <2>5, <2>6, <2>7, <2>8, <2>9 DEF UserStep
<1>4. ASSUME NEW u \in Users, UserCalls(u) PROVE StopHolds'
  <2>1. ASSUME NEW id \in Jobs, Create(u, id) PROVE StopHolds'
    BY <1>2, <2>1 DEF Create
  <2>2. ASSUME NEW id \in Jobs, Remove(u, id) PROVE StopHolds'
    BY <1>2, <2>2 DEF Remove
  <2>3. ASSUME NEW id \in Jobs, NEW call \in UpdateCalls, Update(u, id, call) PROVE StopHolds'
    BY <1>2, <2>3 DEF Update
  <2>4. ASSUME NEW call, List(u, call) PROVE StopHolds'
    BY <1>2, <2>4 DEF List
  <2>5. CASE Stop(u)
    BY <1>2, <2>5 DEF Stop, history
  <2> QED BY <1>4, <2>1, <2>2, <2>3, <2>4, <2>5 DEF UserCalls
<1>5. CASE TimePasses \/ UNCHANGED vars
  BY <1>5 DEF TimePasses, vars, history
<1>6. CASE Crash
  BY <1>6 DEF Crash
<1> QED BY <1>1, <1>3, <1>4, <1>5, <1>6 DEF Next

\* Once stop() has resolved nothing executes before the next start(), for any
\* number of jobs and of overlapping start() and stop() calls.
THEOREM StopHoldsAlways == Spec => []StopHolds
<1>1. Init => StopHolds
  BY DEF Init, StopHolds
<1> QED BY <1>1, InvHolds, StopStep, PTL DEF Spec

-----------------------------------------------------------------------------
(* Executions and the counts of runs: for a job that was never executed    *)
(* while a call held a copy of it, no copy -- in a file, in the map, with  *)
(* a call or with the tick -- is behind the executions by more than the    *)
(* one in progress and those that a crash or a failed save lost.  A copy   *)
(* that create() has not yet written is that of a job still to come.       *)

Counted(j, runs) == executions[j] <= runs + crashes + faults
Under(j) == IF fiber[Tick].at # "idle" /\ fiber[Tick].id = j THEN 1 ELSE 0

TickAt ==
    /\ fiber[Tick].at \in {"idle", "executing", "saving", "saved"}
    /\ fiber[Tick].at # "idle" => fiber[Tick].call = "tick"
TickCounted ==
    fiber[Tick].at # "idle" /\ fiber[Tick].id \notin copied =>
        Counted(fiber[Tick].id,
                IF fiber[Tick].at = "executing" THEN fiber[Tick].job.runs + 1 ELSE fiber[Tick].job.runs)
UserCounted(u) ==
    \A j \in Jobs \ copied :
        /\ fiber[u].at \in {"saving", "saved"} /\ fiber[u].id = j =>
               (fiber[u].at = "saving" /\ fiber[u].call = "create") \/ Counted(j, fiber[u].job.runs)
        /\ fiber[u].at = "listing" /\ fiber[u].list[j] # NoJob => Counted(j, fiber[u].list[j].runs)
StoredCounted ==
    \A j \in Jobs \ copied :
        /\ jobs[j] # NoJob => Counted(j, jobs[j].runs + Under(j))
        /\ disk[j] # NoJob => Counted(j, disk[j].runs + InProgress(j))
\* Nobody holds a copy of what the tick executes.
Apart == Copied(fiber) \subseteq copied

Runs == TickAt /\ TickCounted /\ (\A u \in Users : UserCounted(u)) /\ StoredCounted /\ Apart
RunsInv == Inv /\ Runs

LEMMA RunsInitInv == Init => RunsInv
<1> SUFFICES ASSUME Init PROVE RunsInv
    OBVIOUS
<1>1. Inv
    BY InitInv
<1>2. \A f \in Fibers : fiber[f].at = "idle"
    BY DEF Init, Idle
<1>3. TickAt /\ TickCounted /\ Apart
    BY <1>2 DEF TickAt, TickCounted, Apart, Copied, Fibers
<1>4. \A u \in Users : UserCounted(u)
    BY <1>2 DEF UserCounted, Fibers
<1>5. StoredCounted
    BY DEF Init, StoredCounted
<1> QED
    BY <1>1, <1>3, <1>4, <1>5 DEF RunsInv, Runs

\* The numbers and jobs the invariant compares.
LEMMA RunsTypes ==
    ASSUME Inv
    PROVE  /\ crashes \in Nat /\ faults \in Nat
           /\ \A j \in Jobs : executions[j] \in Nat /\ InProgress(j) \in {0, 1} /\ Under(j) \in {0, 1}
           /\ \A j \in Jobs : InProgress(j) <= Under(j)
           /\ \A j \in Jobs : jobs[j] # NoJob => jobs[j] \in GoodJobs /\ jobs[j].runs \in Nat
           /\ \A j \in Jobs : disk[j] # NoJob => disk[j] \in GoodJobs /\ disk[j].runs \in Nat
           /\ \A f \in Fibers : fiber[f].at \in {"executing", "saving", "saved"} =>
                  fiber[f].id \in Jobs /\ fiber[f].job \in GoodJobs /\ fiber[f].job.runs \in Nat /\ fiber[f].job # NoJob
           /\ \A f \in Fibers : fiber[f].at \in {"checking", "fetching"} => fiber[f].id \in Jobs
           /\ \A f \in Fibers : fiber[f].at = "listing" =>
                  \A j \in Jobs : fiber[f].list[j] # NoJob => fiber[f].list[j].runs \in Nat
<1>1. \A job \in GoodJobs : job.runs \in Nat /\ job # NoJob
    BY NoJobIsNone DEF GoodJobs, JobType
<1>2. \A j \in Jobs : InProgress(j) \in {0, 1} /\ Under(j) \in {0, 1} /\ InProgress(j) <= Under(j)
    BY DEF InProgress, Under
<1>3. \A f \in Fibers : fiber[f].at = "listing" =>
          \A j \in Jobs : fiber[f].list[j] # NoJob => fiber[f].list[j].runs \in Nat
    BY <1>1, HeldState DEF Inv, GoodMaps
<1>4. \A f \in Fibers : fiber[f].at \in {"executing", "saving", "saved"} =>
          fiber[f].id \in Jobs /\ fiber[f].job \in GoodJobs
    BY HeldState DEF Inv
<1>5. \A f \in Fibers : fiber[f].at \in {"checking", "fetching"} => fiber[f].id \in Jobs
    BY HeldState DEF Inv
<1> QED
    BY <1>1, <1>2, <1>3, <1>4, <1>5 DEF Inv, Stored, GoodMaps, Counts

\* What Goes says of the fibers and of the jobs that were copied.
LEMMA RunsGoes ==
    ASSUME Inv, NEW f \in Fibers, NEW s, Goes(f, s)
    PROVE  /\ fiber'[f] = s /\ \A g \in Fibers \ {f} : fiber'[g] = fiber[g]
           /\ copied \subseteq copied' /\ Copied(fiber)' \subseteq copied'
           /\ Apart'
<1>1. copied' = copied \cup Copied(fiber')
    BY DEF Goes
<1>2. Copied(fiber)' = Copied(fiber')
    BY DEF Copied, HoldsCopy
<1> QED
    BY <1>1, <1>2 DEF Goes, Inv, Held, Apart

\* The iteration goes on, with every job it may execute counted.
LEMMA RunsContinue ==
    ASSUME RunsInv, Inv', NEW T \in SUBSET Jobs, NEW t \in Nat, Continue(T, jobs', t),
           UNCHANGED disk, crashes' = crashes, faults' \in {faults, faults + 1},
           \A j \in Jobs \ copied :
               /\ jobs'[j] # NoJob => executions[j] <= jobs'[j].runs + crashes' + faults'
               /\ disk[j] # NoJob => executions[j] <= disk[j].runs + crashes' + faults'
    PROVE  Runs'
<1> DEFINE due == {j \in T : Due(jobs'[j], t)}
<1>0. /\ fiber \in [Fibers -> FiberStates] /\ Tick \in Fibers /\ Users \subseteq Fibers \ {Tick}
      /\ executions \in [Jobs -> Nat]
    BY TickIsNoUser DEF RunsInv, Inv, Held, Fibers, Counts
<1>a. /\ crashes \in Nat /\ faults \in Nat /\ crashes' \in Nat /\ faults' \in Nat
      /\ \A i \in Jobs : jobs'[i] # NoJob => jobs'[i].runs \in Nat
      /\ \A i \in Jobs : disk'[i] # NoJob => disk'[i].runs \in Nat
    <2>1. \A job \in GoodJobs : job.runs \in Nat
        BY DEF GoodJobs, JobType
    <2> QED
        BY <2>1 DEF RunsInv, Inv, Stored, GoodMaps, Counts
<1>1. ASSUME NEW j \in due,
             Goes(Tick, At("executing", "tick", j, jobs'[j])),
             executions' = [executions EXCEPT ![j] = @ + 1]
      PROVE  Runs'
    <2>1. j \in Jobs /\ jobs'[j] # NoJob
        BY DEF Due
    <2>2. /\ fiber'[Tick] = At("executing", "tick", j, jobs'[j])
          /\ \A u \in Users : fiber'[u] = fiber[u]
          /\ copied \subseteq copied' /\ Copied(fiber)' \subseteq copied' /\ Apart'
        BY <1>0, <1>1, RunsGoes DEF RunsInv
    <2>3. /\ fiber'[Tick].at = "executing" /\ fiber'[Tick].call = "tick"
          /\ fiber'[Tick].id = j /\ fiber'[Tick].job = jobs'[j]
        BY <2>2 DEF At
    <2>4. /\ executions'[j] = executions[j] + 1
          /\ \A i \in Jobs \ {j} : executions'[i] = executions[i]
        BY <1>0, <1>1, <2>1
    <2>5. /\ InProgress(j)' = 1 /\ Under(j)' = 1
          /\ \A i \in Jobs \ {j} : InProgress(i)' = 0 /\ Under(i)' = 0
        BY <2>3 DEF InProgress, Under
    <2>6. TickAt' /\ TickCounted'
        BY <1>0, <1>a, <2>1, <2>2, <2>3, <2>4 DEF TickAt, TickCounted, Counted
    <2>7. ASSUME NEW u \in Users PROVE UserCounted(u)'
        <3>1. \A i \in Jobs \ copied' : i = j => ~HoldsCopy(fiber[u], i)
            BY <2>1, <2>2, <2>3 DEF Copied
        <3> SUFFICES ASSUME NEW i \in Jobs \ copied'
                     PROVE  /\ fiber[u].at \in {"saving", "saved"} /\ fiber[u].id = i =>
                                   \/ fiber[u].at = "saving" /\ fiber[u].call = "create"
                                   \/ executions'[i] <= fiber[u].job.runs + crashes' + faults'
                            /\ fiber[u].at = "listing" /\ fiber[u].list[i] # NoJob =>
                                   executions'[i] <= fiber[u].list[i].runs + crashes' + faults'
            BY <2>2 DEF UserCounted, Counted
        <3>2. CASE i = j
            BY <3>1, <3>2 DEF HoldsCopy
        <3>3. CASE i # j
            <4>1. executions'[i] = executions[i] /\ i \in Jobs \ copied /\ UserCounted(u)
                BY <2>2, <2>4, <3>3 DEF RunsInv, Runs
            <4> QED
                BY <1>0, <1>a, <4>1, RunsTypes DEF UserCounted, Counted, RunsInv
        <3> QED
            BY <3>2, <3>3
    <2>8. StoredCounted'
        <3> SUFFICES ASSUME NEW i \in Jobs \ copied'
                     PROVE  /\ jobs'[i] # NoJob =>
                                  executions'[i] <= jobs'[i].runs + Under(i)' + crashes' + faults'
                            /\ disk'[i] # NoJob =>
                                  executions'[i] <= disk'[i].runs + InProgress(i)' + crashes' + faults'
            BY DEF StoredCounted, Counted
        <3>1. i \in Jobs \ copied
            BY <2>2
        <3>2. CASE i = j
            BY <1>0, <1>a, <2>1, <2>4, <2>5, <3>1, <3>2
        <3>3. CASE i # j
            BY <1>0, <1>a, <2>4, <2>5, <3>1, <3>3
        <3> QED
            BY <3>2, <3>3
    <2> QED
        BY <2>2, <2>6, <2>7, <2>8 DEF Runs
<1>2. CASE Goes(Tick, Idle) /\ UNCHANGED executions
    <2>1. /\ fiber'[Tick] = Idle /\ \A u \in Users : fiber'[u] = fiber[u]
          /\ copied \subseteq copied' /\ Apart'
        BY <1>0, <1>2, RunsGoes DEF RunsInv
    <2>2. fiber'[Tick].at = "idle" /\ \A i \in Jobs : InProgress(i)' = 0 /\ Under(i)' = 0
        BY <2>1 DEF Idle, InProgress, Under
    <2>3. StoredCounted'
        BY <1>0, <1>2, <1>a, <2>1, <2>2 DEF StoredCounted, Counted
    <2>4. ASSUME NEW u \in Users PROVE UserCounted(u)'
        BY <1>0, <1>2, <1>a, <2>1, RunsTypes DEF UserCounted, Counted, RunsInv, Runs
    <2> QED
        BY <2>1, <2>2, <2>3, <2>4 DEF Runs, TickAt, TickCounted
<1> QED
    BY <1>1, <1>2 DEF Continue

LEMMA RunsTickBegins == ASSUME RunsInv, Inv', TickBegins PROVE Runs'
<1>1. /\ ~Ticking /\ Entries(jobs) \in SUBSET Jobs /\ now \in Nat
      /\ Continue(Entries(jobs), jobs', now) /\ UNCHANGED <<jobs, disk, crashes, faults>>
    BY DEF TickBegins, bounds, Entries, RunsInv, Inv, Times
<1>2. \A j \in Jobs : InProgress(j) = 0 /\ Under(j) = 0
    BY <1>1 DEF InProgress, Under, Ticking
<1>3. \A j \in Jobs \ copied :
          /\ jobs'[j] # NoJob => executions[j] <= jobs'[j].runs + crashes' + faults'
          /\ disk[j] # NoJob => executions[j] <= disk[j].runs + crashes' + faults'
    BY <1>1, <1>2, RunsTypes DEF RunsInv, Runs, StoredCounted, Counted
<1> QED
    BY <1>1, <1>3, RunsContinue

LEMMA RunsTickSaved == ASSUME RunsInv, Inv', TickSaved PROVE Runs'
<1> DEFINE id == fiber[Tick].id
           job == fiber[Tick].job
           T == IF jobs[id] = NoJob THEN todo \cup {id} ELSE todo
<1>1. /\ fiber[Tick].at = "saved" /\ id \in Jobs /\ job # NoJob /\ job.runs \in Nat
      /\ jobs' = [jobs EXCEPT ![id] = job] /\ UNCHANGED <<disk, crashes, faults>>
      /\ Continue(T, jobs', tickTime) /\ T \in SUBSET Jobs /\ tickTime \in Nat
    BY RunsTypes DEF TickSaved, bounds, RunsInv, Inv, Times, Fibers
<1> HIDE DEF T
<1>2. jobs'[id] = job /\ \A j \in Jobs \ {id} : jobs'[j] = jobs[j]
    BY <1>1 DEF RunsInv, Inv, Stored, GoodMaps
<1>3. /\ \A j \in Jobs : InProgress(j) = 0
      /\ \A j \in Jobs \ {id} : Under(j) = 0
    BY <1>1 DEF InProgress, Under
<1>4. id \notin copied => executions[id] <= job.runs + crashes + faults
    BY <1>1 DEF RunsInv, Runs, TickCounted, Counted
<1>5. \A j \in Jobs \ copied :
          /\ jobs'[j] # NoJob => executions[j] <= jobs'[j].runs + crashes' + faults'
          /\ disk[j] # NoJob => executions[j] <= disk[j].runs + crashes' + faults'
    <2> SUFFICES ASSUME NEW j \in Jobs \ copied
                 PROVE  /\ jobs'[j] # NoJob => executions[j] <= jobs'[j].runs + crashes + faults
                        /\ disk[j] # NoJob => executions[j] <= disk[j].runs + crashes + faults
        BY <1>1
    <2>1. disk[j] # NoJob => executions[j] <= disk[j].runs + crashes + faults
        BY <1>3, RunsTypes DEF RunsInv, Runs, StoredCounted, Counted
    <2>2. CASE j = id
        BY <1>2, <1>4, <2>1, <2>2
    <2>3. CASE j # id
        BY <1>2, <1>3, <2>1, <2>3, RunsTypes DEF RunsInv, Runs, StoredCounted, Counted
    <2> QED
        BY <2>2, <2>3
<1> QED
    BY <1>1, <1>5, RunsContinue

LEMMA RunsTickSaveFails == ASSUME RunsInv, Inv', TickSaveFails PROVE Runs'
<1>1. /\ fiber[Tick].at = "saving" /\ faults' = faults + 1 /\ Continue(todo, jobs', tickTime)
      /\ UNCHANGED <<jobs, disk, crashes>> /\ todo \in SUBSET Jobs /\ tickTime \in Nat
    BY DEF TickSaveFails, RunsInv, Inv, Times
<1>2. \A j \in Jobs \ copied :
          /\ jobs'[j] # NoJob => executions[j] <= jobs'[j].runs + crashes' + faults'
          /\ disk[j] # NoJob => executions[j] <= disk[j].runs + crashes' + faults'
    BY <1>1, RunsTypes DEF RunsInv, Runs, StoredCounted, Counted
<1> QED
    BY <1>1, <1>2, RunsContinue

LEMMA RunsSettles == ASSUME RunsInv, Inv', ExecuteSettles PROVE Runs'
<1> DEFINE s == fiber[Tick]
<1>1. /\ s.at = "executing" /\ s.job \in GoodJobs /\ s.id \in Jobs /\ s.job.runs \in Nat
      /\ UNCHANGED <<jobs, disk, executions, crashes, faults>>
    BY RunsTypes DEF ExecuteSettles, history, bounds, RunsInv, Fibers
<1>2. PICK job \in {AfterRun(s.job, tickTime), AfterFailure(s.job, tickTime)} :
          Goes(Tick, [s EXCEPT !.at = "saving", !.job = job])
    BY DEF ExecuteSettles
<1>3. job.runs = s.job.runs + 1
    BY <1>1, <1>2 DEF AfterRun, AfterFailure, WithStatus, GoodJobs, JobType
<1>4. /\ fiber \in [Fibers -> FiberStates] /\ Tick \in Fibers /\ Users \subseteq Fibers \ {Tick}
    BY TickIsNoUser DEF RunsInv, Inv, Held, Fibers
<1>5. /\ fiber'[Tick] = [s EXCEPT !.at = "saving", !.job = job]
      /\ \A u \in Users : fiber'[u] = fiber[u]
      /\ copied \subseteq copied' /\ Apart'
    BY <1>2, <1>4, RunsGoes DEF RunsInv
<1>6. /\ fiber'[Tick].at = "saving" /\ fiber'[Tick].id = s.id /\ fiber'[Tick].job = job
      /\ fiber'[Tick].call = s.call
    BY <1>4, <1>5 DEF FiberStates
<1>7. \A j \in Jobs : InProgress(j)' = InProgress(j) /\ Under(j)' = Under(j)
    BY <1>1, <1>6 DEF InProgress, Under
<1>8. TickAt' /\ TickCounted'
    BY <1>1, <1>3, <1>5, <1>6 DEF RunsInv, Runs, TickAt, TickCounted, Counted
<1>9. \A u \in Users : UserCounted(u)'
    BY <1>1, <1>5 DEF RunsInv, Runs, UserCounted, Counted
<1>10. StoredCounted'
    BY <1>1, <1>5, <1>7 DEF RunsInv, Runs, StoredCounted, Counted
<1> QED
    BY <1>5, <1>8, <1>9, <1>10 DEF Runs

\* A write of the tick or of a call: no file falls behind, and a new job begins at 0.
LEMMA RunsFileWritten ==
    ASSUME RunsInv, Inv', NEW f \in Fibers, FileWritten(f)
    PROVE  Runs'
<1> DEFINE id == fiber[f].id
           job == fiber[f].job
           new == fiber[f].call = "create"
<1>1. /\ fiber[f].at = "saving" /\ disk' = [disk EXCEPT ![id] = job]
      /\ Goes(f, [fiber[f] EXCEPT !.at = "saved"])
      /\ executions' = [executions EXCEPT ![id] = IF new THEN 0 ELSE @]
      /\ UNCHANGED <<jobs, crashes, faults>>
    BY DEF FileWritten, bounds
<1>2. /\ id \in Jobs /\ job # NoJob /\ job.runs \in Nat /\ executions \in [Jobs -> Nat]
      /\ fiber \in [Fibers -> FiberStates] /\ Tick \in Fibers /\ Users \subseteq Fibers \ {Tick}
    BY <1>1, RunsTypes, TickIsNoUser DEF RunsInv, Inv, Held, Fibers, Counts
<1>3. /\ disk'[id] = job /\ \A j \in Jobs \ {id} : disk'[j] = disk[j]
      /\ fiber'[f].at = "saved" /\ fiber'[f].id = id /\ fiber'[f].job = job
      /\ fiber'[f].call = fiber[f].call
      /\ \A g \in Fibers \ {f} : fiber'[g] = fiber[g]
      /\ copied \subseteq copied' /\ Apart'
    BY <1>1, <1>2, RunsGoes DEF RunsInv, Inv, Stored, GoodMaps, FiberStates
<1>4. /\ \A j \in Jobs : Under(j)' = Under(j)
      /\ \A j \in Jobs : j # id => InProgress(j)' = InProgress(j)
      /\ InProgress(id)' \in {0, 1}
    BY <1>1, <1>2, <1>3 DEF InProgress, Under
<1>5. /\ \A j \in Jobs : executions'[j] \in Nat /\ executions'[j] <= executions[j]
      /\ new => executions'[id] = 0
    BY <1>1, <1>2
<1>6. id \notin copied' => executions'[id] <= job.runs + crashes + faults
    <2>1. CASE new
        BY <1>2, <1>5, <2>1, RunsTypes DEF RunsInv
    <2>2. CASE ~new /\ f = Tick
        BY <1>1, <1>2, <1>3, <1>5, <2>2, RunsTypes DEF RunsInv, Runs, TickCounted, Counted
    <2>3. CASE ~new /\ f \in Users
        BY <1>1, <1>2, <1>3, <1>5, <2>3, RunsTypes DEF RunsInv, Runs, UserCounted, Counted
    <2> QED
        BY <2>1, <2>2, <2>3 DEF Fibers
<1>7. StoredCounted'
    <2> SUFFICES ASSUME NEW j \in Jobs \ copied'
                 PROVE  /\ jobs[j] # NoJob => executions'[j] <= jobs[j].runs + Under(j) + crashes + faults
                        /\ disk'[j] # NoJob =>
                              executions'[j] <= disk'[j].runs + InProgress(j)' + crashes + faults
        BY <1>1, <1>4 DEF StoredCounted, Counted
    <2>1. j \in Jobs \ copied
        BY <1>3
    <2>2. jobs[j] # NoJob => executions'[j] <= jobs[j].runs + Under(j) + crashes + faults
        BY <1>2, <1>5, <2>1, RunsTypes DEF RunsInv, Runs, StoredCounted, Counted
    <2>3. CASE j = id
        BY <1>2, <1>3, <1>4, <1>5, <1>6, <2>2, <2>3, RunsTypes DEF RunsInv
    <2>4. CASE j # id
        BY <1>2, <1>3, <1>4, <1>5, <2>1, <2>2, <2>4, RunsTypes DEF RunsInv, Runs, StoredCounted, Counted
    <2> QED
        BY <2>3, <2>4
<1>8. TickAt' /\ TickCounted'
    <2>1. CASE f = Tick
        BY <1>1, <1>2, <1>3, <1>6, <2>1 DEF RunsInv, Runs, TickAt, TickCounted, Counted
    <2>2. CASE f # Tick
        <3>1. fiber'[Tick] = fiber[Tick] /\ fiber[Tick].at # "idle" => fiber[Tick].id \in Jobs
            BY <1>2, <1>3, <2>2, RunsTypes DEF RunsInv, Runs, TickAt
        <3>2. fiber'[Tick] = fiber[Tick]
            BY <1>2, <1>3, <2>2
        <3>3. fiber[Tick].at # "idle" => fiber[Tick].job.runs \in Nat
            BY <1>2, RunsTypes DEF RunsInv, Runs, TickAt
        <3> QED
            BY <1>1, <1>2, <1>3, <1>5, <3>1, <3>2, <3>3, RunsTypes DEF RunsInv, Runs, TickAt, TickCounted, Counted
    <2> QED
        BY <2>1, <2>2
<1>9. ASSUME NEW u \in Users PROVE UserCounted(u)'
    <2> SUFFICES ASSUME NEW j \in Jobs \ copied'
                 PROVE  /\ fiber'[u].at \in {"saving", "saved"} /\ fiber'[u].id = j =>
                               \/ fiber'[u].at = "saving" /\ fiber'[u].call = "create"
                               \/ executions'[j] <= fiber'[u].job.runs + crashes + faults
                        /\ fiber'[u].at = "listing" /\ fiber'[u].list[j] # NoJob =>
                               executions'[j] <= fiber'[u].list[j].runs + crashes + faults
        BY <1>1 DEF UserCounted, Counted
    <2>1. CASE u = f
        BY <1>3, <1>6, <2>1
    <2>2. CASE u # f
        <3>1. fiber'[u] = fiber[u] /\ j \in Jobs \ copied /\ UserCounted(u)
            BY <1>2, <1>3, <2>2 DEF RunsInv, Runs
        <3> QED
            BY <1>2, <1>5, <3>1, RunsTypes DEF RunsInv, UserCounted, Counted
    <2> QED
        BY <2>1, <2>2
<1> QED
    BY <1>3, <1>7, <1>8, <1>9 DEF Runs

\* A call moves, and no execution begins or is counted: what it holds afterwards is to
\* be counted, and what it puts into the map or takes out of a file.
LEMMA RunsUserMoves ==
    ASSUME RunsInv, Inv', NEW u \in Users, NEW s, Goes(u, s),
           UNCHANGED <<executions, crashes>>, faults' \in {faults, faults + 1},
           \A j \in Jobs \ copied :
               /\ jobs'[j] # NoJob => Counted(j, jobs'[j].runs + Under(j))
               /\ disk'[j] # NoJob => Counted(j, disk'[j].runs + InProgress(j)),
           \A j \in Jobs \ copied' :
               /\ s.at \in {"saving", "saved"} /\ s.id = j =>
                      (s.at = "saving" /\ s.call = "create") \/ Counted(j, s.job.runs)
               /\ s.at = "listing" /\ s.list[j] # NoJob => Counted(j, s.list[j].runs)
    PROVE  Runs'
<1>1. /\ u \in Fibers /\ Tick \in Fibers /\ u # Tick /\ Users \subseteq Fibers \ {Tick}
    BY TickIsNoUser DEF Fibers
<1>2. /\ fiber'[u] = s /\ \A g \in Fibers \ {u} : fiber'[g] = fiber[g]
      /\ copied \subseteq copied' /\ Apart'
    BY <1>1, RunsGoes DEF RunsInv
<1>3. fiber'[Tick] = fiber[Tick]
      /\ \A j \in Jobs : InProgress(j)' = InProgress(j) /\ Under(j)' = Under(j)
    BY <1>1, <1>2 DEF InProgress, Under
<1>4. /\ crashes \in Nat /\ faults \in Nat /\ faults' \in Nat /\ faults <= faults'
      /\ crashes' = crashes /\ executions' = executions
      /\ \A j \in Jobs : executions[j] \in Nat /\ Under(j) \in Nat /\ InProgress(j) \in Nat
    BY RunsTypes DEF RunsInv
\* What was counted stays so when a save has failed.
<1>5. \A j \in Jobs, n \in Nat : Counted(j, n) => Counted(j, n)'
    BY <1>4 DEF Counted
<1>6. TickAt' /\ TickCounted'
    <2>1. fiber[Tick].at # "idle" => fiber[Tick].id \in Jobs /\ fiber[Tick].job.runs \in Nat
        BY <1>1, RunsTypes DEF RunsInv, Runs, TickAt
    <2> QED
        BY <1>2, <1>3, <1>4, <2>1 DEF RunsInv, Runs, TickAt, TickCounted, Counted
<1>7. StoredCounted'
    <2>1. /\ \A j \in Jobs : jobs'[j] # NoJob => jobs'[j].runs \in Nat
          /\ \A j \in Jobs : disk'[j] # NoJob => disk'[j].runs \in Nat
        <3>1. \A job \in GoodJobs : job.runs \in Nat
            BY DEF GoodJobs, JobType
        <3> QED
            BY <3>1 DEF Inv, Stored, GoodMaps
    <2> QED
        BY <1>2, <1>3, <1>4, <2>1 DEF StoredCounted, Counted
<1>8. ASSUME NEW v \in Users PROVE UserCounted(v)'
    <2> SUFFICES ASSUME NEW j \in Jobs \ copied'
                 PROVE  /\ fiber'[v].at \in {"saving", "saved"} /\ fiber'[v].id = j =>
                               \/ fiber'[v].at = "saving" /\ fiber'[v].call = "create"
                               \/ executions[j] <= fiber'[v].job.runs + crashes + faults'
                        /\ fiber'[v].at = "listing" /\ fiber'[v].list[j] # NoJob =>
                               executions[j] <= fiber'[v].list[j].runs + crashes + faults'
        BY <1>4 DEF UserCounted, Counted
    <2>1. /\ fiber'[v].at \in {"saving", "saved"} => fiber'[v].job.runs \in Nat
          /\ fiber'[v].at = "listing" /\ fiber'[v].list[j] # NoJob => fiber'[v].list[j].runs \in Nat
        <3>1. \A job \in GoodJobs : job.runs \in Nat
            BY DEF GoodJobs, JobType
        <3>2. fiber'[v] \in FiberStates
            BY <1>1 DEF Inv, Held
        <3> QED
            BY <3>1, <3>2 DEF FiberStates, GoodMaps
    <2>2. CASE v = u
        BY <1>2, <1>4, <2>1, <2>2 DEF Counted
    <2>3. CASE v # u
        <3>1. fiber'[v] = fiber[v] /\ j \in Jobs \ copied /\ UserCounted(v)
            BY <1>1, <1>2, <2>3 DEF RunsInv, Runs
        <3> QED
            BY <1>4, <2>1, <3>1 DEF UserCounted, Counted
    <2> QED
        BY <2>2, <2>3
<1> QED
    BY <1>2, <1>6, <1>7, <1>8 DEF Runs

\* A call that holds a copy of a job the tick has in hand makes it a copied one.
LEMMA CopiesAreSeen ==
    ASSUME RunsInv, NEW u \in Users, NEW s, Goes(u, s), NEW j \in Jobs \ copied', HoldsCopy(s, j)
    PROVE  Under(j) = 0 /\ InProgress(j) = 0
<1>1. u \in Fibers /\ Tick \in Fibers /\ u # Tick
    BY TickIsNoUser DEF Fibers
<1>2. fiber'[u] = s /\ fiber'[Tick] = fiber[Tick] /\ Copied(fiber)' \subseteq copied'
    BY <1>1, RunsGoes DEF RunsInv
<1>3. ~(fiber[Tick].at # "idle" /\ fiber[Tick].id = j)
    BY <1>2 DEF Copied
<1> QED
    BY <1>3 DEF Under, InProgress

LEMMA RunsUserCalls == ASSUME RunsInv, Inv', NEW u \in Users, UserCalls(u) PROVE Runs'
<1>1. /\ UNCHANGED <<jobs, disk, executions, crashes, faults>>
    BY DEF UserCalls, Create, Remove, Update, List, Stop, history
<1>2. \A j \in Jobs \ copied :
          /\ jobs'[j] # NoJob => Counted(j, jobs'[j].runs + Under(j))
          /\ disk'[j] # NoJob => Counted(j, disk'[j].runs + InProgress(j))
    BY <1>1 DEF RunsInv, Runs, StoredCounted
<1>3. ASSUME NEW s, Goes(u, s), s.at \in {"checking", "deleting", "fetching", "stopping"} PROVE Runs'
    BY <1>1, <1>2, <1>3, RunsUserMoves
<1>4. ASSUME NEW id \in Jobs, Create(u, id) PROVE Runs'
    BY <1>3, <1>4 DEF Create, At
<1>5. ASSUME NEW id \in Jobs, Remove(u, id) PROVE Runs'
    BY <1>3, <1>5 DEF Remove, At
<1>6. CASE Stop(u)
    BY <1>3, <1>6 DEF Stop, At
<1>7. ASSUME NEW id \in Jobs, NEW call \in UpdateCalls, Update(u, id, call) PROVE Runs'
    <2>1. CASE Goes(u, At("fetching", call, id, NoJob))
        BY <1>3, <2>1 DEF At
    <2>2. ASSUME jobs[id] # NoJob, NEW job \in Updates(jobs[id], call),
                 Goes(u, At("saving", call, id, job))
          PROVE  Runs'
        <3> DEFINE s == At("saving", call, id, job)
        <3>1. s.at = "saving" /\ s.id = id /\ s.job = job /\ Goes(u, s)
            BY <2>2 DEF At
        <3>2. job.runs = jobs[id].runs /\ jobs[id].runs \in Nat
            BY <1>7, <2>2, RunsTypes, UpdatesKeepRuns DEF RunsInv
        <3>3. ASSUME id \notin copied' PROVE Counted(id, job.runs)
            <4>1. HoldsCopy(s, id) /\ id \in Jobs \ copied'
                BY <3>1, <3>3 DEF HoldsCopy
            <4>2. Under(id) = 0 /\ id \in Jobs \ copied
                BY <2>2, <4>1, CopiesAreSeen, RunsGoes DEF RunsInv, Fibers
            <4> QED
                BY <1>1, <1>2, <2>2, <3>2, <4>2
        <3> HIDE DEF s
        <3> QED
            BY <1>1, <1>2, <2>2, <3>1, <3>3, RunsUserMoves
    <2> QED
        BY <1>7, <2>1, <2>2 DEF Update
<1>8. ASSUME NEW call, List(u, call) PROVE Runs'
    <2> DEFINE s == [At("listing", call, NoJob, NoJob) EXCEPT !.list = disk]
    <2>1. Goes(u, s) /\ s.at = "listing" /\ s.list = disk
        BY <1>8 DEF List, At
    <2> HIDE DEF s
    <2>2. ASSUME NEW j \in Jobs \ copied', disk[j] # NoJob PROVE Counted(j, disk[j].runs)
        <3>1. HoldsCopy(s, j)
            BY <2>1, <2>2 DEF HoldsCopy
        <3>2. InProgress(j) = 0 /\ j \in Jobs \ copied
            BY <2>1, <2>2, <3>1, CopiesAreSeen, RunsGoes DEF RunsInv, Fibers
        <3> QED
            BY <1>1, <1>2, <2>2, <3>2, RunsTypes DEF RunsInv
    <2> QED
        BY <1>1, <1>2, <2>1, <2>2, RunsUserMoves
<1> QED
    BY <1>4, <1>5, <1>6, <1>7, <1>8 DEF UserCalls

LEMMA RunsUserSteps ==
    ASSUME RunsInv, Inv', NEW u \in Users, UserStep(u) \/ SaveFails(u), ~FileWritten(u)
    PROVE  Runs'
<1>0. u \in Fibers /\ UserCounted(u)
    BY DEF Fibers, RunsInv, Runs
<1>a. \A j \in Jobs \ copied :
          /\ jobs[j] # NoJob => Counted(j, jobs[j].runs + Under(j))
          /\ disk[j] # NoJob => Counted(j, disk[j].runs + InProgress(j))
    BY DEF RunsInv, Runs, StoredCounted
\* To go on with no copy, which leaves it to say what is in the map and in the files.
<1>1. ASSUME NEW s, Goes(u, s), s.at \in {"idle", "deleted"},
             UNCHANGED <<executions, crashes>>, faults' \in {faults, faults + 1},
             \A j \in Jobs \ copied :
                 /\ jobs'[j] # NoJob => Counted(j, jobs'[j].runs + Under(j))
                 /\ disk'[j] # NoJob => Counted(j, disk'[j].runs + InProgress(j))
      PROVE  Runs'
    BY <1>1, RunsUserMoves
<1>2. ASSUME NEW s, Goes(u, s), s.at \in {"idle", "deleted"},
             UNCHANGED <<jobs, disk, executions, crashes>>, faults' \in {faults, faults + 1}
      PROVE  Runs'
    BY <1>1, <1>2, <1>a
<1>3. CASE Stopped(u)
    BY <1>2, <1>3 DEF Stopped, Idle, bounds
<1>4. CASE SaveFails(u)
    BY <1>2, <1>4 DEF SaveFails, Idle, history
<1>5. CASE CreateChecked(u)
    <2>1. UNCHANGED <<jobs, disk, executions, crashes, faults>>
        BY <1>5 DEF CreateChecked, history, bounds
    <2>2. CASE Goes(u, Idle)
        BY <1>2, <2>1, <2>2 DEF Idle
    <2>3. ASSUME NEW limit \in Limits, Goes(u, At("saving", "create", fiber[u].id, NewJob(limit, now)))
          PROVE  Runs'
        <3>1. /\ At("saving", "create", fiber[u].id, NewJob(limit, now)).at = "saving"
              /\ At("saving", "create", fiber[u].id, NewJob(limit, now)).call = "create"
            BY DEF At
        <3> QED
            BY <1>a, <2>1, <2>3, <3>1, RunsUserMoves
    <2> QED
        BY <1>5, <2>2, <2>3 DEF CreateChecked
<1>6. CASE UpdateFetched(u)
    <2> DEFINE id == fiber[u].id
               call == fiber[u].call
    <2>1. /\ UNCHANGED <<disk, executions, crashes, faults>> /\ id \in Jobs /\ call \in UpdateCalls
        BY <1>0, <1>6, HeldState DEF UpdateFetched, history, bounds, RunsInv, Inv
    <2>2. CASE Goes(u, Idle) /\ UNCHANGED jobs
        BY <1>2, <2>1, <2>2 DEF Idle
    <2>3. ASSUME disk[id] # NoJob, jobs' = [jobs EXCEPT ![id] = disk[id]],
                 NEW job \in Updates(disk[id], call), Goes(u, At("saving", call, id, job))
          PROVE  Runs'
        <3> DEFINE s == At("saving", call, id, job)
        <3>1. s.at = "saving" /\ s.id = id /\ s.job = job /\ Goes(u, s)
            BY <2>3 DEF At
        <3>2. job.runs = disk[id].runs /\ disk[id].runs \in Nat
            BY <2>1, <2>3, RunsTypes, UpdatesKeepRuns DEF RunsInv
        <3>3. ASSUME id \notin copied' PROVE Counted(id, job.runs)
            <4>1. HoldsCopy(s, id) /\ id \in Jobs \ copied'
                BY <2>1, <3>1, <3>3 DEF HoldsCopy
            <4>2. InProgress(id) = 0 /\ id \in Jobs \ copied
                BY <1>0, <2>3, <4>1, CopiesAreSeen, RunsGoes DEF RunsInv
            <4> QED
                BY <1>a, <2>3, <3>2, <4>2
        <3>4. /\ jobs'[id] = disk[id] /\ \A j \in Jobs \ {id} : jobs'[j] = jobs[j]
            BY <2>1, <2>3 DEF RunsInv, Inv, Stored, GoodMaps
        <3>5. \A j \in Jobs \ copied :
                 /\ jobs'[j] # NoJob => Counted(j, jobs'[j].runs + Under(j))
                 /\ disk'[j] # NoJob => Counted(j, disk'[j].runs + InProgress(j))
            BY <1>a, <2>1, <3>4, RunsTypes DEF RunsInv, Counted
        <3> HIDE DEF s
        <3> QED
            BY <2>1, <2>3, <3>1, <3>3, <3>5, RunsUserMoves
    <2> QED
        BY <1>6, <2>2, <2>3 DEF UpdateFetched
<1>7. CASE Saved(u)
    <2> DEFINE id == fiber[u].id
    <2>1. /\ fiber[u].at = "saved" /\ jobs' = [jobs EXCEPT ![id] = fiber[u].job] /\ Goes(u, Idle)
          /\ UNCHANGED <<disk, executions, crashes, faults>>
        BY <1>7 DEF Saved, bounds
    <2>2. id \in Jobs /\ fiber[u].job.runs \in Nat
        BY <1>0, <2>1, RunsTypes DEF RunsInv
    <2>3. /\ jobs'[id] = fiber[u].job /\ \A j \in Jobs \ {id} : jobs'[j] = jobs[j]
        BY <2>1, <2>2 DEF RunsInv, Inv, Stored, GoodMaps
    <2>4. id \notin copied => Counted(id, fiber[u].job.runs)
        BY <1>0, <2>1, <2>2 DEF UserCounted
    <2>5. \A j \in Jobs \ copied :
              /\ jobs'[j] # NoJob => Counted(j, jobs'[j].runs + Under(j))
              /\ disk'[j] # NoJob => Counted(j, disk'[j].runs + InProgress(j))
        BY <1>a, <2>1, <2>2, <2>3, <2>4, RunsTypes DEF RunsInv, Counted
    <2> QED
        BY <1>1, <2>1, <2>5 DEF Idle
<1>8. CASE FileDeleted(u)
    <2>1. /\ Goes(u, [fiber[u] EXCEPT !.at = "deleted"]) /\ UNCHANGED <<jobs, executions, crashes, faults>>
          /\ disk' = [disk EXCEPT ![fiber[u].id] = NoJob]
        BY <1>8 DEF FileDeleted, history, bounds
    <2>2. [fiber[u] EXCEPT !.at = "deleted"].at = "deleted"
        BY <1>0, HeldState DEF RunsInv, Inv, FiberStates
    <2>3. \A j \in Jobs : disk'[j] # NoJob => disk'[j] = disk[j]
        BY <2>1 DEF RunsInv, Inv, Stored, GoodMaps
    <2> QED
        BY <1>1, <1>a, <2>1, <2>2, <2>3
<1>9. CASE Removed(u)
    <2>1. /\ Goes(u, Idle) /\ UNCHANGED <<disk, executions, crashes, faults>>
          /\ jobs' = [jobs EXCEPT ![fiber[u].id] = NoJob]
        BY <1>9 DEF Removed, bounds
    <2>2. \A j \in Jobs : jobs'[j] # NoJob => jobs'[j] = jobs[j]
        BY <2>1 DEF RunsInv, Inv, Stored, GoodMaps
    <2> QED
        BY <1>1, <1>a, <2>1, <2>2 DEF Idle
<1>10. CASE Listed(u)
    <2>1. /\ fiber[u].at = "listing" /\ Goes(u, Idle) /\ UNCHANGED <<disk, executions, crashes, faults>>
          /\ jobs' = fiber[u].list
        BY <1>10 DEF Listed, bounds
    <2>2. \A j \in Jobs \ copied : jobs'[j] # NoJob =>
              jobs'[j].runs \in Nat /\ Counted(j, jobs'[j].runs)
        BY <1>0, <2>1, RunsTypes DEF RunsInv, UserCounted
    <2>3. \A j \in Jobs \ copied : jobs'[j] # NoJob => Counted(j, jobs'[j].runs + Under(j))
        BY <2>2, RunsTypes DEF RunsInv, Counted
    <2> QED
        BY <1>1, <1>a, <2>1, <2>3 DEF Idle
<1> QED
    BY <1>3, <1>4, <1>5, <1>6, <1>7, <1>8, <1>9, <1>10 DEF UserStep

LEMMA RunsCrash == ASSUME RunsInv, Inv', Crash PROVE Runs'
<1>1. /\ crashes' = crashes + 1 /\ jobs' = [j \in Jobs |-> NoJob] /\ fiber' = [f \in Fibers |-> Idle]
      /\ UNCHANGED <<disk, executions, faults, copied>>
    BY DEF Crash
<1>2. /\ \A f \in Fibers : fiber'[f].at = "idle"
      /\ Tick \in Fibers /\ Users \subseteq Fibers
    BY <1>1 DEF Idle, Fibers
<1>3. \A j \in Jobs : InProgress(j)' = 0
    BY <1>2 DEF InProgress
<1>4. TickAt' /\ TickCounted' /\ (\A u \in Users : UserCounted(u)') /\ Apart'
    BY <1>2 DEF TickAt, TickCounted, UserCounted, Apart, Copied
<1>5. StoredCounted'
    BY <1>1, <1>3, RunsTypes DEF RunsInv, Runs, StoredCounted, Counted
<1> QED
    BY <1>4, <1>5 DEF Runs

LEMMA RunsTime == ASSUME RunsInv, TimePasses \/ UNCHANGED vars PROVE Runs'
<1>1. UNCHANGED <<jobs, disk, fiber, copied, executions, crashes, faults>>
    BY DEF TimePasses, vars, history, bounds
<1> QED
    BY <1>1 DEF RunsInv, Runs, TickAt, TickCounted, UserCounted, StoredCounted, Apart, Copied,
       HoldsCopy, Counted, InProgress, Under

LEMMA RunsNextInv == RunsInv /\ [Next]_vars => RunsInv'
<1> SUFFICES ASSUME RunsInv, [Next]_vars PROVE RunsInv'
    OBVIOUS
<1>1. Inv'
    BY NextInv DEF RunsInv
<1>2. CASE UNCHANGED vars \/ TimePasses
    BY <1>1, <1>2, RunsTime DEF RunsInv
<1>3. CASE TickStep \/ TickSaveFails
    BY <1>1, <1>3, RunsTickBegins, RunsSettles, RunsTickSaved, RunsFileWritten, RunsTickSaveFails
       DEF TickStep, RunsInv, Fibers
<1>4. CASE Crash
    BY <1>1, <1>4, RunsCrash DEF RunsInv
<1>5. ASSUME NEW u \in Users, FileWritten(u) PROVE RunsInv'
    BY <1>1, <1>5, RunsFileWritten DEF RunsInv, Fibers
<1>6. ASSUME NEW u \in Users, UserStep(u) \/ SaveFails(u), ~FileWritten(u) PROVE RunsInv'
    BY <1>1, <1>6, RunsUserSteps DEF RunsInv
<1>7. ASSUME NEW u \in Users, UserCalls(u) PROVE RunsInv'
    BY <1>1, <1>7, RunsUserCalls DEF RunsInv
<1> QED
    BY <1>2, <1>3, <1>4, <1>5, <1>6, <1>7 DEF Next

LEMMA RunsInvCounts == RunsInv => RunsAccounted
BY DEF RunsInv, Runs, StoredCounted, RunsAccounted, Counted

\* Every execution of a job since its creation shows in the file's count of runs, but
\* for the one in progress and those a crash or a failed save lost, unless a call held a
\* copy of the job while it was executed: for any jobs, schedules and users, and however
\* their calls overlap.
THEOREM RunsAccountedHolds == Spec => []RunsAccounted
BY RunsInitInv, RunsNextInv, RunsInvCounts, PTL DEF Spec
=============================================================================
