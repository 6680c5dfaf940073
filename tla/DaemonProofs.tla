----------------------------- MODULE DaemonProofs -----------------------------
(***************************************************************************)
(* For any number of services and of overlapping calls: a state the daemon *)
(* passes through is owned by a call that will leave it, and without       *)
(* overlap a running daemon has all of its services up.  Then the watched  *)
(* directory of skills and the threads of a plugin, each with its          *)
(* inductive invariant, and what they promise as parts of MCServices.      *)
(***************************************************************************)
EXTENDS MCServices, TLAPS

LEMMA Count == N \in Nat /\ 1 \in 1..N /\ 0 \in 0..N /\ N \in 0..N
BY ServicesRegistered DEF ServicesRegistered

\* The transition table read by its targets.
LEMMA Table ==
    ASSUME TypeOK
    PROVE  /\ canTransition("starting") <=> state = "stopped"
           /\ canTransition("running") <=> state = "starting"
           /\ canTransition("failed") <=> state \in {"starting", "running", "stopping"}
           /\ canTransition("stopping") <=> state \in {"starting", "running"}
           /\ canTransition("stopped") <=> state \in {"stopping", "failed"}
BY DEF TypeOK, DaemonStates, VALID_TRANSITIONS, canTransition

-----------------------------------------------------------------------------
\* Types.

LEMMA InitType == Init => TypeOK
BY Count DEF Init, TypeOK, DaemonStates, Places

LEMMA BeginStartType == ASSUME TypeOK, NEW c \in Calls, BeginStart(c) PROVE TypeOK'
<1> USE DEF BeginStart, TypeOK
<1>1. state' \in DaemonStates /\ at' \in [Calls -> Places] /\ next' \in [Calls -> 1..N]
    BY Count DEF Go, Return, DaemonStates, Places
<1>2. result' \in [Calls -> {"none", "ok", "error"}] /\ restarting' \in [Calls -> BOOLEAN]
    BY DEF Report, Return
<1>3. overlapped' \in BOOLEAN
    <2>1. CASE UNCHANGED overlapped
        BY <2>1
    <2>2. CASE Note(c)
        BY <2>2 DEF Note
    <2> QED
        BY <2>1, <2>2
<1> QED
    BY <1>1, <1>2, <1>3

LEMMA ServiceStartsType == ASSUME TypeOK, NEW c \in Calls, ServiceStarts(c) PROVE TypeOK'
<1> USE DEF ServiceStarts, TypeOK, DaemonStates, Places, Go, Report, Return
<1>1. next' \in [Calls -> 1..N]
    BY Count
<1>2. up' \subseteq 1..N
    <2>1. next[c] \in 1..N /\ up' = up \cup {next[c]}
        OBVIOUS
    <2> QED
        BY <2>1
<1> QED
    BY <1>1, <1>2

LEMMA BeginStopType ==
    ASSUME TypeOK, NEW c \in Calls, NEW again \in BOOLEAN, BeginStop(c, again) PROVE TypeOK'
<1> USE DEF BeginStop, TypeOK, DaemonStates, Places, Go, Report, Return, Note
<1>1. sweep' \in [Calls -> 0..N]
    BY Count
<1> QED
    BY <1>1

LEMMA SweepType ==
    ASSUME TypeOK, NEW c \in Calls, ServiceStops(c) \/ ServiceStopFails(c) PROVE TypeOK'
<1> USE DEF ServiceStops, ServiceStopFails, TypeOK
<1>1. sweep' \in [Calls -> 0..N] /\ up' \subseteq 1..N
    <2>1. CASE ServiceStops(c)
        <3>1. sweep[c] - 1 \in 0..N
            BY <2>1, Count
        <3> QED
            BY <2>1, <3>1
    <2>2. CASE ServiceStopFails(c)
        BY <2>2, Count
    <2> QED
        BY <2>1, <2>2
<1>2. state' \in DaemonStates /\ at' \in [Calls -> Places]
      /\ result' \in [Calls -> {"none", "ok", "error"}]
    BY DEF StopSucceeds, StopFails, Go, Report, Return, DaemonStates, Places
<1> QED
    BY <1>1, <1>2

LEMMA StepType == ASSUME TypeOK, [Next]_runtimeVars PROVE TypeOK'
<1>1. ASSUME NEW c \in Calls, Start(c) \/ BackoffEnds(c) PROVE TypeOK'
    BY <1>1, BeginStartType DEF Start, BackoffEnds
<1>2. ASSUME NEW c \in Calls, Stop(c) PROVE TypeOK'
    BY <1>2, BeginStopType DEF Stop
<1>3. ASSUME NEW c \in Calls, Restart(c) PROVE TypeOK'
    BY <1>3, BeginStartType, BeginStopType DEF Restart
<1>4. ASSUME NEW c \in Calls, StartFails(c) \/ FailureEnds(c) \/ ShutdownTimeout(c) PROVE TypeOK'
    BY <1>4 DEF StartFails, FailureEnds, ShutdownTimeout, StopFails, Go, Report, Return, TypeOK,
                DaemonStates, Places
<1>5. CASE UNCHANGED runtimeVars
    BY <1>5 DEF runtimeVars, callVars, TypeOK
<1> QED
    BY <1>1, <1>2, <1>3, <1>4, <1>5, ServiceStartsType, SweepType DEF Next, Answers, Timers

\* TypeOK holds in every reachable state.
THEOREM TypeCorrect == Spec => []TypeOK
BY InitType, StepType, PTL DEF Spec

-----------------------------------------------------------------------------
\* TransientOwned is inductive: a call that changes the state becomes its
\* owner, and a call that ends without changing it was not.

LEMMA StartOwned ==
    ASSUME TypeOK, TransientOwned, NEW c \in Calls, at[c] \in {"idle", "backoff"}, BeginStart(c)
    PROVE  TransientOwned'
BY Table DEF BeginStart, Go, Return, TypeOK, TransientOwned

LEMMA StopOwned ==
    ASSUME TypeOK, TransientOwned, NEW c \in Calls, NEW again \in BOOLEAN, at[c] = "idle",
           BeginStop(c, again)
    PROVE  TransientOwned'
BY Table DEF BeginStop, Go, Return, TypeOK, TransientOwned

LEMMA AnswersOwned ==
    ASSUME TypeOK, TransientOwned, NEW c \in Calls, ServiceStarts(c) \/ StartFails(c)
    PROVE  TransientOwned'
<1>1. CASE ServiceStarts(c)
    BY <1>1, Table DEF ServiceStarts, Go, Return, TypeOK, TransientOwned
<1>2. CASE StartFails(c)
    BY <1>2, Table DEF StartFails, Go, Return, TypeOK, TransientOwned
<1> QED
    BY <1>1, <1>2

LEMMA StopEndOwned ==
    ASSUME TypeOK, TransientOwned, NEW c \in Calls, at[c] = "stopping",
           StopSucceeds(c) \/ StopFails(c)
    PROVE  TransientOwned'
<1>1. CASE StopSucceeds(c)
    BY <1>1, Table DEF StopSucceeds, Go, Return, TypeOK, TransientOwned
<1>2. CASE StopFails(c)
    BY <1>2, Table DEF StopFails, Go, Return, TypeOK, DaemonStates, TransientOwned
<1> QED
    BY <1>1, <1>2

LEMMA StepOwned == ASSUME TypeOK, TransientOwned, [Next]_runtimeVars PROVE TransientOwned'
<1>1. ASSUME NEW c \in Calls, Start(c) \/ BackoffEnds(c) PROVE TransientOwned'
    BY <1>1, StartOwned DEF Start, BackoffEnds, Free
<1>2. ASSUME NEW c \in Calls, Stop(c) PROVE TransientOwned'
    BY <1>2, StopOwned DEF Stop, Free
<1>3. ASSUME NEW c \in Calls, Restart(c) PROVE TransientOwned'
    BY <1>3, StartOwned, StopOwned DEF Restart, Free
<1>4. ASSUME NEW c \in Calls, ServiceStops(c) \/ ServiceStopFails(c) PROVE TransientOwned'
    <2>1. CASE UNCHANGED <<state, at>>
        BY <2>1 DEF TransientOwned
    <2> QED
        BY <1>4, <2>1, StopEndOwned DEF ServiceStops, ServiceStopFails
<1>5. ASSUME NEW c \in Calls, FailureEnds(c) PROVE TransientOwned'
    BY <1>5, Table DEF FailureEnds, Go, Return, TypeOK, DaemonStates, TransientOwned
<1>6. ASSUME NEW c \in Calls, ShutdownTimeout(c) PROVE TransientOwned'
    BY <1>6, StopEndOwned DEF ShutdownTimeout
<1>7. CASE UNCHANGED runtimeVars
    BY <1>7 DEF runtimeVars, callVars, TransientOwned
<1> QED
    BY <1>1, <1>2, <1>3, <1>4, <1>5, <1>6, <1>7, AnswersOwned DEF Next, Answers, Timers

LEMMA InitOwned == Init => TransientOwned
BY DEF Init, TransientOwned

\* A daemon that is starting, stopping or failed is always on its way out of it.
THEOREM TransientOwnedHolds == Spec => []TransientOwned
BY InitType, StepType, InitOwned, StepOwned, PTL DEF Spec

-----------------------------------------------------------------------------
\* Without overlap: a start under way has the daemon to itself and every
\* service before the one it waits for is up; a running daemon has all of them
\* and no call or sweep that could take one down.

AloneStarting(c) ==
    /\ state = "starting" /\ sweep[c] = 0
    /\ \A i \in 1..N : i < next[c] => i \in up
    /\ \A d \in Calls \ {c} : Free(d)

Undisturbed ==
    ~overlapped =>
        /\ \A c \in Calls : at[c] = "starting" => AloneStarting(c)
        /\ state = "running" => (1..N \subseteq up /\ \A c \in Calls : Free(c))

LEMMA BeginStartUndisturbed ==
    ASSUME TypeOK, Undisturbed, NEW c \in Calls, at[c] \in {"idle", "backoff"}, sweep[c] = 0,
           BeginStart(c)
    PROVE  Undisturbed'
<1> SUFFICES ASSUME ~overlapped' PROVE Undisturbed'
    BY DEF Undisturbed
<1> USE DEF BeginStart, TypeOK
<1>1. CASE canTransition("starting")
    <2>1. /\ state' = "starting" /\ next'[c] = 1 /\ ~overlapped /\ UNCHANGED sweep
          /\ \A d \in Calls \ {c} : Free(d) /\ at'[d] = at[d]
        BY <1>1 DEF Note, Go
    <2>2. AloneStarting(c)'
        BY <2>1, Count DEF AloneStarting, Free
    <2>3. \A d \in Calls : at'[d] = "starting" => d = c
        BY <2>1 DEF Free
    <2> QED
        BY <2>1, <2>2, <2>3 DEF Undisturbed
<1>2. CASE ~canTransition("starting")
    <2>1. /\ UNCHANGED <<state, next, overlapped, up, sweep>>
          /\ at' = [at EXCEPT ![c] = "idle"]
        BY <1>2 DEF Return, Go
    <2> QED
        BY <2>1 DEF Undisturbed, AloneStarting, Free
<1> QED
    BY <1>1, <1>2

LEMMA BeginStopUndisturbed ==
    ASSUME TypeOK, Undisturbed, NEW c \in Calls, NEW again \in BOOLEAN, Free(c),
           BeginStop(c, again)
    PROVE  Undisturbed'
<1> SUFFICES ASSUME ~overlapped' PROVE Undisturbed'
    BY DEF Undisturbed
<1> USE DEF BeginStop, TypeOK
<1>1. CASE canTransition("stopping")
    <2>1. /\ state' = "stopping"
          /\ \A d \in Calls : at'[d] # "starting"
        BY <1>1 DEF Note, Go, Free
    <2> QED
        BY <2>1 DEF Undisturbed
<1>2. CASE ~canTransition("stopping")
    <2>1. /\ UNCHANGED <<state, next, overlapped, up, sweep>>
          /\ at' = [at EXCEPT ![c] = "idle"]
        BY <1>2 DEF Return, Go
    <2> QED
        BY <2>1 DEF Undisturbed, AloneStarting, Free
<1> QED
    BY <1>1, <1>2

LEMMA ServiceStartsUndisturbed ==
    ASSUME TypeOK, Undisturbed, NEW c \in Calls, ServiceStarts(c) PROVE Undisturbed'
<1> SUFFICES ASSUME ~overlapped' PROVE Undisturbed'
    BY DEF Undisturbed
<1> USE DEF ServiceStarts, TypeOK
<1>1. at[c] = "starting" /\ AloneStarting(c) /\ UNCHANGED <<overlapped, sweep>>
    BY DEF Undisturbed
<1>2. next[c] \in 1..N /\ N \in Nat
    BY Count
<1>3. CASE next[c] < N
    <2>1. /\ UNCHANGED <<state, at>> /\ up' = up \cup {next[c]}
          /\ next'[c] = next[c] + 1
        BY <1>3
    <2>2. \A i \in 1..N : i < next'[c] => i \in up'
        BY <1>1, <1>2, <2>1 DEF AloneStarting
    <2>3. AloneStarting(c)'
        BY <1>1, <2>1, <2>2 DEF AloneStarting, Free
    <2>4. \A d \in Calls : at'[d] = "starting" => d = c
        BY <1>1, <2>1 DEF AloneStarting, Free
    <2> QED
        BY <1>1, <2>1, <2>3, <2>4 DEF Undisturbed, AloneStarting
<1>4. CASE next[c] = N
    <2>1. canTransition("running")
        BY <1>1, Table DEF AloneStarting
    <2>2. at' = [at EXCEPT ![c] = "idle"] /\ up' = up \cup {N}
        BY <1>4, <2>1 DEF Return, Go
    <2>3. 1..N \subseteq up'
        BY <1>1, <1>2, <1>4, <2>2 DEF AloneStarting
    <2>4. \A d \in Calls : Free(d)'
        BY <1>1, <2>2 DEF AloneStarting, Free
    <2> QED
        BY <2>3, <2>4 DEF Undisturbed, Free
<1> QED
    BY <1>2, <1>3, <1>4

\* A call that is busy with anything but a start excludes both premises.
LEMMA Busy ==
    ASSUME Undisturbed, ~overlapped, NEW c \in Calls, ~Free(c), at[c] # "starting"
    PROVE  state # "running" /\ \A d \in Calls : at[d] # "starting"
BY DEF Undisturbed, AloneStarting

\* The steps of a busy call that ends, or gets on with, what it does.
LEMMA BusyStepUndisturbed ==
    ASSUME TypeOK, Undisturbed, NEW c \in Calls, ~Free(c),
           \/ StartFails(c) \/ FailureEnds(c) \/ ShutdownTimeout(c)
           \/ ServiceStops(c) /\ at[c] # "starting"
           \/ ServiceStopFails(c) /\ at[c] # "starting"
    PROVE  Undisturbed'
<1> SUFFICES ASSUME ~overlapped' PROVE Undisturbed'
    BY DEF Undisturbed
<1> USE DEF TypeOK
<1>1. UNCHANGED overlapped
    BY DEF StartFails, FailureEnds, ShutdownTimeout, ServiceStops, ServiceStopFails
<1>2. CASE StartFails(c)
    <2>1. at[c] = "starting" /\ AloneStarting(c)
        BY <1>1, <1>2 DEF StartFails, Undisturbed
    <2>2. canTransition("failed")
        BY <2>1, Table DEF AloneStarting
    <2>3. state' = "failed" /\ \A d \in Calls : at'[d] # "starting"
        BY <1>2, <2>1, <2>2 DEF StartFails, Go, AloneStarting, Free
    <2> QED
        BY <2>3 DEF Undisturbed
<1>3. CASE ~StartFails(c)
    <2>1. at[c] # "starting"
        BY <1>3 DEF FailureEnds, ShutdownTimeout
    <2>2. state # "running" /\ \A d \in Calls : at[d] # "starting"
        BY <1>1, <2>1, Busy
    <2>3. /\ state' \in {state, "stopped"}
          /\ \A d \in Calls : at'[d] \in {at[d], "idle", "backoff"}
        BY <1>3 DEF FailureEnds, ShutdownTimeout, ServiceStops, ServiceStopFails, StopSucceeds,
                    StopFails, Return, Go
    <2> QED
        BY <2>2, <2>3 DEF Undisturbed
<1> QED
    BY <1>2, <1>3

\* A call that starts, fails or backs off has no sweep of its own.
NoSweepElsewhere ==
    \A c \in Calls : at[c] \in {"starting", "failing", "backoff"} => sweep[c] = 0

LEMMA StepNoSweep ==
    ASSUME TypeOK, NoSweepElsewhere, [Next]_runtimeVars PROVE NoSweepElsewhere'
<1> USE DEF TypeOK
<1>1. ASSUME NEW c \in Calls, BeginStart(c), sweep[c] = 0 PROVE NoSweepElsewhere'
    BY <1>1 DEF BeginStart, Go, Return, NoSweepElsewhere
<1>2. ASSUME NEW c \in Calls, NEW again \in BOOLEAN, BeginStop(c, again) PROVE NoSweepElsewhere'
    BY <1>2 DEF BeginStop, Go, Return, NoSweepElsewhere
<1>3. ASSUME NEW c \in Calls, ServiceStarts(c) \/ StartFails(c) \/ FailureEnds(c)
      PROVE  NoSweepElsewhere'
    BY <1>3 DEF ServiceStarts, StartFails, FailureEnds, Go, Return, NoSweepElsewhere
<1>4. ASSUME NEW c \in Calls, ServiceStops(c) PROVE NoSweepElsewhere'
    <2>1. sweep[c] # 0 /\ sweep' = [sweep EXCEPT ![c] = @ - 1]
        BY <1>4 DEF ServiceStops
    <2>2. CASE at[c] = "stopping" /\ sweep[c] = 1
        BY <1>4, <2>1, <2>2 DEF ServiceStops, StopSucceeds, Go, Return, NoSweepElsewhere
    <2>3. CASE ~(at[c] = "stopping" /\ sweep[c] = 1)
        BY <1>4, <2>1, <2>3 DEF ServiceStops, NoSweepElsewhere
    <2> QED
        BY <2>2, <2>3
<1>5. ASSUME NEW c \in Calls, ServiceStopFails(c) \/ ShutdownTimeout(c) PROVE NoSweepElsewhere'
    BY <1>5 DEF ServiceStopFails, ShutdownTimeout, StopFails, Go, Return, NoSweepElsewhere
<1>6. ASSUME NEW c \in Calls, Start(c) \/ Stop(c) \/ Restart(c) \/ BackoffEnds(c)
      PROVE  NoSweepElsewhere'
    BY <1>1, <1>2, <1>6 DEF Start, Stop, Restart, BackoffEnds, Free, NoSweepElsewhere
<1>7. CASE UNCHANGED runtimeVars
    BY <1>7 DEF runtimeVars, callVars, NoSweepElsewhere
<1> QED
    BY <1>3, <1>4, <1>5, <1>6, <1>7 DEF Next, Answers, Timers

LEMMA StepUndisturbed ==
    ASSUME TypeOK, NoSweepElsewhere, Undisturbed, [Next]_runtimeVars PROVE Undisturbed'
<1>1. ASSUME NEW c \in Calls, Start(c) \/ Stop(c) \/ Restart(c) PROVE Undisturbed'
    BY <1>1, BeginStartUndisturbed, BeginStopUndisturbed DEF Start, Stop, Restart, Free
<1>2. ASSUME NEW c \in Calls, BackoffEnds(c) PROVE Undisturbed'
    <2>1. at[c] = "backoff" /\ sweep[c] = 0 /\ BeginStart(c)
        BY <1>2 DEF BackoffEnds, NoSweepElsewhere
    <2> QED
        BY <2>1, BeginStartUndisturbed
<1>3. ASSUME NEW c \in Calls, StartFails(c) \/ FailureEnds(c) \/ ShutdownTimeout(c)
      PROVE  Undisturbed'
    BY <1>3, BusyStepUndisturbed DEF StartFails, FailureEnds, ShutdownTimeout, Free
<1>4. ASSUME NEW c \in Calls, ServiceStops(c) \/ ServiceStopFails(c) PROVE Undisturbed'
    <2>1. sweep[c] # 0 /\ at[c] # "starting"
        BY <1>4 DEF ServiceStops, ServiceStopFails, NoSweepElsewhere
    <2> QED
        BY <1>4, <2>1, BusyStepUndisturbed DEF Free
<1>5. CASE UNCHANGED runtimeVars
    BY <1>5 DEF runtimeVars, callVars, Undisturbed, AloneStarting, Free
<1> QED
    BY <1>1, <1>2, <1>3, <1>4, <1>5, ServiceStartsUndisturbed DEF Next, Answers, Timers

LEMMA InitUndisturbed == Init => NoSweepElsewhere /\ Undisturbed
BY DEF Init, NoSweepElsewhere, Undisturbed

LEMMA UndisturbedIsWhole == TypeOK /\ Undisturbed => RunIsWhole
BY DEF TypeOK, Undisturbed, RunIsWhole

\* With one call at a time and no stop at work behind its timeout, a running
\* daemon has every service up.
THEOREM RunIsWholeHolds == Spec => []RunIsWhole
BY InitType, StepType, InitUndisturbed, StepNoSweep, StepUndisturbed, UndisturbedIsWhole, PTL
   DEF Spec

-----------------------------------------------------------------------------
(* SkillWatcher: as long as no change is missed, what is known of a skill  *)
(* is what is registered, and the registry is behind the directory only    *)
(* while a change or a rescan is on its way.                               *)

SkillFlags ==
    /\ {watching, reported, debounce, missed} \subseteq BOOLEAN
    /\ rescan \in {"no", "listing", "reading"}
SkillDirs ==
    /\ disk \in [Dirs -> Skills!AllContents] /\ \A d \in Dirs : disk[d] \in Skills!Contents(d)
    /\ scanned \subseteq Dirs /\ left \subseteq Dirs
SkillTables ==
    /\ registry \in [Skills!Names -> [dir : Dirs \cup {NoDir}, version : 0..MaxVersion]]
    /\ known \in [Skills!Names -> Dirs \cup {NoDir}]
    /\ cache \in [Skills!Names -> Skills!AllContents]
SkillInHand ==
    /\ parsed \in [dir : Dirs \cup {NoDir}, content : Skills!AllContents]
    /\ parsed # Skills!NotParsed =>
           /\ rescan = "reading"
           /\ parsed.dir \in Dirs /\ parsed.content \in Skills!Skills(parsed.dir)
           /\ ~missed => parsed.content = disk[parsed.dir]
    /\ rescan # "reading" => left = {}
SkillShapes ==
    changes \in 0..MaxChanges /\ SkillFlags /\ SkillDirs /\ SkillTables /\ SkillInHand

AsOnDisk(d) == [dir |-> d, version |-> disk[d].version]

\* The scan before the watch registers what it has passed.
ScannedSoFar ==
    /\ watching => scanned = {}
    /\ ~watching /\ ~missed =>
          /\ ~reported /\ ~debounce /\ rescan = "no"
          /\ \A n \in Skills!Names :
                /\ known[n] = NoDir /\ cache[n] = Skills!Absent
                /\ registry[n] # Skills!NotRegistered =>
                      Skills!Holds(n[1], n) /\ registry[n] = AsOnDisk(n[1])
          /\ \A d \in Dirs \ scanned : \A n \in Skills!Names :
                Skills!Holds(d, n) => registry[n] = AsOnDisk(d)

\* A skill is known when it is registered, with the text in the cache, or with
\* the one on disk if none is.
KnownIsRegistered ==
    watching /\ ~missed => \A n \in Skills!Names :
        /\ known[n] = NoDir =>
              registry[n] = Skills!NotRegistered /\ cache[n] = Skills!Absent
        /\ known[n] # NoDir =>
              /\ known[n] = n[1] /\ registry[n].dir = n[1]
              /\ cache[n] = Skills!Absent =>
                     Skills!Holds(n[1], n) /\ registry[n] = AsOnDisk(n[1])
              /\ cache[n] # Skills!Absent =>
                     registry[n] = [dir |-> n[1], version |-> cache[n].version]

\* No change is on its way that the rescan under way, if any, will not find.
UpToDate == watching /\ ~missed /\ ~reported /\ ~debounce /\ rescan # "listing"
PassedIsRegistered ==
    UpToDate =>
        /\ \A n \in Skills!Names : known[n] # NoDir => disk[n[1]] # Skills!Absent
        /\ \A d \in Dirs \ left : d # parsed.dir =>
              \A n \in Skills!Names : Skills!Holds(d, n) => registry[n] = AsOnDisk(d)

SkillsInv == SkillShapes /\ ScannedSoFar /\ KnownIsRegistered /\ PassedIsRegistered

LEMMA SkillNames ==
    ASSUME NEW d \in Dirs, NEW c \in Skills!Contents(d)
    PROVE  /\ c \in Skills!AllContents
           /\ c.name \in Skills!Names => c \in Skills!Skills(d)
           /\ c \in Skills!Skills(d) =>
                 /\ c.name \in Skills!Names /\ c.name[1] = d
                 /\ c # Skills!Absent /\ c.version \in 0..MaxVersion
<1>1. c \in Skills!AllContents
    BY DEF Skills!AllContents, Skills!Contents
<1>2. c = Skills!Absent \/ c = Skills!Broken => c.name \notin Skills!Names
    BY DEF Skills!Absent, Skills!Broken, Skills!Skill, Skills!NoName, Skills!Names
<1>3. ASSUME c \in Skills!Skills(d)
      PROVE  /\ c.name \in Skills!Names /\ c.name[1] = d
             /\ c # Skills!Absent /\ c.version \in 0..MaxVersion
    <2>1. PICK k \in 1..NameCount, v \in 1..MaxVersion : c = Skills!Skill(<<d, k>>, v)
        BY <1>3 DEF Skills!Skills
    <2>2. c.name = <<d, k>> /\ c.version = v
        BY <2>1 DEF Skills!Skill
    <2>3. v \in 0..MaxVersion /\ c.name \in Skills!Names
        BY <2>2, ServicesLimits DEF Skills!Names, Skills!SkillLimits
    <2> QED
        BY <1>2, <2>2, <2>3
<1> QED
    BY <1>1, <1>2, <1>3 DEF Skills!Contents

LEMMA SkillNameDir == \A n \in Skills!Names : n[1] \in Dirs
BY DEF Skills!Names

LEMMA SkillHeld ==
    ASSUME SkillShapes, NEW d \in Dirs, NEW n \in Skills!Names, Skills!Holds(d, n)
    PROVE  /\ n[1] = d /\ disk[d] # Skills!Absent /\ disk[d].name = n
           /\ disk[d] \in Skills!Skills(d) /\ disk[d].version \in 0..MaxVersion
<1>1. disk[d] \in Skills!Contents(d) /\ disk[d].name = n
    BY DEF SkillShapes, SkillDirs, Skills!Holds
<1> QED
    BY <1>1, SkillNames

LEMMA SkillsInitInv == Skills!Init => SkillsInv
<1> SUFFICES ASSUME Skills!Init PROVE SkillsInv
    OBVIOUS
<1> USE DEF Skills!Init
<1>1. SkillDirs
    <2>1. PICK S \in SUBSET Dirs :
              disk = [d \in Dirs |-> IF d \in S THEN Skills!Skill(<<d, 1>>, 1) ELSE Skills!Absent]
        OBVIOUS
    <2>2. \A d \in Dirs : disk[d] \in Skills!Contents(d)
        <3> TAKE d \in Dirs
        <3>1. 1 \in 1..NameCount /\ 1 \in 1..MaxVersion
            BY ServicesLimits DEF Skills!SkillLimits
        <3>2. Skills!Skill(<<d, 1>>, 1) \in Skills!Skills(d)
            BY <3>1 DEF Skills!Skills
        <3> QED
            BY <2>1, <3>2 DEF Skills!Contents
    <2>3. disk \in [Dirs -> Skills!AllContents]
        BY <2>1, <2>2 DEF Skills!AllContents, Skills!Contents
    <2> QED
        BY <2>2, <2>3 DEF SkillDirs
<1>2. Skills!Absent \in Skills!AllContents
    BY DEF Skills!AllContents
<1>3. SkillFlags /\ changes \in 0..MaxChanges
    <2>1. SkillFlags
        BY DEF SkillFlags
    <2>2. changes = 0 /\ MaxChanges \in Nat
        BY ServicesLimits DEF Skills!SkillLimits
    <2> QED
        BY <2>1, <2>2
<1>4. SkillTables
    <2>1. Skills!NotRegistered \in [dir : Dirs \cup {NoDir}, version : 0..MaxVersion]
        BY ServicesLimits DEF Skills!NotRegistered, Skills!SkillLimits
    <2> QED
        BY <2>1, <1>2 DEF SkillTables
<1>5. SkillInHand
    BY <1>2 DEF SkillInHand, Skills!NotParsed
<1>6. SkillShapes
    BY <1>1, <1>3, <1>4, <1>5 DEF SkillShapes, SkillDirs
<1>7. ScannedSoFar
    <2>1. \A d \in Dirs \ scanned : \A n \in Skills!Names : ~Skills!Holds(d, n)
        BY <1>6, SkillHeld
    <2> QED
        BY <2>1 DEF ScannedSoFar
<1> QED
    BY <1>6, <1>7 DEF SkillsInv, KnownIsRegistered, PassedIsRegistered, UpToDate

\* Who registers, and what the rescan does with a directory, has its type.
LEMMA SkillFlagsKept == ASSUME SkillShapes, Skills!Next PROVE SkillFlags' /\ (changes \in 0..MaxChanges)'
<1> USE DEF SkillShapes, SkillFlags
<1>1. CASE \E d \in Dirs : Skills!Change(d)
    <2>1. missed' \in BOOLEAN
        BY <1>1 DEF Skills!Change
    <2>2. changes' \in 0..MaxChanges
        BY <1>1, ServicesLimits DEF Skills!Change, Skills!SkillLimits
    <2> QED
        BY <1>1, <2>1, <2>2 DEF Skills!Change
<1>2. CASE \E d \in Dirs : Skills!Scan(d) \/ Skills!Parse(d)
    BY <1>2 DEF Skills!Scan, Skills!Parse, Skills!Rescanning
<1>3. CASE Skills!Watch \/ Skills!Reported \/ Skills!Fires
    BY <1>3 DEF Skills!Watch, Skills!Reported, Skills!Fires
<1>4. CASE Skills!List \/ Skills!Compare \/ Skills!Rescanned
    BY <1>4 DEF Skills!List, Skills!Compare, Skills!Rescanned, Skills!Rescanning
<1> QED
    BY <1>1, <1>2, <1>3, <1>4 DEF Skills!Next, Skills!Progress

LEMMA SkillDirsKept == ASSUME SkillShapes, Skills!Next PROVE SkillDirs'
<1> USE DEF SkillShapes, SkillDirs
<1>1. CASE \E d \in Dirs : Skills!Change(d)
    <2>1. PICK d \in Dirs : Skills!Change(d)
        BY <1>1
    <2>2. PICK c \in Skills!Contents(d) : disk' = [disk EXCEPT ![d] = c]
        BY <2>1 DEF Skills!Change
    <2>3. c \in Skills!AllContents
        BY SkillNames
    <2>4. scanned' = scanned /\ left' = left
        BY <2>1 DEF Skills!Change
    <2> QED
        BY <2>2, <2>3, <2>4
<1>2. CASE \E d \in Dirs : Skills!Scan(d) \/ Skills!Parse(d)
    BY <1>2 DEF Skills!Scan, Skills!Parse, Skills!Rescanning
<1>3. CASE Skills!Watch \/ Skills!Reported \/ Skills!Fires
    BY <1>3 DEF Skills!Watch, Skills!Reported, Skills!Fires
<1>4. CASE Skills!List \/ Skills!Compare \/ Skills!Rescanned
    BY <1>4 DEF Skills!List, Skills!Compare, Skills!Rescanned, Skills!Rescanning
<1> QED
    BY <1>1, <1>2, <1>3, <1>4 DEF Skills!Next, Skills!Progress

LEMMA SkillRegisters ==
    ASSUME SkillTables, NEW d \in Dirs, NEW n \in Skills!Names, NEW v \in 0..MaxVersion,
           Skills!Register(n, d, v)
    PROVE  /\ registry' \in [Skills!Names -> [dir : Dirs \cup {NoDir}, version : 0..MaxVersion]]
           /\ registry'[n] = [dir |-> d, version |-> v]
           /\ \A m \in Skills!Names : m # n => registry'[m] = registry[m]
BY DEF SkillTables, Skills!Register

LEMMA SkillTablesKept == ASSUME SkillShapes, Skills!Next PROVE SkillTables'
<1>0. SkillTables
    BY DEF SkillShapes
<1>1. CASE \E d \in Dirs : Skills!Scan(d)
    <2>1. PICK d \in Dirs : Skills!Scan(d)
        BY <1>1
    <2>2. known' = known /\ cache' = cache
        BY <2>1 DEF Skills!Scan
    <2>3. CASE \E n \in Skills!Names : Skills!Holds(d, n) /\ registry[n] = Skills!NotRegistered
        <3>1. PICK n \in Skills!Names : Skills!Holds(d, n)
            BY <2>3
        <3>2. disk[d].name = n /\ disk[d].version \in 0..MaxVersion
            BY <3>1, SkillHeld
        <3>3. Skills!Register(n, d, disk[d].version)
            BY <2>1, <2>3, <3>2 DEF Skills!Scan
        <3> QED
            BY <1>0, <2>2, <3>2, <3>3, SkillRegisters DEF SkillTables
    <2>4. CASE ~ \E n \in Skills!Names : Skills!Holds(d, n) /\ registry[n] = Skills!NotRegistered
        BY <1>0, <2>1, <2>2, <2>4 DEF Skills!Scan, SkillTables
    <2> QED
        BY <2>3, <2>4
<1>2. CASE Skills!Watch
    <2>1. known' = [n \in Skills!Names |-> registry[n].dir] /\ registry' = registry /\ cache' = cache
        BY <1>2 DEF Skills!Watch
    <2>2. \A n \in Skills!Names : registry[n].dir \in Dirs \cup {NoDir}
        BY <1>0 DEF SkillTables
    <2> QED
        BY <1>0, <2>1, <2>2 DEF SkillTables
<1>3. CASE Skills!List
    <2>1. Skills!NotRegistered \in [dir : Dirs \cup {NoDir}, version : 0..MaxVersion]
        BY ServicesLimits DEF Skills!NotRegistered, Skills!SkillLimits
    <2>2. Skills!Absent \in Skills!AllContents
        BY DEF Skills!AllContents
    <2> QED
        BY <1>0, <1>3, <2>1, <2>2 DEF Skills!List, SkillTables
<1>4. CASE Skills!Compare
    <2> DEFINE d == parsed.dir
               n == parsed.content.name
    <2>1. d \in Dirs /\ parsed.content \in Skills!Skills(d)
        BY <1>4 DEF Skills!Compare, SkillShapes, SkillInHand
    <2>2. n \in Skills!Names /\ parsed.content.version \in 0..MaxVersion
        BY <2>1, SkillNames DEF Skills!Contents
    <2>3. disk[d] \in Skills!AllContents
        BY <2>1 DEF SkillShapes, SkillDirs
    <2>4. \/ registry' = registry
          \/ Skills!Register(n, d, parsed.content.version)
        BY <1>4 DEF Skills!Compare
    <2>5. \/ known' = known
          \/ known' = [known EXCEPT ![n] = d]
        BY <1>4 DEF Skills!Compare
    <2>6. \/ cache' = cache
          \/ cache' = [cache EXCEPT ![n] = disk[d]]
        BY <1>4 DEF Skills!Compare
    <2>7. registry' \in [Skills!Names -> [dir : Dirs \cup {NoDir}, version : 0..MaxVersion]]
        BY <1>0, <2>1, <2>2, <2>4, SkillRegisters DEF SkillTables
    <2>8. known' \in [Skills!Names -> Dirs \cup {NoDir}]
        BY <1>0, <2>1, <2>5 DEF SkillTables
    <2>9. cache' \in [Skills!Names -> Skills!AllContents]
        BY <1>0, <2>3, <2>6 DEF SkillTables
    <2> QED
        BY <2>7, <2>8, <2>9 DEF SkillTables
<1>5. CASE UNCHANGED <<registry, known, cache>>
    BY <1>0, <1>5 DEF SkillTables
<1> QED
    BY <1>1, <1>2, <1>3, <1>4, <1>5
    DEF Skills!Next, Skills!Progress, Skills!Change, Skills!Reported, Skills!Fires, Skills!Parse,
        Skills!Rescanned

LEMMA SkillInHandKept == ASSUME SkillShapes, Skills!Next PROVE SkillInHand'
<1>0. SkillInHand
    BY DEF SkillShapes
<1>1. CASE \E d \in Dirs : Skills!Parse(d)
    <2>1. PICK d \in Dirs : Skills!Parse(d)
        BY <1>1
    <2>2. CASE \E n \in Skills!Names : Skills!Holds(d, n)
        <3>1. disk[d] \in Skills!Skills(d) /\ disk[d] \in Skills!AllContents
            BY <2>2, SkillHeld DEF SkillShapes, SkillDirs
        <3>2. parsed' = [dir |-> d, content |-> disk[d]] /\ rescan' = "reading" /\ disk' = disk
            BY <2>1, <2>2 DEF Skills!Parse, Skills!Rescanning
        <3>3. parsed'.dir = d /\ parsed'.content = disk'[d]
            BY <3>2
        <3>4. (parsed \in [dir : Dirs \cup {NoDir}, content : Skills!AllContents])'
            BY <3>1, <3>2
        <3> QED
            BY <3>1, <3>2, <3>3, <3>4 DEF SkillInHand
    <2>3. CASE ~ \E n \in Skills!Names : Skills!Holds(d, n)
        BY <1>0, <2>1, <2>3 DEF Skills!Parse, SkillInHand, Skills!NotParsed
    <2> QED
        BY <2>2, <2>3
<1>2. CASE \E d \in Dirs : Skills!Change(d)
    <2>1. PICK d \in Dirs : Skills!Change(d)
        BY <1>2
    <2>2. \A e \in Dirs : e # d => disk'[e] = disk[e]
        BY <2>1 DEF Skills!Change, SkillShapes, SkillDirs
    <2>3. ~missed' => ~missed /\ parsed.dir # d
        BY <2>1 DEF Skills!Change
    <2>4. parsed' = parsed /\ rescan' = rescan /\ left' = left
        BY <2>1 DEF Skills!Change
    <2> QED
        BY <1>0, <2>2, <2>3, <2>4 DEF SkillInHand
<1>3. CASE Skills!Compare
    <2>1. parsed' = Skills!NotParsed /\ rescan' = rescan /\ left' = left
        BY <1>3 DEF Skills!Compare
    <2>2. (parsed \in [dir : Dirs \cup {NoDir}, content : Skills!AllContents])'
        BY <2>1 DEF Skills!NotParsed, Skills!AllContents
    <2> QED
        BY <1>0, <2>1, <2>2 DEF SkillInHand
<1>4. CASE (\E d \in Dirs : Skills!Scan(d)) \/ Skills!Watch \/ Skills!Reported
    BY <1>0, <1>4 DEF SkillInHand, Skills!Scan, Skills!Watch, Skills!Reported
<1>5. CASE Skills!Fires
    BY <1>0, <1>5 DEF SkillInHand, Skills!Fires
<1>6. CASE Skills!List \/ Skills!Rescanned
    BY <1>0, <1>6 DEF SkillInHand, Skills!List, Skills!Rescanned, Skills!Rescanning
<1> QED
    BY <1>1, <1>2, <1>3, <1>4, <1>5, <1>6 DEF Skills!Next, Skills!Progress

LEMMA SkillScanKeeps == ASSUME SkillsInv, NEW d \in Dirs, Skills!Scan(d) PROVE ScannedSoFar'
<1>0. SkillShapes /\ ScannedSoFar
    BY DEF SkillsInv
<1>1. /\ ~watching /\ ~watching' /\ (~missed' => ~missed) /\ disk' = disk
      /\ scanned' = scanned \ {d}
      /\ UNCHANGED <<reported, debounce, rescan, known, cache>>
    BY <1>0 DEF Skills!Scan, ScannedSoFar
<1>2. CASE \E n \in Skills!Names : Skills!Holds(d, n) /\ registry[n] = Skills!NotRegistered
    <2>1. PICK n \in Skills!Names : Skills!Holds(d, n)
        BY <1>2
    <2>2. n[1] = d /\ disk[d].name = n /\ disk[d].version \in 0..MaxVersion
        BY <1>0, <2>1, SkillHeld
    <2>3. Skills!Register(n, d, disk[d].version)
        BY <1>2, <2>2 DEF Skills!Scan
    <2>4. /\ registry'[n] = AsOnDisk(d)
          /\ \A m \in Skills!Names : m # n => registry'[m] = registry[m]
        BY <1>0, <2>2, <2>3, SkillRegisters DEF AsOnDisk, SkillShapes
    <2>5. \A m \in Skills!Names : Skills!Holds(d, m) => m = n
        BY <2>2 DEF Skills!Holds
    <2> SUFFICES ASSUME ~missed' PROVE ScannedSoFar'
        BY <1>1 DEF ScannedSoFar
    <2>6. \A m \in Skills!Names : registry'[m] # Skills!NotRegistered =>
              Skills!Holds(m[1], m) /\ registry'[m] = AsOnDisk(m[1])
        BY <1>0, <1>1, <2>1, <2>2, <2>4 DEF ScannedSoFar
    <2>7. \A e \in Dirs \ scanned' : \A m \in Skills!Names :
              Skills!Holds(e, m) => registry'[m] = AsOnDisk(e)
        <3> TAKE e \in Dirs \ scanned'
        <3> TAKE m \in Skills!Names
        <3> HAVE Skills!Holds(e, m)
        <3>1. m[1] = e
            BY <1>0, SkillHeld
        <3>2. CASE e = d
            BY <2>4, <2>5, <3>2
        <3>3. CASE e # d
            BY <1>0, <1>1, <2>2, <2>4, <3>1, <3>3 DEF ScannedSoFar
        <3> QED
            BY <3>2, <3>3
    <2> QED
        BY <1>0, <1>1, <2>6, <2>7 DEF ScannedSoFar, AsOnDisk, Skills!Holds
<1>3. CASE ~ \E n \in Skills!Names : Skills!Holds(d, n) /\ registry[n] = Skills!NotRegistered
    <2>1. registry' = registry
        BY <1>3 DEF Skills!Scan
    <2>2. ~missed => \A n \in Skills!Names : Skills!Holds(d, n) => registry[n] = AsOnDisk(d)
        BY <1>0, <1>1, <1>3, SkillHeld DEF ScannedSoFar
    <2> QED
        BY <1>0, <1>1, <2>1, <2>2 DEF ScannedSoFar, AsOnDisk, Skills!Holds
<1> QED
    BY <1>2, <1>3

LEMMA SkillScannedKept == ASSUME SkillsInv, Skills!Next PROVE ScannedSoFar'
<1>0. SkillFlags /\ SkillInHand /\ ScannedSoFar
    BY DEF SkillsInv, SkillShapes
<1>1. ASSUME NEW d \in Dirs, Skills!Scan(d) PROVE ScannedSoFar'
    BY <1>1, SkillScanKeeps
<1>2. CASE Skills!Watch
    BY <1>2 DEF Skills!Watch, ScannedSoFar
<1>3. CASE \E d \in Dirs : Skills!Change(d)
    <2>1. scanned' = scanned /\ watching' = watching /\ (~missed' => watching)
        BY <1>3 DEF Skills!Change
    <2> QED
        BY <1>0, <2>1 DEF ScannedSoFar
<1>4. CASE Skills!Reported \/ Skills!Fires
    <2>1. scanned' = scanned /\ watching' = watching /\ (~missed' => ~missed)
        BY <1>4 DEF Skills!Reported, Skills!Fires
    <2>2. reported \/ debounce
        BY <1>4 DEF Skills!Reported, Skills!Fires
    <2> QED
        BY <1>0, <2>1, <2>2 DEF ScannedSoFar
<1>5. CASE Skills!List \/ Skills!Compare \/ Skills!Rescanned \/ \E d \in Dirs : Skills!Parse(d)
    <2>1. rescan # "no"
        BY <1>0, <1>5 DEF Skills!List, Skills!Compare, Skills!Rescanned, Skills!Parse, SkillInHand
    <2>2. scanned' = scanned /\ watching' = watching /\ missed' = missed
        BY <1>5 DEF Skills!List, Skills!Compare, Skills!Rescanned, Skills!Parse, Skills!Rescanning
    <2> QED
        BY <1>0, <2>1, <2>2 DEF ScannedSoFar
<1> QED
    BY <1>1, <1>2, <1>3, <1>4, <1>5 DEF Skills!Next, Skills!Progress

LEMMA SkillCompares ==
    ASSUME SkillsInv, Skills!Compare, ~missed
    PROVE  LET d == parsed.dir
               n == parsed.content.name
           IN  /\ d \in Dirs /\ n \in Skills!Names /\ n[1] = d /\ disk[d] = parsed.content
               /\ disk[d] # Skills!Absent /\ disk[d].name = n
               /\ \A m \in Skills!Names : m # n =>
                      registry'[m] = registry[m] /\ known'[m] = known[m] /\ cache'[m] = cache[m]
               /\ cache'[n] = disk[d]
               /\ \/ /\ known[n] # NoDir /\ cache[n] \in {Skills!Absent, disk[d]}
                     /\ known'[n] = known[n] /\ registry'[n] = registry[n]
                  \/ known'[n] = d /\ registry'[n] = AsOnDisk(d)
<1> DEFINE d == parsed.dir
           n == parsed.content.name
<1>0. SkillShapes /\ SkillTables
    BY DEF SkillsInv, SkillShapes
<1>1. d \in Dirs /\ parsed.content \in Skills!Skills(d) /\ disk[d] = parsed.content
    BY DEF Skills!Compare, SkillsInv, SkillShapes, SkillInHand
<1>2. /\ n \in Skills!Names /\ n[1] = d /\ disk[d] # Skills!Absent
      /\ parsed.content.version \in 0..MaxVersion
    BY <1>1, SkillNames DEF Skills!Contents
<1>3. CASE known[n] # NoDir /\ cache[n] = disk[d]
    <2>1. UNCHANGED <<registry, known, cache>>
        BY <1>2, <1>3 DEF Skills!Compare
    <2> QED
        BY <1>1, <1>2, <1>3, <2>1
<1>4. CASE ~(known[n] # NoDir /\ cache[n] = disk[d])
    <2>1. cache' = [cache EXCEPT ![n] = disk[d]]
        BY <1>2, <1>4 DEF Skills!Compare
    <2>2. cache'[n] = disk[d] /\ \A m \in Skills!Names : m # n => cache'[m] = cache[m]
        BY <1>0, <1>2, <2>1 DEF SkillTables
    <2>3. CASE known[n] # NoDir /\ cache[n] = Skills!Absent
        <3>1. registry' = registry /\ known' = known
            BY <1>2, <1>4, <2>3 DEF Skills!Compare
        <3> QED
            BY <1>1, <1>2, <2>2, <2>3, <3>1
    <2>4. CASE ~(known[n] # NoDir /\ cache[n] = Skills!Absent)
        <3>1. Skills!Register(n, d, parsed.content.version) /\ known' = [known EXCEPT ![n] = d]
            BY <1>2, <1>4, <2>4 DEF Skills!Compare
        <3>2. known'[n] = d /\ \A m \in Skills!Names : m # n => known'[m] = known[m]
            BY <1>0, <1>2, <3>1 DEF SkillTables
        <3>3. registry'[n] = AsOnDisk(d)
              /\ \A m \in Skills!Names : m # n => registry'[m] = registry[m]
            BY <1>0, <1>1, <1>2, <3>1, SkillRegisters DEF AsOnDisk
        <3> QED
            BY <1>1, <1>2, <2>2, <3>2, <3>3
    <2> QED
        BY <2>3, <2>4
<1> QED
    BY <1>3, <1>4

LEMMA SkillKnownKept == ASSUME SkillsInv, Skills!Next PROVE KnownIsRegistered'
<1>0. SkillShapes /\ SkillTables /\ KnownIsRegistered
    BY DEF SkillsInv, SkillShapes
<1>1. CASE \E d \in Dirs : Skills!Scan(d)
    <2>1. scanned # {} /\ watching' = watching
        BY <1>1 DEF Skills!Scan
    <2> QED
        BY <2>1 DEF SkillsInv, ScannedSoFar, KnownIsRegistered
<1>2. CASE Skills!Watch
    <2>1. /\ ~watching /\ (~missed' => ~missed)
          /\ UNCHANGED <<disk, registry, cache>>
          /\ \A n \in Skills!Names : known'[n] = registry[n].dir
        BY <1>2 DEF Skills!Watch
    <2>2. \A n \in Skills!Names : n[1] # NoDir
        BY SkillNameDir, ServicesLimits DEF Skills!SkillLimits
    <2>3. \A n \in Skills!Names : registry[n] = AsOnDisk(n[1]) => registry[n].dir = n[1]
        BY DEF AsOnDisk
    <2>4. \A n \in Skills!Names : registry[n] = Skills!NotRegistered => registry[n].dir = NoDir
        BY DEF Skills!NotRegistered
    <2> QED
        BY <2>1, <2>2, <2>3, <2>4
        DEF SkillsInv, ScannedSoFar, KnownIsRegistered, AsOnDisk, Skills!Holds
<1>3. CASE \E d \in Dirs : Skills!Change(d)
    <2>1. PICK d \in Dirs : Skills!Change(d)
        BY <1>3
    <2>2. \A e \in Dirs : e # d => disk'[e] = disk[e]
        BY <1>0, <2>1 DEF Skills!Change, SkillShapes, SkillDirs
    <2>3. UNCHANGED <<watching, registry, known, cache>>
        BY <2>1 DEF Skills!Change
    <2>4. ~missed' => ~missed /\ \A n \in Skills!Names :
              ~(Skills!Holds(d, n) /\ known[n] # NoDir /\ cache[n] = Skills!Absent)
        BY <2>1 DEF Skills!Change
    <2> SUFFICES ASSUME watching, ~missed' PROVE KnownIsRegistered'
        BY <2>3 DEF KnownIsRegistered
    <2>5. ASSUME NEW n \in Skills!Names, known[n] # NoDir, cache[n] = Skills!Absent
          PROVE  disk'[n[1]] = disk[n[1]]
        <3>1. Skills!Holds(n[1], n)
            BY <1>0, <2>4, <2>5 DEF KnownIsRegistered
        <3> QED
            BY <2>2, <2>4, <2>5, <3>1, SkillNameDir
    <2>6. ~missed /\ ~missed' /\ watching'
        BY <2>3, <2>4
    <2> QED
        BY <1>0, <2>3, <2>5, <2>6 DEF KnownIsRegistered, AsOnDisk, Skills!Holds
<1>4. CASE Skills!List
    <2>1. /\ UNCHANGED <<disk, watching, missed>>
          /\ \A n \in Skills!Names :
                \/ /\ registry'[n] = registry[n] /\ known'[n] = known[n] /\ cache'[n] = cache[n]
                \/ /\ registry'[n] = Skills!NotRegistered /\ known'[n] = NoDir
                   /\ cache'[n] = Skills!Absent
        BY <1>4 DEF Skills!List, Skills!Rescanning
    <2> QED
        BY <1>0, <2>1 DEF KnownIsRegistered, AsOnDisk, Skills!Holds
<1>5. CASE Skills!Compare
    <2>1. disk' = disk /\ watching' = watching /\ missed' = missed
        BY <1>5 DEF Skills!Compare, Skills!Rescanning
    <2> SUFFICES ASSUME watching, ~missed PROVE KnownIsRegistered'
        BY <2>1, Zenon DEF KnownIsRegistered
    <2> DEFINE d == parsed.dir
               n == parsed.content.name
    <2>2. /\ d \in Dirs /\ n \in Skills!Names /\ n[1] = d /\ disk[d] = parsed.content
          /\ disk[d] # Skills!Absent /\ disk[d].name = n
          /\ \A m \in Skills!Names : m # n =>
                 registry'[m] = registry[m] /\ known'[m] = known[m] /\ cache'[m] = cache[m]
          /\ cache'[n] = disk[d]
          /\ \/ /\ known[n] # NoDir /\ cache[n] \in {Skills!Absent, disk[d]}
                /\ known'[n] = known[n] /\ registry'[n] = registry[n]
             \/ known'[n] = d /\ registry'[n] = AsOnDisk(d)
        BY <1>5, SkillCompares
    <2> HIDE DEF d, n
    <2>3. d # NoDir
        BY <2>2, ServicesLimits DEF Skills!SkillLimits
    <2>4. AsOnDisk(d).dir = d /\ AsOnDisk(d) = [dir |-> d, version |-> disk[d].version]
        BY DEF AsOnDisk
    <2>5. known'[n] = d /\ registry'[n] = [dir |-> d, version |-> disk[d].version]
        <3>1. CASE known'[n] = d /\ registry'[n] = AsOnDisk(d)
            BY <2>4, <3>1
        <3>2. CASE /\ known[n] # NoDir /\ cache[n] \in {Skills!Absent, disk[d]}
                   /\ known'[n] = known[n] /\ registry'[n] = registry[n]
            <4>1. known[n] = d
                BY <1>0, <2>2, <3>2 DEF KnownIsRegistered
            <4>2. registry[n] = [dir |-> d, version |-> disk[d].version]
                BY <1>0, <2>2, <2>4, <3>2 DEF KnownIsRegistered
            <4> QED
                BY <3>2, <4>1, <4>2
        <3> QED
            BY <2>2, <3>1, <3>2
    <2>6. registry'[n].dir = d /\ registry'[n] = [dir |-> d, version |-> cache'[n].version]
        BY <2>2, <2>5
    <2> QED
        BY <1>0, <2>1, <2>2, <2>3, <2>5, <2>6 DEF KnownIsRegistered, AsOnDisk, Skills!Holds
<1>6. CASE /\ UNCHANGED <<disk, watching, registry, known, cache>>
           /\ ~missed' => ~missed
    BY <1>0, <1>6 DEF KnownIsRegistered, AsOnDisk, Skills!Holds
<1>7. CASE Skills!Reported \/ Skills!Fires \/ Skills!Rescanned \/ \E d \in Dirs : Skills!Parse(d)
    <2>1. UNCHANGED <<disk, watching, registry, known, cache>>
        BY <1>7 DEF Skills!Reported, Skills!Fires, Skills!Rescanned, Skills!Parse, Skills!Rescanning
    <2>2. ~missed' => ~missed
        BY <1>7 DEF Skills!Reported, Skills!Fires, Skills!Rescanned, Skills!Parse, Skills!Rescanning
    <2> QED
        BY <1>6, <2>1, <2>2
<1> QED
    BY <1>1, <1>2, <1>3, <1>4, <1>5, <1>7 DEF Skills!Next, Skills!Progress

LEMMA SkillPassedKept == ASSUME SkillsInv, Skills!Next PROVE PassedIsRegistered'
<1>0. SkillShapes /\ SkillFlags /\ SkillInHand /\ KnownIsRegistered /\ PassedIsRegistered
    BY DEF SkillsInv, SkillShapes
<1>1. CASE \E d \in Dirs : Skills!Scan(d)
    <2>1. scanned # {} /\ watching' = watching
        BY <1>1 DEF Skills!Scan
    <2> QED
        BY <2>1 DEF SkillsInv, ScannedSoFar, PassedIsRegistered, UpToDate
<1>2. CASE Skills!Watch
    <2>1. /\ ~watching /\ missed' = missed /\ UNCHANGED <<disk, registry, scanned>>
          /\ scanned = {} /\ \A n \in Skills!Names : known'[n] = registry[n].dir
        BY <1>2 DEF Skills!Watch
    <2> SUFFICES ASSUME ~missed PROVE PassedIsRegistered'
        BY <2>1 DEF PassedIsRegistered, UpToDate
    <2>2. \A n \in Skills!Names : registry[n] = Skills!NotRegistered => registry[n].dir = NoDir
        BY DEF Skills!NotRegistered
    <2>3. \A n \in Skills!Names : known'[n] # NoDir => disk[n[1]] # Skills!Absent
        BY <1>0, <2>1, <2>2, SkillHeld, SkillNameDir DEF SkillsInv, ScannedSoFar
    <2>4. \A d \in Dirs : \A n \in Skills!Names : Skills!Holds(d, n) => registry[n] = AsOnDisk(d)
        BY <2>1 DEF SkillsInv, ScannedSoFar
    <2> QED
        BY <2>1, <2>3, <2>4 DEF PassedIsRegistered, AsOnDisk, Skills!Holds
<1>3. CASE \E d \in Dirs : Skills!Change(d)
    <2>1. watching' = watching /\ reported' = watching
        BY <1>3 DEF Skills!Change
    <2> QED
        BY <2>1 DEF PassedIsRegistered, UpToDate
<1>4. CASE Skills!Reported
    BY <1>4 DEF Skills!Reported, PassedIsRegistered, UpToDate
<1>5. CASE Skills!Fires
    <2>1. rescan' = "listing" \/ missed'
        BY <1>5 DEF Skills!Fires
    <2> QED
        BY <2>1 DEF PassedIsRegistered, UpToDate
<1>6. CASE Skills!List
    <2>1. /\ UNCHANGED <<disk, watching, missed, parsed>>
          /\ left' = {d \in Dirs : disk[d] # Skills!Absent}
          /\ \A n \in Skills!Names :
                known'[n] = IF known[n] \in Dirs \ left' THEN NoDir ELSE known[n]
        BY <1>6 DEF Skills!List, Skills!Rescanning
    <2> SUFFICES ASSUME watching, ~missed PROVE PassedIsRegistered'
        BY <2>1 DEF PassedIsRegistered, UpToDate
    <2>2. \A n \in Skills!Names : known'[n] # NoDir => disk[n[1]] # Skills!Absent
        BY <1>0, <2>1, SkillNameDir DEF KnownIsRegistered
    <2>3. \A d \in Dirs \ left' : \A n \in Skills!Names : ~Skills!Holds(d, n)
        BY <1>0, <2>1, SkillHeld
    <2> QED
        BY <2>1, <2>2, <2>3 DEF PassedIsRegistered, Skills!Holds
<1>7. CASE \E d \in Dirs : Skills!Parse(d)
    <2>1. PICK d \in Dirs : Skills!Parse(d)
        BY <1>7
    <2>2. /\ UNCHANGED <<disk, watching, missed, reported, debounce, rescan, registry, known>>
          /\ left' = left \ {d} /\ parsed = Skills!NotParsed
        BY <2>1 DEF Skills!Parse, Skills!Rescanning
    <2> SUFFICES ASSUME UpToDate PROVE PassedIsRegistered'
        BY <2>2 DEF PassedIsRegistered, UpToDate
    <2>3. \A e \in Dirs : e # parsed.dir
        BY <2>2, ServicesLimits DEF Skills!NotParsed, Skills!SkillLimits
    <2>4. \/ parsed'.dir = d
          \/ \A n \in Skills!Names : ~Skills!Holds(d, n)
        BY <2>1 DEF Skills!Parse
    <2> QED
        BY <1>0, <2>2, <2>3, <2>4 DEF PassedIsRegistered, AsOnDisk, Skills!Holds
<1>8. CASE Skills!Compare
    <2>1. /\ UNCHANGED <<disk, watching, missed, reported, debounce, rescan, left>>
          /\ parsed' = Skills!NotParsed
        BY <1>8 DEF Skills!Compare, Skills!Rescanning
    <2> SUFFICES ASSUME UpToDate PROVE PassedIsRegistered'
        BY <2>1 DEF PassedIsRegistered, UpToDate
    <2>2. ~missed /\ watching
        BY DEF UpToDate
    <2> DEFINE d == parsed.dir
               n == parsed.content.name
    <2>3. /\ d \in Dirs /\ n \in Skills!Names /\ n[1] = d /\ disk[d] = parsed.content
          /\ disk[d] # Skills!Absent /\ disk[d].name = n
          /\ \A m \in Skills!Names : m # n =>
                 registry'[m] = registry[m] /\ known'[m] = known[m] /\ cache'[m] = cache[m]
          /\ cache'[n] = disk[d]
          /\ \/ /\ known[n] # NoDir /\ cache[n] \in {Skills!Absent, disk[d]}
                /\ known'[n] = known[n] /\ registry'[n] = registry[n]
             \/ known'[n] = d /\ registry'[n] = AsOnDisk(d)
        BY <1>8, <2>2, SkillCompares
    <2> HIDE DEF d, n
    <2>4. registry'[n] = AsOnDisk(d)
        <3>1. AsOnDisk(d) = [dir |-> d, version |-> disk[d].version]
            BY DEF AsOnDisk
        <3>2. CASE known[n] # NoDir /\ registry'[n] = registry[n]
                   /\ cache[n] \in {Skills!Absent, disk[d]}
            BY <1>0, <2>2, <2>3, <3>1, <3>2 DEF KnownIsRegistered
        <3> QED
            BY <2>3, <3>2
    <2>5. \A m \in Skills!Names : known'[m] # NoDir => disk[m[1]] # Skills!Absent
        BY <1>0, <2>3 DEF PassedIsRegistered
    <2>6. \A e \in Dirs \ left : \A m \in Skills!Names :
              Skills!Holds(e, m) => registry'[m] = AsOnDisk(e)
        <3> TAKE e \in Dirs \ left
        <3> TAKE m \in Skills!Names
        <3> HAVE Skills!Holds(e, m)
        <3>1. CASE e = d
            <4>1. m = n
                BY <2>3, <3>1 DEF Skills!Holds
            <4> QED
                BY <2>4, <3>1, <4>1
        <3>2. CASE e # d
            <4>1. m[1] = e
                BY <1>0, SkillHeld
            <4>2. registry[m] = AsOnDisk(e)
                BY <1>0, <3>2 DEF PassedIsRegistered, d
            <4> QED
                BY <2>3, <3>2, <4>1, <4>2
        <3> QED
            BY <3>1, <3>2
    <2> QED
        BY <2>1, <2>5, <2>6 DEF PassedIsRegistered, AsOnDisk, Skills!Holds
<1>9. CASE Skills!Rescanned
    <2>1. /\ UNCHANGED <<disk, watching, missed, reported, debounce, left, parsed, registry, known>>
          /\ rescan = "reading"
        BY <1>9 DEF Skills!Rescanned, Skills!Rescanning
    <2> QED
        BY <1>0, <2>1 DEF PassedIsRegistered, UpToDate, AsOnDisk, Skills!Holds
<1> QED
    BY <1>1, <1>2, <1>3, <1>4, <1>5, <1>6, <1>7, <1>8, <1>9 DEF Skills!Next, Skills!Progress

LEMMA SkillsNextInv == SkillsInv /\ [Skills!Next]_skillVars => SkillsInv'
<1> SUFFICES ASSUME SkillsInv, [Skills!Next]_skillVars PROVE SkillsInv'
    OBVIOUS
<1>1. CASE Skills!Next
    <2>1. SkillShapes
        BY DEF SkillsInv
    <2>2. SkillShapes'
        BY <1>1, <2>1, SkillFlagsKept, SkillDirsKept, SkillTablesKept, SkillInHandKept
        DEF SkillShapes
    <2> QED
        BY <1>1, <2>2, SkillScannedKept, SkillKnownKept, SkillPassedKept DEF SkillsInv
<1>2. CASE UNCHANGED skillVars
    BY <1>2 DEF skillVars, SkillsInv, SkillShapes, SkillFlags, SkillDirs, SkillTables, SkillInHand,
        ScannedSoFar, KnownIsRegistered, PassedIsRegistered, UpToDate, AsOnDisk, Skills!Holds
<1> QED
    BY <1>1, <1>2

LEMMA SkillsHold == SkillsInv => Skills!SkillsMirrored
<1> SUFFICES ASSUME SkillsInv, Skills!Resting, ~missed PROVE Skills!SkillsMirrored
    BY DEF Skills!SkillsMirrored
<1>1. UpToDate /\ rescan = "no"
    BY DEF Skills!Resting, UpToDate
<1>2. SkillShapes /\ parsed = Skills!NotParsed /\ left = {}
    BY <1>1 DEF SkillsInv, SkillShapes, SkillInHand
<1>3. NoDir \notin Dirs /\ parsed.dir = NoDir
    BY <1>2, ServicesLimits DEF Skills!NotParsed, Skills!SkillLimits
<1>4. \A n \in Skills!Names : registry[n] # Skills!NotRegistered => disk[registry[n].dir] # Skills!Absent
    BY <1>1 DEF SkillsInv, KnownIsRegistered, PassedIsRegistered, UpToDate
<1>5. \A d \in Dirs : \A n \in Skills!Names :
          Skills!Holds(d, n) => registry[n] = [dir |-> d, version |-> disk[d].version]
    BY <1>1, <1>2, <1>3 DEF SkillsInv, PassedIsRegistered, AsOnDisk
<1> QED
    BY <1>4, <1>5 DEF Skills!SkillsMirrored

-----------------------------------------------------------------------------
(* PluginHost: a thread that is alive has a timer or a stop; and as long   *)
(* as no load meets an earlier sandbox or its calls, everything is about   *)
(* the sandbox of the last load.                                           *)

InProgress == Plugins!BagToSet(pluginCalls)
CallShape(c) ==
    /\ c = Plugins!Call(c.does, c.sandbox, c.at)
    /\ c.does \in {"stop", "unload", "event"} /\ c.sandbox \in 1..loads
    /\ c.at \in {"pending", "grace", "terminate"} /\ (c.at = "pending" => c.does = "event")

PluginBag == Plugins!IsABag(pluginCalls)
PluginCalls == \A c \in InProgress : CallShape(c)
PluginThreads ==
    /\ worker \in [Plugins!Sandboxes -> {"none", "initializing", "serving", "terminating", "exited"}]
    /\ tangled \in BOOLEAN
    /\ \A s \in Plugins!Sandboxes : s > loads => worker[s] = "none"
PluginNumbers ==
    /\ loads \in 0..MaxLoads /\ asked \in 0..MaxAsked /\ loaded \in 0..loads
    /\ running \subseteq 1..loads /\ watchdog \subseteq running /\ handlers \subseteq 1..loads
    /\ starting \subseteq running
PluginShapes == PluginBag /\ PluginCalls /\ PluginThreads /\ PluginNumbers

\* A sandbox that still starts has not been used.
StartsUnused ==
    /\ loaded \notin starting /\ starting \cap handlers = {}
    /\ \A c \in InProgress : c.sandbox \notin starting

\* A thread that is alive has someone who will end it, who has not yet done so.
Watched ==
    /\ \A c \in InProgress : c.at = "terminate" => c.sandbox \notin Plugins!Alive
    /\ \A s \in Plugins!Alive :
          s \in watchdog \/ \E c \in InProgress : c.sandbox = s /\ c.at # "pending"

\* Only the last sandbox is in use; and who stops one that is loaded does so
\* together with an unload, after which no handler of it is left.
OneSandbox ==
    ~tangled =>
        /\ loaded \in {0, loads} /\ running \subseteq {loads} /\ handlers \subseteq {loaded}
        /\ Plugins!Alive \subseteq {loads}
        /\ \A c \in InProgress : c.sandbox = loads
        /\ \A c \in InProgress : c.does = "unload" => handlers = {}
        /\ \A c \in InProgress : c.does = "stop" /\ loaded # 0 =>
               \E u \in InProgress : u.does = "unload"
        /\ loaded = 0 \/ (loaded \in Plugins!Alive \cap running /\ handlers = {loaded})
              \/ \E c \in InProgress : c.at # "pending"

PluginsInv == PluginShapes /\ StartsUnused /\ Watched /\ OneSandbox

-----------------------------------------------------------------------------
\* What the operators on bags do to the elements.

LEMMA BagPlus ==
    ASSUME NEW B, NEW n \in Nat, NEW c, Plugins!IsABag(B)
    PROVE  /\ Plugins!IsABag(Plugins!Plus(B, n, c))
           /\ Plugins!BagToSet(Plugins!Plus(B, n, c)) =
                 Plugins!BagToSet(B) \cup (IF n = 0 THEN {} ELSE {c})
<1>1. CASE n = 0
    BY <1>1 DEF Plugins!Plus
<1>2. CASE n # 0
    <2> DEFINE D == DOMAIN B \cup {c}
               b(x) == IF x \in DOMAIN B THEN B[x] ELSE 0
    <2>1. Plugins!Plus(B, n, c) = [x \in D |-> b(x) + IF x = c THEN n ELSE 0]
        BY <1>2 DEF Plugins!Plus, Plugins!Number, Plugins!BagToSet
    <2>2. \A x \in D : b(x) \in Nat /\ (x # c => b(x) > 0)
        BY DEF Plugins!IsABag
    <2> HIDE DEF b
    <2>3. \A x \in D : b(x) + (IF x = c THEN n ELSE 0) \in {m \in Nat : m > 0}
        BY <1>2, <2>2
    <2> QED
        BY <1>2, <2>1, <2>3 DEF Plugins!IsABag, Plugins!BagToSet
<1> QED
    BY <1>1, <1>2

LEMMA BagAdds ==
    ASSUME NEW B, NEW c, Plugins!IsABag(B)
    PROVE  /\ Plugins!IsABag(Plugins!BagAdd(B, c))
           /\ Plugins!BagToSet(Plugins!BagAdd(B, c)) = Plugins!BagToSet(B) \cup {c}
BY DEF Plugins!BagAdd, Plugins!IsABag, Plugins!BagToSet

LEMMA BagRemoves ==
    ASSUME NEW B, NEW c, Plugins!IsABag(B)
    PROVE  /\ Plugins!IsABag(Plugins!BagRemove(B, c))
           /\ Plugins!BagToSet(Plugins!BagRemove(B, c)) \subseteq Plugins!BagToSet(B)
           /\ Plugins!BagToSet(B) \ {c} \subseteq Plugins!BagToSet(Plugins!BagRemove(B, c))
BY DEF Plugins!BagRemove, Plugins!IsABag, Plugins!BagToSet

LEMMA BagRemovesAll ==
    ASSUME NEW B, NEW c, Plugins!IsABag(B)
    PROVE  /\ Plugins!IsABag(Plugins!BagRemoveAll(B, c))
           /\ Plugins!BagToSet(Plugins!BagRemoveAll(B, c)) = Plugins!BagToSet(B) \ {c}
BY DEF Plugins!BagRemoveAll, Plugins!IsABag, Plugins!BagToSet

LEMMA BagNumber ==
    ASSUME NEW B, NEW c, Plugins!IsABag(B)
    PROVE  Plugins!Number(c, B) \in Nat
BY DEF Plugins!Number, Plugins!IsABag, Plugins!BagToSet

LEMMA NoCalls == Plugins!IsABag(Plugins!EmptyBag) /\ Plugins!BagToSet(Plugins!EmptyBag) = {}
BY DEF Plugins!EmptyBag, Plugins!SetToBag, Plugins!IsABag, Plugins!BagToSet

LEMMA CallFields ==
    ASSUME NEW does, NEW s, NEW a
    PROVE  /\ Plugins!Call(does, s, a).does = does
           /\ Plugins!Call(does, s, a).sandbox = s
           /\ Plugins!Call(does, s, a).at = a
BY DEF Plugins!Call

LEMMA PluginsInitInv == Plugins!Init => PluginsInv
<1> SUFFICES ASSUME Plugins!Init PROVE PluginsInv
    OBVIOUS
<1> USE DEF Plugins!Init
<1>1. PluginBag /\ InProgress = {}
    <2>1. pluginCalls = Plugins!EmptyBag
        OBVIOUS
    <2> QED
        BY <2>1, NoCalls DEF PluginBag, InProgress
<1>2. PluginThreads
    BY DEF PluginThreads
<1>3. PluginNumbers
    <2>1. MaxLoads \in Nat /\ MaxAsked \in Nat
        BY ServicesLimits DEF Plugins!PluginLimits
    <2>2. loads = 0 /\ asked = 0 /\ loaded = 0 /\ {running, watchdog, handlers, starting} = {{}}
        OBVIOUS
    <2> QED
        BY <2>1, <2>2 DEF PluginNumbers
<1>4. Plugins!Alive = {}
    BY DEF Plugins!Alive
<1> QED
    BY <1>1, <1>2, <1>3, <1>4
    DEF PluginsInv, PluginShapes, PluginCalls, StartsUnused, Watched, OneSandbox

\* n calls of unloadPlugin leave no handler on the bus, and the plugin unloaded or
\* about to be.
LEMMA Unloading ==
    ASSUME PluginNumbers, NEW n \in Nat \ {0}, NEW others, Plugins!IsABag(others),
           Plugins!Unloads(n, others)
    PROVE  /\ PluginBag' /\ handlers' \subseteq handlers
           /\ loaded # 0 => handlers' = {}
           /\ \/ /\ loaded \in running /\ loaded' = loaded /\ loaded # 0
                 /\ InProgress' = Plugins!BagToSet(others) \cup {Plugins!Call("unload", loaded, "grace")}
              \/ /\ loaded \notin running /\ loaded' = 0
                 /\ InProgress' = Plugins!BagToSet(others)
<1>1. n > 0 /\ n # 0 /\ (loaded \in running => loaded # 0)
    BY DEF PluginNumbers
<1>2. handlers' \subseteq handlers /\ (loaded # 0 => handlers' = {})
    BY <1>1 DEF Plugins!Unloads
<1>3. CASE loaded \in running
    <2>1. /\ loaded' = loaded
          /\ pluginCalls' = Plugins!Plus(others, n, Plugins!Call("unload", loaded, "grace"))
        BY <1>3 DEF Plugins!Unloads
    <2> QED
        BY <1>1, <1>2, <1>3, <2>1, BagPlus DEF PluginBag, InProgress
<1>4. CASE loaded \notin running
    BY <1>1, <1>2, <1>4 DEF Plugins!Unloads, PluginBag, InProgress
<1> QED
    BY <1>3, <1>4

LEMMA PluginTypes ==
    ASSUME PluginsInv
    PROVE  /\ loads \in Nat /\ loads \in 0..MaxLoads /\ MaxLoads \in Nat /\ MaxAsked \in Nat
           /\ asked \in 0..MaxAsked
           /\ running \subseteq 1..loads /\ 1..loads \subseteq Plugins!Sandboxes
           /\ loaded \in 0..loads /\ starting \subseteq running
           /\ Plugins!Alive \subseteq 1..loads /\ running \subseteq Plugins!Sandboxes
           /\ Plugins!IsABag(pluginCalls)
BY ServicesLimits
DEF PluginsInv, PluginShapes, PluginBag, PluginNumbers, PluginThreads, Plugins!Alive, Plugins!Sandboxes,
    Plugins!PluginLimits

\* A step in which the plugin is unloaded, and sandbox s may be stopped besides.
StopStep(n, others, s, X) ==
    /\ Plugins!IsABag(others) /\ Plugins!Unloads(n, others)
    /\ X # {} => s \in Plugins!Alive \cup running /\ s \notin starting'
    /\ X \subseteq {Plugins!Call("stop", s, "grace")}
    /\ Plugins!BagToSet(others) = InProgress \cup X
    /\ UNCHANGED <<running, loads, tangled>> /\ asked' \in 0..MaxAsked
    /\ worker' \in [Plugins!Sandboxes ->
                       {"none", "initializing", "serving", "terminating", "exited"}]
    /\ \A t \in Plugins!Sandboxes : worker[t] = "none" => worker'[t] = "none"
    /\ Plugins!Alive' \subseteq Plugins!Alive
    /\ starting' \subseteq starting /\ watchdog' \subseteq watchdog
    /\ \A t \in watchdog \cap Plugins!Alive' : t \in watchdog' \/ (t = s /\ X # {})

LEMMA PluginStops ==
    ASSUME PluginsInv, NEW n \in Nat \ {0}, NEW others, NEW s, NEW X, StopStep(n, others, s, X)
    PROVE  PluginsInv'
<1> USE DEF PluginsInv, PluginShapes, StopStep
<1> DEFINE U == Plugins!Call("unload", loaded, "grace")
           S == Plugins!Call("stop", s, "grace")
<1>1. /\ PluginBag' /\ handlers' \subseteq handlers /\ (loaded # 0 => handlers' = {})
      /\ \/ /\ loaded \in running /\ loaded' = loaded /\ loaded # 0
            /\ InProgress' = InProgress \cup X \cup {U}
         \/ /\ loaded \notin running /\ loaded' = 0
            /\ InProgress' = InProgress \cup X
    BY Unloading
<1>2. /\ U.does = "unload" /\ U.sandbox = loaded /\ U.at = "grace"
      /\ S.does = "stop" /\ S.sandbox = s /\ S.at = "grace"
      /\ U = Plugins!Call(U.does, U.sandbox, U.at) /\ S = Plugins!Call(S.does, S.sandbox, S.at)
    BY CallFields
<1>3. (X # {} => s \in 1..loads) /\ (loaded \in running => loaded \in 1..loads)
    BY PluginTypes
<1> HIDE DEF U, S
<1>4. X \subseteq {S}
    BY DEF S
<1>5. PluginCalls'
    BY <1>1, <1>2, <1>3, <1>4 DEF PluginCalls, CallShape
<1>6. PluginThreads'
    BY DEF PluginThreads
<1>7. PluginNumbers'
    BY <1>1 DEF PluginNumbers
<1>8. StartsUnused'
    <2>1. loaded' \notin starting'
        BY <1>1 DEF StartsUnused, PluginNumbers
    <2> QED
        BY <1>1, <1>2, <1>4, <2>1 DEF StartsUnused
<1>9. Watched'
    <2>1. \A c \in InProgress' : c.at = "terminate" => c \in InProgress
        BY <1>1, <1>2, <1>4
    <2>2. InProgress \cup X \subseteq InProgress'
        BY <1>1
    <2> QED
        BY <1>2, <1>4, <2>1, <2>2 DEF Watched
<1>10. OneSandbox'
    <2> SUFFICES ASSUME ~tangled PROVE OneSandbox'
        BY DEF OneSandbox
    <2>1. handlers' = {}
        BY <1>1 DEF OneSandbox, PluginNumbers
    <2>2. X # {} => s = loads
        BY DEF OneSandbox
    <2>3. \A c \in InProgress' : c.sandbox = loads
        BY <1>1, <1>2, <1>4, <2>2 DEF OneSandbox
    <2>4. loaded' = 0 \/ U \in InProgress'
        BY <1>1
    <2> QED
        BY <1>1, <1>2, <2>1, <2>3, <2>4 DEF OneSandbox
<1> QED
    BY <1>1, <1>5, <1>6, <1>7, <1>8, <1>9, <1>10

LEMMA PluginLoads == ASSUME PluginsInv, Plugins!Load PROVE PluginsInv'
<1> USE DEF PluginsInv, PluginShapes
<1> DEFINE s == loads + 1
<1>1. /\ loads < MaxLoads /\ loads' = s /\ loaded = 0 /\ loaded' = 0
      /\ running' = running \cup {s} /\ watchdog' = watchdog \cup {s}
      /\ starting' = starting \cup {s} /\ worker' = [worker EXCEPT ![s] = "initializing"]
      /\ UNCHANGED <<handlers, pluginCalls, asked>>
    BY DEF Plugins!Load
<1>2. tangled' \in BOOLEAN /\ (~tangled' => ~tangled /\ running = {} /\ pluginCalls = Plugins!EmptyBag)
    BY DEF Plugins!Load, PluginThreads
<1>3. /\ loads \in Nat /\ s \in Plugins!Sandboxes /\ s \in 1..s /\ s # 0 /\ 1..loads \subseteq 1..s
      /\ s \notin 1..loads /\ s \in 0..MaxLoads /\ 0 \in 0..s
      /\ handlers \subseteq 1..loads /\ running \subseteq 1..loads
    BY <1>1, PluginTypes DEF Plugins!Sandboxes, PluginNumbers
<1>4. worker' \in [Plugins!Sandboxes ->
                      {"none", "initializing", "serving", "terminating", "exited"}]
    BY <1>1 DEF PluginThreads
<1>5. Plugins!Alive' = Plugins!Alive \cup {s}
    BY <1>1, <1>3, <1>4 DEF Plugins!Alive, PluginThreads
<1>6. Plugins!Alive \subseteq 1..loads /\ \A c \in InProgress : c.sandbox \in 1..loads
    BY PluginTypes DEF PluginCalls, CallShape
<1>7. InProgress' = InProgress
    BY <1>1 DEF InProgress
<1>8. PluginBag'
    BY <1>1 DEF PluginBag
<1>9. PluginCalls'
    BY <1>1, <1>3, <1>7 DEF PluginCalls, CallShape
<1>10. PluginThreads'
    <2>1. \A t \in Plugins!Sandboxes : t > s => worker'[t] = "none"
        BY <1>1, <1>3 DEF PluginThreads, Plugins!Sandboxes
    <2> QED
        BY <1>1, <1>2, <1>4, <2>1 DEF PluginThreads
<1>11. PluginNumbers'
    BY <1>1, <1>3 DEF PluginNumbers
<1>12. StartsUnused'
    BY <1>1, <1>3, <1>6, <1>7 DEF StartsUnused, PluginNumbers
<1>13. Watched'
    BY <1>1, <1>3, <1>5, <1>6, <1>7 DEF Watched
<1>14. OneSandbox'
    <2> SUFFICES ASSUME ~tangled' PROVE OneSandbox'
        BY DEF OneSandbox
    <2>1. ~tangled /\ InProgress = {}
        BY <1>2, NoCalls DEF InProgress
    <2>2. Plugins!Alive = {}
        BY <1>2, <2>1 DEF Watched, PluginNumbers
    <2>3. handlers = {}
        BY <1>1, <1>3, <2>1 DEF OneSandbox
    <2> QED
        BY <1>1, <1>2, <1>5, <1>7, <2>1, <2>2, <2>3 DEF OneSandbox
<1> QED
    BY <1>8, <1>9, <1>10, <1>11, <1>12, <1>13, <1>14

LEMMA PluginReady ==
    ASSUME PluginsInv, NEW s \in Plugins!Sandboxes, Plugins!Ready(s)
    PROVE  PluginsInv'
<1> USE DEF PluginsInv, PluginShapes
<1>1. /\ worker[s] = "initializing" /\ worker' = [worker EXCEPT ![s] = "serving"]
      /\ starting' = starting \ {s}
      /\ UNCHANGED <<running, watchdog, pluginCalls, loads, asked, tangled>>
      /\ \/ s \in starting /\ loaded' = s /\ handlers' = handlers \cup {s}
         \/ loaded' = loaded /\ handlers' = handlers
    BY DEF Plugins!Ready, Plugins!bounds
<1>2. /\ worker' \in [Plugins!Sandboxes ->
                        {"none", "initializing", "serving", "terminating", "exited"}]
      /\ Plugins!Alive' = Plugins!Alive /\ s \in Plugins!Alive
      /\ \A t \in Plugins!Sandboxes : worker[t] = "none" => worker'[t] = "none"
    BY <1>1 DEF Plugins!Alive, PluginThreads
<1>3. s \in 1..loads /\ s \in 0..loads /\ s # 0
    BY <1>2, PluginTypes
<1>4. InProgress' = InProgress /\ PluginBag'
    BY <1>1 DEF InProgress, PluginBag
<1>5. PluginCalls'
    BY <1>1, <1>4 DEF PluginCalls, CallShape
<1>6. PluginThreads'
    BY <1>1, <1>2 DEF PluginThreads
<1>7. PluginNumbers'
    BY <1>1, <1>3 DEF PluginNumbers
<1>8. StartsUnused'
    BY <1>1, <1>4 DEF StartsUnused
<1>9. Watched'
    BY <1>1, <1>2, <1>4 DEF Watched
<1>10. OneSandbox'
    <2> SUFFICES ASSUME ~tangled PROVE OneSandbox'
        BY <1>1 DEF OneSandbox
    <2>1. s = loads
        BY <1>2 DEF OneSandbox
    <2>2. CASE s \in starting /\ loaded' = s /\ handlers' = handlers \cup {s}
        <3>1. \A c \in InProgress : FALSE
            BY <2>1, <2>2 DEF OneSandbox, StartsUnused
        <3>2. handlers \subseteq {s} /\ s \in running
            BY <2>1, <2>2 DEF OneSandbox, PluginNumbers
        <3> QED
            BY <1>1, <1>2, <1>4, <2>1, <2>2, <3>1, <3>2 DEF OneSandbox
    <2>3. CASE loaded' = loaded /\ handlers' = handlers
        BY <1>1, <1>2, <1>4, <2>3 DEF OneSandbox
    <2> QED
        BY <1>1, <2>2, <2>3
<1> QED
    BY <1>4, <1>5, <1>6, <1>7, <1>8, <1>9, <1>10

\* A step that leaves the loader alone, and of the calls all that hold a sandbox.
LEMMA PluginGoesOn ==
    ASSUME PluginsInv, PluginBag',
           UNCHANGED <<running, watchdog, loaded, handlers, loads, tangled>>,
           asked' \in 0..MaxAsked, starting' \subseteq starting,
           worker' \in [Plugins!Sandboxes ->
               {"none", "initializing", "serving", "terminating", "exited"}],
           \A t \in Plugins!Sandboxes : worker[t] = "none" => worker'[t] = "none",
           Plugins!Alive' \subseteq Plugins!Alive,
           \A c \in InProgress : c.at # "pending" =>
               \/ c \in InProgress'
               \/ c.sandbox \notin Plugins!Alive' /\
                  \E d \in InProgress' : d.does = c.does /\ d.sandbox = c.sandbox /\ d.at # "pending",
           \A d \in InProgress' \ InProgress :
               /\ CallShape(d) /\ d.sandbox \notin starting'
               /\ d.at = "terminate" => d.sandbox \notin Plugins!Alive'
               /\ \/ \E c \in InProgress : d.does = c.does /\ d.sandbox = c.sandbox
                  \/ d.does = "event" /\ d.sandbox \in handlers \cap running,
           \A s \in Plugins!Alive : s \in Plugins!Alive' \/
               \E d \in InProgress' : d.sandbox = s /\ d.at # "pending"
    PROVE  PluginsInv'
<1> USE DEF PluginsInv, PluginShapes
<1>1. PluginCalls'
    BY DEF PluginCalls, CallShape
<1>2. PluginThreads'
    BY DEF PluginThreads
<1>3. PluginNumbers'
    BY DEF PluginNumbers
<1>4. StartsUnused'
    BY DEF StartsUnused
<1>5. Watched'
    BY DEF Watched
<1>6. OneSandbox'
    <2> SUFFICES ASSUME ~tangled PROVE OneSandbox'
        BY DEF OneSandbox
    <2>1. \A d \in InProgress' : d.sandbox = loads
        BY DEF OneSandbox
    <2>2. \A d \in InProgress' : d.does = "unload" => handlers = {}
        BY DEF OneSandbox
    <2>3. \A d \in InProgress' : d.does = "stop" => \E c \in InProgress : c.does = "stop"
        OBVIOUS
    <2>4. \A c \in InProgress : c.does # "event" => c.at # "pending"
        BY DEF PluginCalls, CallShape
    <2>5. (\E c \in InProgress : c.does = "unload") => \E d \in InProgress' : d.does = "unload"
        BY <2>4
    <2>6. (\E c \in InProgress : c.at # "pending") => \E d \in InProgress' : d.at # "pending"
        OBVIOUS
    <2> QED
        BY <2>1, <2>2, <2>3, <2>5, <2>6 DEF OneSandbox
<1> QED
    BY <1>1, <1>2, <1>3, <1>4, <1>5, <1>6

LEMMA PluginUnload == ASSUME PluginsInv, Plugins!Unload PROVE PluginsInv'
<1>1. asked' \in 0..MaxAsked /\ Plugins!Unloads(1, pluginCalls)
      /\ UNCHANGED <<worker, running, watchdog, starting, loads, tangled>>
    BY PluginTypes DEF Plugins!Unload
<1>2. Plugins!Alive' = Plugins!Alive
    BY <1>1 DEF Plugins!Alive
<1>3. worker \in [Plugins!Sandboxes -> {"none", "initializing", "serving", "terminating", "exited"}]
    BY DEF PluginsInv, PluginShapes, PluginThreads
<1>4. StopStep(1, pluginCalls, 0, {})
    BY <1>1, <1>2, <1>3, PluginTypes DEF StopStep, InProgress
<1> QED
    BY <1>4, PluginStops

LEMMA PluginEmits ==
    ASSUME PluginsInv, NEW s \in Plugins!Sandboxes, Plugins!Emit(s)
    PROVE  PluginsInv'
<1>1. asked' \in 0..MaxAsked /\ s \in handlers
      /\ UNCHANGED <<worker, running, watchdog, starting, loads, tangled>>
    BY PluginTypes DEF Plugins!Emit
<1>2. Plugins!Alive' = Plugins!Alive
    BY <1>1 DEF Plugins!Alive
<1>3. worker \in [Plugins!Sandboxes -> {"none", "initializing", "serving", "terminating", "exited"}]
    BY DEF PluginsInv, PluginShapes, PluginThreads
<1>4. CASE s \in running
    <2> DEFINE e == Plugins!Call("event", s, "pending")
    <2>1. pluginCalls' = Plugins!BagAdd(pluginCalls, e) /\ loaded' = loaded /\ handlers' = handlers
        BY <1>4 DEF Plugins!Emit
    <2>2. PluginBag' /\ InProgress' = InProgress \cup {e}
        BY <2>1, PluginTypes, BagAdds DEF InProgress, PluginBag
    <2>3. /\ e.does = "event" /\ e.sandbox = s /\ e.at = "pending"
          /\ e = Plugins!Call(e.does, e.sandbox, e.at)
        BY CallFields
    <2> HIDE DEF e
    <2>4. CallShape(e) /\ s \notin starting
        BY <1>1, <1>4, <2>3, PluginTypes DEF CallShape, PluginsInv, StartsUnused
    <2> QED
        BY <1>1, <1>2, <1>3, <1>4, <2>1, <2>2, <2>3, <2>4, PluginGoesOn
<1>5. CASE s \notin running
    <2>1. Plugins!Unloads(1, pluginCalls)
        BY <1>5 DEF Plugins!Emit
    <2>2. StopStep(1, pluginCalls, 0, {})
        BY <1>1, <1>2, <1>3, <2>1, PluginTypes DEF StopStep, InProgress
    <2> QED
        BY <2>2, PluginStops
<1> QED
    BY <1>4, <1>5

\* Steps of the threads.

LEMMA PluginCrashes ==
    ASSUME PluginsInv, NEW s \in Plugins!Sandboxes, Plugins!Crashes(s)
    PROVE  PluginsInv'
<1> DEFINE S == Plugins!Call("stop", s, "grace")
           others == Plugins!Plus(pluginCalls, 2, S)
           n == IF worker[s] = "initializing" THEN 3 ELSE 2
<1>1. /\ s \in Plugins!Alive /\ worker' = [worker EXCEPT ![s] = "exited"]
      /\ starting' = starting \ {s} /\ Plugins!Unloads(n, others)
      /\ UNCHANGED <<running, watchdog, loads, asked, tangled>>
    BY DEF Plugins!Crashes, Plugins!Failure, Plugins!bounds
<1>2. /\ worker' \in [Plugins!Sandboxes ->
                        {"none", "initializing", "serving", "terminating", "exited"}]
      /\ Plugins!Alive' \subseteq Plugins!Alive
      /\ \A t \in Plugins!Sandboxes : worker[t] = "none" => worker'[t] = "none"
    BY <1>1 DEF PluginsInv, PluginShapes, PluginThreads, Plugins!Alive
<1>3. Plugins!IsABag(others) /\ Plugins!BagToSet(others) = InProgress \cup {S}
    BY BagPlus, PluginTypes DEF InProgress
<1>4. n \in Nat \ {0}
    OBVIOUS
<1>5. asked' \in 0..MaxAsked
    BY <1>1, PluginTypes
<1> HIDE DEF n, others
<1>6. StopStep(n, others, s, {S})
    BY <1>1, <1>2, <1>3, <1>5 DEF StopStep
<1> QED
    BY <1>4, <1>6, PluginStops

LEMMA PluginTerminated ==
    ASSUME PluginsInv, NEW s \in Plugins!Sandboxes, Plugins!Terminated(s)
    PROVE  PluginsInv'
<1> DEFINE S == Plugins!Call("stop", s, "grace")
           others == Plugins!Plus(pluginCalls, 1, S)
<1>1. /\ worker[s] = "terminating" /\ worker' = [worker EXCEPT ![s] = "exited"]
      /\ starting' = starting \ {s}
      /\ UNCHANGED <<running, watchdog, loads, asked, tangled>>
    BY DEF Plugins!Terminated, Plugins!bounds
<1>2. /\ worker' \in [Plugins!Sandboxes ->
                        {"none", "initializing", "serving", "terminating", "exited"}]
      /\ Plugins!Alive' = Plugins!Alive
      /\ \A t \in Plugins!Sandboxes : worker[t] = "none" => worker'[t] = "none"
    BY <1>1 DEF PluginsInv, PluginShapes, PluginThreads, Plugins!Alive
<1>3. asked' \in 0..MaxAsked
    BY <1>1, PluginTypes
<1>4. CASE s \in running
    <2>1. Plugins!Unloads(1, others)
        BY <1>4 DEF Plugins!Terminated, Plugins!Failure
    <2>2. Plugins!IsABag(others) /\ Plugins!BagToSet(others) = InProgress \cup {S}
        BY BagPlus, PluginTypes DEF InProgress
    <2> HIDE DEF others
    <2>3. StopStep(1, others, s, {S})
        BY <1>1, <1>2, <1>3, <1>4, <2>1, <2>2 DEF StopStep
    <2> QED
        BY <2>3, PluginStops
<1>5. CASE s \notin running
    <2>1. UNCHANGED <<loaded, handlers, pluginCalls>>
        BY <1>5 DEF Plugins!Terminated
    <2>2. PluginBag' /\ InProgress' = InProgress
        BY <2>1, PluginTypes DEF PluginBag, InProgress
    <2> QED
        BY <1>1, <1>2, <1>3, <2>1, <2>2, PluginGoesOn
<1> QED
    BY <1>4, <1>5

LEMMA PluginWatchdog ==
    ASSUME PluginsInv, NEW s \in Plugins!Sandboxes, Plugins!WatchdogFires(s)
    PROVE  PluginsInv'
<1> DEFINE S == Plugins!Call("stop", s, "grace")
           others == Plugins!BagAdd(pluginCalls, S)
<1>1. /\ s \in watchdog \ starting /\ watchdog' = watchdog \ {s} /\ Plugins!Unloads(1, others)
      /\ UNCHANGED <<worker, running, starting, loads, asked, tangled>>
    BY DEF Plugins!WatchdogFires, Plugins!bounds
<1>2. /\ worker \in [Plugins!Sandboxes ->
                        {"none", "initializing", "serving", "terminating", "exited"}]
      /\ Plugins!Alive' = Plugins!Alive
    BY <1>1 DEF PluginsInv, PluginShapes, PluginThreads, Plugins!Alive
<1>3. Plugins!IsABag(others) /\ Plugins!BagToSet(others) = InProgress \cup {S}
    BY BagAdds, PluginTypes DEF InProgress
<1>4. asked' \in 0..MaxAsked /\ s \in running
    BY <1>1, PluginTypes DEF PluginsInv, PluginShapes, PluginNumbers
<1> HIDE DEF others
<1>5. StopStep(1, others, s, {S})
    BY <1>1, <1>2, <1>3, <1>4 DEF StopStep
<1> QED
    BY <1>5, PluginStops

LEMMA PluginThreadSteps ==
    ASSUME PluginsInv, NEW s \in Plugins!Sandboxes,
           Plugins!StartTimesOut(s) \/ Plugins!ShutsDown(s)
    PROVE  PluginsInv'
<1>1. /\ UNCHANGED <<running, watchdog, loaded, handlers, pluginCalls, loads, asked, tangled>>
      /\ starting' \subseteq starting
    BY DEF Plugins!StartTimesOut, Plugins!ShutsDown, Plugins!bounds
<1>2. PluginBag' /\ InProgress' = InProgress /\ asked' \in 0..MaxAsked
    BY <1>1, PluginTypes DEF PluginBag, InProgress
<1>3. worker' = worker \/ (worker' = [worker EXCEPT ![s] = "exited"] /\ s \in Plugins!Alive)
    <2>1. CASE Plugins!StartTimesOut(s)
        BY <2>1 DEF Plugins!StartTimesOut
    <2>2. CASE Plugins!ShutsDown(s)
        BY <2>2 DEF Plugins!ShutsDown
    <2> QED
        BY <2>1, <2>2
<1>4. /\ worker' \in [Plugins!Sandboxes ->
                        {"none", "initializing", "serving", "terminating", "exited"}]
      /\ Plugins!Alive' \subseteq Plugins!Alive
      /\ \A t \in Plugins!Sandboxes : worker[t] = "none" => worker'[t] = "none"
      /\ \A t \in Plugins!Sandboxes : t # s => worker'[t] = worker[t]
    BY <1>3 DEF PluginsInv, PluginShapes, PluginThreads, Plugins!Alive
<1>5. Plugins!ShutsDown(s) => \E d \in InProgress : d.sandbox = s /\ d.at # "pending"
    BY CallFields DEF Plugins!ShutsDown, Plugins!Ongoing, InProgress
<1>6. \A t \in Plugins!Alive : t \in Plugins!Alive' \/
          \E d \in InProgress' : d.sandbox = t /\ d.at # "pending"
    BY <1>2, <1>4, <1>5 DEF Plugins!Alive, Plugins!StartTimesOut
<1> QED
    BY <1>1, <1>2, <1>4, <1>6, PluginGoesOn

LEMMA PluginEvents ==
    ASSUME PluginsInv, NEW s \in Plugins!Sandboxes, Plugins!Handled(s) \/ Plugins!EventFails(s)
    PROVE  PluginsInv'
<1> DEFINE e == Plugins!Call("event", s, "pending")
           f == Plugins!Call("event", s, "grace")
           rest == Plugins!BagRemove(pluginCalls, e)
<1>1. UNCHANGED <<worker, running, watchdog, starting, loaded, handlers, loads, asked, tangled>>
    BY DEF Plugins!Handled, Plugins!EventFails, Plugins!bounds
<1>2. e \in InProgress
    BY DEF Plugins!Handled, Plugins!EventFails, Plugins!Ongoing, InProgress
<1>3. pluginCalls' = rest \/ pluginCalls' = Plugins!BagAdd(rest, f)
    BY DEF Plugins!Handled, Plugins!EventFails
<1>4. /\ Plugins!IsABag(rest) /\ Plugins!BagToSet(rest) \subseteq InProgress
      /\ InProgress \ {e} \subseteq Plugins!BagToSet(rest)
    BY BagRemoves, PluginTypes DEF InProgress
<1> HIDE DEF rest
<1>5. /\ PluginBag' /\ InProgress' \subseteq InProgress \cup {f}
      /\ InProgress \ {e} \subseteq InProgress'
    BY <1>3, <1>4, BagAdds DEF InProgress, PluginBag
<1>6. /\ e.does = "event" /\ e.sandbox = s /\ e.at = "pending"
      /\ f.does = "event" /\ f.sandbox = s /\ f.at = "grace"
      /\ f = Plugins!Call(f.does, f.sandbox, f.at)
    BY CallFields
<1> HIDE DEF e, f
<1>7. CallShape(f) /\ s \notin starting
    BY <1>2, <1>6 DEF PluginsInv, PluginShapes, PluginCalls, CallShape, StartsUnused
<1>8. Plugins!Alive' = Plugins!Alive /\ asked' \in 0..MaxAsked
    BY <1>1, PluginTypes DEF Plugins!Alive
<1>9. worker \in [Plugins!Sandboxes -> {"none", "initializing", "serving", "terminating", "exited"}]
    BY DEF PluginsInv, PluginShapes, PluginThreads
<1> QED
    BY <1>1, <1>2, <1>5, <1>6, <1>7, <1>8, <1>9, PluginGoesOn

LEMMA PluginTerminates ==
    ASSUME PluginsInv, NEW c \in InProgress, Plugins!Terminate(c)
    PROVE  PluginsInv'
<1> DEFINE d == [c EXCEPT !.at = "terminate"]
           s == c.sandbox
           rest == Plugins!BagRemove(pluginCalls, c)
<1>1. /\ UNCHANGED <<running, watchdog, starting, loaded, handlers, loads, asked, tangled>>
      /\ c.at = "grace" /\ pluginCalls' = Plugins!BagAdd(rest, d)
      /\ worker' = [worker EXCEPT ![s] = IF s \in Plugins!Alive THEN "terminating" ELSE @]
    BY DEF Plugins!Terminate, Plugins!bounds
<1>2. /\ Plugins!IsABag(rest) /\ Plugins!BagToSet(rest) \subseteq InProgress
      /\ InProgress \ {c} \subseteq Plugins!BagToSet(rest)
    BY BagRemoves, PluginTypes DEF InProgress
<1> HIDE DEF rest
<1>3. /\ PluginBag' /\ InProgress' \subseteq InProgress \cup {d} /\ d \in InProgress'
      /\ InProgress \ {c} \subseteq InProgress'
    BY <1>1, <1>2, BagAdds DEF InProgress, PluginBag
<1>4. CallShape(c) /\ s \notin starting /\ s \in Plugins!Sandboxes
    BY PluginTypes DEF PluginsInv, PluginShapes, PluginCalls, CallShape, StartsUnused
<1>5. d = Plugins!Call(c.does, s, "terminate")
    <2>1. c = [does |-> c.does, sandbox |-> s, at |-> c.at]
        BY <1>4 DEF CallShape, Plugins!Call
    <2> QED
        BY <2>1 DEF Plugins!Call
<1> HIDE DEF d
<1>6. d.does = c.does /\ d.sandbox = s /\ d.at = "terminate" /\ CallShape(d)
    BY <1>4, <1>5, CallFields DEF CallShape
<1>7. /\ worker' \in [Plugins!Sandboxes ->
                        {"none", "initializing", "serving", "terminating", "exited"}]
      /\ Plugins!Alive' = Plugins!Alive \ {s}
      /\ \A t \in Plugins!Sandboxes : worker[t] = "none" => worker'[t] = "none"
    BY <1>1, <1>4 DEF PluginsInv, PluginShapes, PluginThreads, Plugins!Alive
<1>8. asked' \in 0..MaxAsked
    BY <1>1, PluginTypes
<1> HIDE DEF s
<1> QED
    BY <1>1, <1>3, <1>4, <1>6, <1>7, <1>8, PluginGoesOn DEF s

\* A sandbox is cleaned up: the plugin is no longer loaded, or its unload is still
\* to come.
LEMMA PluginCleansUp ==
    ASSUME PluginsInv, NEW c \in InProgress, Plugins!Cleanup(c)
    PROVE  PluginsInv'
<1> USE DEF PluginsInv, PluginShapes
<1> DEFINE s == c.sandbox
           e == Plugins!Call("event", s, "pending")
           less == Plugins!BagRemove(pluginCalls, c)
           rest == Plugins!BagRemoveAll(less, e)
           failed == Plugins!Pending(s) + (IF c.does = "event" THEN 1 ELSE 0)
           other == c.does # "unload" /\ failed > 0 /\ loaded \in running \ {s}
           U == Plugins!Call("unload", loaded, "grace")
<1>1. /\ c.at = "terminate"
      /\ running' = running \ {s} /\ watchdog' = watchdog \ {s}
      /\ loaded' = IF c.does = "unload" \/ (failed > 0 /\ ~other) THEN 0 ELSE loaded
      /\ handlers' = IF c.does # "unload" /\ failed > 0 /\ loaded # 0 THEN {} ELSE handlers
      /\ pluginCalls' = IF other THEN Plugins!Plus(rest, failed, U) ELSE rest
      /\ UNCHANGED <<worker, starting, loads, asked, tangled>>
    BY DEF Plugins!Cleanup, Plugins!bounds
<1>2. failed \in Nat /\ (c.does = "event" => failed > 0)
    BY PluginTypes, BagNumber DEF Plugins!Pending
<1> HIDE DEF failed
<1>3. /\ Plugins!IsABag(less) /\ Plugins!BagToSet(less) \subseteq InProgress
      /\ InProgress \ {c} \subseteq Plugins!BagToSet(less)
    BY BagRemoves, PluginTypes DEF InProgress
<1> HIDE DEF less
<1>4. Plugins!IsABag(rest) /\ Plugins!BagToSet(rest) = Plugins!BagToSet(less) \ {e}
    BY <1>3, BagRemovesAll
<1> HIDE DEF rest
<1>5. other => loaded \in 1..loads
    BY PluginTypes
<1>6. /\ PluginBag' /\ InProgress \ {c, e} \subseteq InProgress'
      /\ InProgress' \subseteq InProgress \cup (IF other THEN {U} ELSE {})
    <2>1. CASE other
        BY <1>1, <1>2, <1>3, <1>4, <2>1, BagPlus DEF PluginBag, InProgress
    <2>2. CASE ~other
        BY <1>1, <1>3, <1>4, <2>2 DEF PluginBag, InProgress
    <2> QED
        BY <2>1, <2>2
<1>7. /\ U.does = "unload" /\ U.sandbox = loaded /\ U.at = "grace"
      /\ U = Plugins!Call(U.does, U.sandbox, U.at)
      /\ e.does = "event" /\ e.sandbox = s /\ e.at = "pending"
    BY CallFields
<1> HIDE DEF U, e
<1>8. s \notin starting /\ s \notin Plugins!Alive /\ CallShape(c)
    BY <1>1 DEF PluginCalls, StartsUnused, Watched
<1>9. Plugins!Alive' = Plugins!Alive
    BY <1>1 DEF Plugins!Alive
<1>10. PluginCalls'
    BY <1>1, <1>5, <1>6, <1>7 DEF PluginCalls, CallShape
<1>11. PluginThreads'
    BY <1>1 DEF PluginThreads
<1>12. PluginNumbers'
    <2>1. loaded' \in 0..loads /\ handlers' \subseteq handlers
        BY <1>1, PluginTypes
    <2> QED
        BY <1>1, <1>8, <2>1 DEF PluginNumbers
<1>13. StartsUnused'
    <2>1. loaded' \in {0, loaded} /\ handlers' \subseteq handlers /\ 0 \notin starting
        BY <1>1 DEF PluginNumbers
    <2> QED
        BY <1>1, <1>6, <1>7, <2>1 DEF StartsUnused
<1>14. Watched'
    <2>1. \A d \in InProgress' : d.at = "terminate" => d \in InProgress
        BY <1>6, <1>7
    <2>2. \A d \in InProgress : d.sandbox # s /\ d.at # "pending" => d \in InProgress'
        BY <1>6, <1>7
    <2> QED
        BY <1>1, <1>8, <1>9, <2>1, <2>2 DEF Watched
<1>15. OneSandbox'
    <2> SUFFICES ASSUME ~tangled PROVE OneSandbox'
        BY <1>1 DEF OneSandbox
    <2>1. s = loads /\ ~other
        BY DEF OneSandbox
    <2>2. InProgress' \subseteq InProgress
        BY <1>6, <2>1
    <2>3. CASE c.does = "unload"
        <3>1. loaded' = 0 /\ handlers' = {}
            BY <1>1, <2>3 DEF OneSandbox
        <3> QED
            BY <1>1, <1>9, <2>2, <3>1 DEF OneSandbox
    <2>4. CASE c.does # "unload" /\ failed > 0
        <3>1. loaded' = 0
            BY <1>1, <2>1, <2>4
        <3>2. loaded = 0 => handlers = {}
            BY DEF OneSandbox, PluginNumbers
        <3>3. handlers' = {}
            BY <1>1, <2>4, <3>2
        <3> QED
            BY <1>1, <1>9, <2>2, <3>1, <3>3 DEF OneSandbox
    <2>5. CASE c.does # "unload" /\ ~(failed > 0)
        <3>1. c.does = "stop" /\ loaded' = loaded /\ handlers' = handlers
            BY <1>1, <1>2, <1>8, <2>5 DEF CallShape
        <3>2. loaded # 0 => \E u \in InProgress' : u.does = "unload"
            BY <1>6, <1>7, <2>1, <3>1 DEF OneSandbox
        <3>3. \A d \in InProgress : d.does = "unload" => d.at # "pending"
            BY DEF PluginCalls, CallShape
        <3> QED
            BY <1>1, <1>9, <2>2, <3>1, <3>2, <3>3 DEF OneSandbox
    <2> QED
        BY <2>3, <2>4, <2>5
<1> QED
    BY <1>6, <1>10, <1>11, <1>12, <1>13, <1>14, <1>15

LEMMA PluginsNextInv == PluginsInv /\ [Plugins!Next]_pluginVars => PluginsInv'
<1> SUFFICES ASSUME PluginsInv, [Plugins!Next]_pluginVars PROVE PluginsInv'
    OBVIOUS
<1>1. ASSUME NEW c \in InProgress, Plugins!Terminate(c) \/ Plugins!Cleanup(c) PROVE PluginsInv'
    BY <1>1, PluginTerminates, PluginCleansUp
<1>2. ASSUME NEW s \in Plugins!Sandboxes,
             \/ Plugins!StartTimesOut(s) \/ Plugins!EventFails(s) \/ Plugins!Terminated(s)
             \/ Plugins!WatchdogFires(s) \/ Plugins!Ready(s) \/ Plugins!Emit(s)
             \/ Plugins!Handled(s) \/ Plugins!Crashes(s) \/ Plugins!ShutsDown(s)
      PROVE  PluginsInv'
    BY <1>2, PluginThreadSteps, PluginEvents, PluginTerminated, PluginWatchdog, PluginReady,
       PluginEmits, PluginCrashes
<1>3. CASE Plugins!Load \/ Plugins!Unload
    BY <1>3, PluginLoads, PluginUnload
<1>4. CASE UNCHANGED pluginVars
    BY <1>4
    DEF pluginVars, PluginsInv, PluginShapes, PluginBag, PluginCalls, CallShape, PluginThreads,
        PluginNumbers, StartsUnused, Watched, OneSandbox, InProgress, Plugins!Alive
<1> QED
    BY <1>1, <1>2, <1>3, <1>4 DEF Plugins!Next, Plugins!Progress, InProgress

LEMMA PluginsHold == PluginsInv => Plugins!PluginsHeld
<1> SUFFICES ASSUME PluginsInv PROVE Plugins!PluginsHeld
    OBVIOUS
<1>1. \A c \in InProgress : c \in Plugins!Kinds
    BY PluginTypes DEF PluginsInv, PluginShapes, PluginCalls, CallShape, Plugins!Kinds
<1>2. \A s : (\E c \in InProgress : c.sandbox = s /\ c.at # "pending") => Plugins!Ending(s)
    BY <1>1 DEF Plugins!Ending, Plugins!Ongoing, InProgress
<1>3. \A s \in Plugins!Alive : s \in watchdog \/ Plugins!Ending(s)
    BY <1>2 DEF PluginsInv, Watched
<1>4. ASSUME ~tangled
      PROVE  /\ handlers \subseteq {loaded}
             /\ loaded = 0 \/ (loaded \in Plugins!Alive \cap running /\ handlers = {loaded})
                    \/ Plugins!Ending(loaded)
             /\ \A s, t \in Plugins!Alive : s = t \/ Plugins!Ending(s) \/ Plugins!Ending(t)
    BY <1>2, <1>4 DEF PluginsInv, OneSandbox
<1> QED
    BY <1>3, <1>4 DEF Plugins!PluginsHeld

-----------------------------------------------------------------------------
(* The whole: a step of MCServices is a step of the part that runs, and    *)
(* what main() and its signal handlers do to the runtime are calls of it.  *)

LEMMA DaemonSteps ==
    ASSUME [ServicesNext]_allVars
    PROVE  /\ part' = part
           /\ part = "skills" => [Skills!Next]_skillVars
           /\ part = "plugins" => [Plugins!Next]_pluginVars
           /\ part = "main" => [MainNext]_daemonVars
           /\ part # "main" => UNCHANGED mainVars
           /\ part \notin {"runtime", "main"} => UNCHANGED runtimeVars
           /\ part = "runtime" => [Next]_runtimeVars
<1> SUFFICES ASSUME ServicesNext
             PROVE  /\ part' = part
                    /\ part = "skills" => Skills!Next
                    /\ part = "plugins" => Plugins!Next
                    /\ part = "main" => MainNext
                    /\ part # "main" => UNCHANGED mainVars
                    /\ part \notin {"runtime", "main"} => UNCHANGED runtimeVars
                    /\ part = "runtime" => Next
    BY DEF allVars, daemonVars
<1> QED
    BY DEF ServicesNext, Only, daemonVars

LEMMA MainSteps ==
    ASSUME [MainNext]_daemonVars
    PROVE  [Next]_runtimeVars /\ (MainTypeOK => MainTypeOK')
<1>1. CASE MainStarts \/ HandlerStops
    BY <1>1, MainCalls DEF MainStarts, HandlerStops, Next, MainTypeOK
<1>2. CASE MainGoesOn \/ MainReady
    BY <1>2 DEF MainGoesOn, MainReady, MainTypeOK
<1>3. CASE SignalKills \/ HandlerExits
    BY <1>3 DEF SignalKills, HandlerExits, MainTypeOK
<1>4. CASE Signal
    BY <1>4, MainCalls DEF Signal, Next, MainTypeOK
<1>5. CASE Runtime /\ UNCHANGED mainVars
    BY <1>5 DEF Runtime, Next, mainVars, MainTypeOK
<1>6. CASE UNCHANGED daemonVars
    BY <1>6 DEF daemonVars, mainVars, MainTypeOK
<1> QED
    BY <1>1, <1>2, <1>3, <1>4, <1>5, <1>6 DEF MainNext

DaemonInv == TypeOK /\ MainTypeOK /\ TransientOwned /\ NoSweepElsewhere /\ Undisturbed

LEMMA DaemonAlways == ServicesSpec => []DaemonInv
<1>1. ServicesInit => DaemonInv
    BY InitType, InitOwned, InitUndisturbed DEF ServicesInit, MainInit, MainTypeOK, DaemonInv
<1>2. DaemonInv /\ [ServicesNext]_allVars => DaemonInv'
    <2> SUFFICES ASSUME DaemonInv, [ServicesNext]_allVars PROVE DaemonInv'
        OBVIOUS
    <2>1. [Next]_runtimeVars
        BY DaemonSteps, MainSteps
    <2>2. MainTypeOK'
        BY DaemonSteps, MainSteps DEF DaemonInv, mainVars, MainTypeOK
    <2> QED
        BY <2>1, <2>2, StepType, StepOwned, StepNoSweep, StepUndisturbed DEF DaemonInv
<1> QED
    BY <1>1, <1>2, PTL DEF ServicesSpec

\* Also with a daemon process that starts and stops the runtime, and whatever
\* signals it gets: a state the daemon passes through is owned by a call that will
\* leave it.
THEOREM TransientOwnedAlways == ServicesSpec => []TransientOwned
<1>1. DaemonInv => TransientOwned
    BY DEF DaemonInv
<1> QED
    BY <1>1, DaemonAlways, PTL

\* And a running daemon has all of its services up, as long as nothing overlaps.
THEOREM RunIsWholeAlways == ServicesSpec => []RunIsWhole
<1>1. DaemonInv => RunIsWhole
    BY UndisturbedIsWhole DEF DaemonInv
<1> QED
    BY <1>1, DaemonAlways, PTL

LEMMA SkillsAlways == ServicesSpec => [](part = "skills" => SkillsInv)
<1>1. ServicesInit => (part = "skills" => SkillsInv)
    BY SkillsInitInv DEF ServicesInit
<1>2. (part = "skills" => SkillsInv) /\ [ServicesNext]_allVars => (part = "skills" => SkillsInv)'
    BY DaemonSteps, SkillsNextInv
<1> QED
    BY <1>1, <1>2, PTL DEF ServicesSpec

\* At rest the skills that the model is offered are those on disk, but for the
\* changes that SkillWatcher names: for any directories, names and changes.
THEOREM SkillsMirroredHolds == ServicesSpec => []SkillsMirrored
<1>1. SkillsInv => Skills!SkillsMirrored
    BY SkillsHold
<1> QED
    BY <1>1, SkillsAlways, PTL DEF SkillsMirrored

LEMMA PluginsAlways == ServicesSpec => [](part = "plugins" => PluginsInv)
<1>1. ServicesInit => (part = "plugins" => PluginsInv)
    BY PluginsInitInv DEF ServicesInit
<1>2. (part = "plugins" => PluginsInv) /\ [ServicesNext]_allVars => (part = "plugins" => PluginsInv)'
    BY DaemonSteps, PluginsNextInv
<1> QED
    BY <1>1, <1>2, PTL DEF ServicesSpec

\* No thread of a plugin runs without a timer or a stop that ends it, and events go
\* to the plugin that is loaded: for any number of loads, events and unloads.
THEOREM PluginsHeldAlways == ServicesSpec => []PluginsHeld
<1>1. PluginsInv => Plugins!PluginsHeld
    BY PluginsHold
<1> QED
    BY <1>1, PluginsAlways, PTL DEF PluginsHeld
=============================================================================
