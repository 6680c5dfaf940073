-------------------------- MODULE EnvironmentRuntime --------------------------
(***************************************************************************)
(* The active environment: its name in the global configuration            *)
(* (src/src/config/store.ts), which EnvironmentSwitchService rewrites, and *)
(* what the daemon runs for it (src/src/daemon/server.ts): the file sync   *)
(* of its memories, the summary of them, and the watcher of its            *)
(* PERSONALITY.md, which has the daemon renew the system prompt of the     *)
(* conversations.  Requests to switch go on side by side.                  *)
(*                                                                         *)
(* There is one conversation.  The text of an environment is the number of *)
(* its edits.  Things of one kind that run for one environment are         *)
(* counted.  stopEnvironmentSessionRuntime awaits only what awaits nothing *)
(* else, and is one step.  The debounce of a watcher is a wait that may    *)
(* end at any time; the renewals that watchers ask for come one at a time. *)
(***************************************************************************)
EXTENDS Naturals, FiniteSets

CONSTANTS
    Envs, First, \* environments, the one that is active at first
    Calls,       \* requests in progress together
    Main,        \* the start of the daemon
    Reload,      \* a renewal that a watcher has asked for
    NoEnv, Torn,
    MaxSwitches, MaxEdits, MaxFaults, MaxStarts \* bounds

EnvironmentBounds ==
    /\ First \in Envs /\ {NoEnv, Torn} \cap Envs = {}
    /\ Main # Reload /\ {Main, Reload} \cap Calls = {}
    /\ {MaxSwitches, MaxEdits, MaxFaults, MaxStarts} \subseteq Nat

VARIABLES
    config,      \* activeEnvironment of the file, or Torn
    text,        \* per environment: its text
    phase,
    at, goal,    \* per fiber: what it awaits, the environment it is about
    syncs, sync, \* file syncs that run, memoryFileSyncService
    writers,     \* memoryEventSubscribers that write a note of a new memory,
    summaries,   \* and that renew the summary
    watching, watcher, \* watchers that run, personalityWatcher
    timers,      \* of them: those that debounce
    prompt,      \* the latest system message: environment and text
    held,        \* per fiber: the prompt it has found, or then made
    switches, edits, faults, starts,
    met,         \* history: two switches, or one and a stop, overlapped
    failed,      \* history: the last binding, or the switch it was for, failed
    unseen,      \* history: a change of the text that nobody was told of
    crossed      \* history: the last two renewals overlapped

running == <<syncs, sync, writers, summaries, watching, watcher, timers>>
fibers == <<at, goal, held>>
counters == <<switches, edits, faults, starts>>
history == <<met, failed, unseen, crossed>>
vars == <<config, text, phase, fibers, running, prompt, counters, history>>

Fibers == Calls \cup {Main, Reload}
None == [e \in Envs |-> 0]
Only(e) == [None EXCEPT ![e] = 1]
More(count, e) == [count EXCEPT ![e] = @ + 1]
Nothing == [f \in Fibers |-> <<First, 0>>]
Current == <<config, text[config]>>
Rebinding == {c \in Calls \cup {Main} : at[c] # "idle"}
Renewing == {f \in Fibers : at[f] \in {"load", "name", "docs", "put"}}

Init ==
    /\ config = First /\ text = None /\ phase = "down"
    /\ at = [f \in Fibers |-> "idle"] /\ goal = [f \in Fibers |-> First]
    /\ syncs = None /\ sync = NoEnv /\ writers = None /\ summaries = None
    /\ watching = None /\ watcher = NoEnv /\ timers = None
    /\ prompt = <<First, 0>> /\ held = Nothing
    /\ switches = 0 /\ edits = 0 /\ faults = 0 /\ starts = 0
    /\ met = FALSE /\ failed = FALSE /\ unseen = FALSE /\ crossed = FALSE

Goes(f, place) == at' = [at EXCEPT ![f] = place]
Aims(f, e) == goal' = [goal EXCEPT ![f] = e]
Leaves(f) == Goes(f, "idle") /\ Aims(f, First) /\ held' = [held EXCEPT ![f] = <<First, 0>>]
Fault == faults < MaxFaults /\ faults' = faults + 1

----------------------------------------------------------------------------
(* switchEnvironment. *)

Switch(c, e) ==
    /\ phase = "up" /\ at[c] = "idle"
    /\ switches < MaxSwitches /\ switches' = switches + 1
    /\ Goes(c, "current") /\ goal' = [goal EXCEPT ![c] = e]
    /\ met' = (met \/ Rebinding # {})
    /\ UNCHANGED <<config, text, phase, held, running, prompt, edits, faults, starts,
                   failed, unseen, crossed>>
\* The file is read, and after the list of environments once more.
Reads(c) ==
    /\ at[c] \in {"current", "list"}
    /\ IF config = Torn THEN Leaves(c)
       ELSE Goes(c, IF at[c] = "current" THEN "list" ELSE "write") /\ UNCHANGED <<goal, held>>
    /\ UNCHANGED <<config, text, phase, running, prompt, counters, history>>
\* It can not be, or there is no such environment.
NotRead(c) ==
    /\ at[c] \in {"current", "list"} /\ Fault /\ Leaves(c)
    /\ UNCHANGED <<config, text, phase, running, prompt, switches, edits, starts, history>>
\* The file is emptied and written; if another has written it in between, their
\* two texts may be mixed.
Write(c) ==
    /\ at[c] = "write" /\ Goes(c, "written") /\ config' = Torn
    /\ UNCHANGED <<text, phase, goal, held, running, prompt, counters, history>>
Written(c) ==
    /\ at[c] = "written" /\ Goes(c, "resolve")
    /\ config' \in {goal[c]} \cup IF config \in {goal[c], Torn} THEN {} ELSE {Torn}
    /\ UNCHANGED <<text, phase, goal, held, running, prompt, counters, history>>
\* A document can not be resolved: the request fails, and the file stays changed.
NotResolved(c) ==
    /\ at[c] = "resolve" /\ Fault /\ Leaves(c) /\ failed' = TRUE
    /\ UNCHANGED <<config, text, phase, running, prompt, switches, edits, starts,
                   met, unseen, crossed>>

----------------------------------------------------------------------------
(* rebindEnvironmentSessionRuntime. *)

\* stopEnvironmentSessionRuntime.
Stops ==
    /\ IF watcher = NoEnv THEN UNCHANGED <<watching, timers>>
       ELSE /\ watching' = [watching EXCEPT ![watcher] = @ - 1]
            /\ \E t \in {timers[watcher], timers[watcher] - 1} \cap (0..watching'[watcher]) :
                 timers' = [timers EXCEPT ![watcher] = t]
    /\ syncs' = IF sync = NoEnv THEN syncs ELSE [syncs EXCEPT ![sync] = @ - 1]
    /\ watcher' = NoEnv /\ sync' = NoEnv /\ writers' = None /\ summaries' = None
Rebind(c) ==
    /\ at[c] = "resolve" /\ Goes(c, "sync") /\ Stops /\ failed' = FALSE
    /\ UNCHANGED <<config, text, phase, goal, held, prompt, counters, met, unseen, crossed>>

\* The notes of the environment are read and watched, and new ones written there.
Synced(c) ==
    /\ at[c] = "sync" /\ Goes(c, "summary")
    /\ sync' = goal[c] /\ syncs' = More(syncs, goal[c]) /\ writers' = More(writers, goal[c])
    /\ UNCHANGED <<config, text, phase, goal, held, summaries, watching, watcher, timers,
                   prompt, counters, history>>
NotSynced(c) ==
    /\ at[c] = "sync" /\ Goes(c, "summary") /\ Fault /\ failed' = TRUE
    /\ UNCHANGED <<config, text, phase, goal, held, running, prompt, switches, edits, starts,
                   met, unseen, crossed>>
\* The summary is made, and the personality watched; a directory that can not be
\* is passed over, and its watcher does nothing.
Bound(c) ==
    /\ at[c] = "summary" /\ Aims(c, First)
    /\ IF c = Main THEN Goes(c, "idle") /\ phase' = "up" ELSE Goes(c, "load") /\ UNCHANGED phase
    /\ summaries' = More(summaries, goal[c])
    /\ \/ watcher' = goal[c] /\ watching' = More(watching, goal[c]) /\ UNCHANGED <<faults, failed>>
       \/ watcher' = NoEnv /\ Fault /\ failed' = TRUE /\ UNCHANGED watching
    /\ UNCHANGED <<config, text, held, syncs, sync, writers, timers, prompt,
                   switches, edits, starts, met, unseen, crossed>>

----------------------------------------------------------------------------
(* The personality is edited; its watchers wait a while and then ask for a *)
(* renewal: refreshEnvironmentSystemPrompts.                               *)

Edit(e) ==
    /\ edits < MaxEdits /\ edits' = edits + 1 /\ text' = More(text, e)
    /\ timers' = [timers EXCEPT ![e] = watching[e]]
    /\ unseen' = (unseen \/ (e = config /\ watching[e] = 0))
    /\ UNCHANGED <<config, phase, fibers, syncs, sync, writers, summaries, watching, watcher,
                   prompt, switches, faults, starts, met, failed, crossed>>
\* A file that can not be read then is let be.
Fire(e) ==
    /\ timers[e] > 0 /\ timers' = [timers EXCEPT ![e] = @ - 1]
    /\ at[Reload] = "idle"
    /\ \/ Goes(Reload, "load") /\ UNCHANGED <<faults, unseen>>
       \/ Fault /\ unseen' = TRUE /\ UNCHANGED at
    /\ UNCHANGED <<config, text, phase, goal, held, syncs, sync, writers, summaries, watching,
                   watcher, prompt, switches, edits, starts, met, failed, crossed>>

\* After a stop there is no conversation to load.
Load(f) ==
    /\ at[f] = "load"
    /\ IF phase = "stopped" THEN Leaves(f)
       ELSE Goes(f, "name") /\ held' = [held EXCEPT ![f] = prompt] /\ UNCHANGED goal
    /\ crossed' = (Renewing # {f})
    /\ UNCHANGED <<config, text, phase, running, prompt, counters, met, failed, unseen>>
\* The prompt is that of the environment the file names by now.
Names(f) ==
    /\ at[f] = "name" /\ config # Torn /\ Goes(f, "docs") /\ Aims(f, config)
    /\ UNCHANGED <<config, text, phase, held, running, prompt, counters, history>>
NotNamed(f) ==
    /\ at[f] = "name" /\ Leaves(f) /\ unseen' = TRUE
    /\ IF config = Torn THEN UNCHANGED faults ELSE Fault
    /\ UNCHANGED <<config, text, phase, running, prompt, switches, edits, starts,
                   met, failed, crossed>>
Builds(f) ==
    LET made == <<goal[f], text[goal[f]]>>
    IN  /\ at[f] = "docs"
        /\ IF made = held[f] THEN Leaves(f)
           ELSE Goes(f, "put") /\ Aims(f, First) /\ held' = [held EXCEPT ![f] = made]
        /\ unseen' = (unseen /\ goal[f] # config)
        /\ UNCHANGED <<config, text, phase, running, prompt, counters, met, failed, crossed>>
\* addMessage, whose store is closed by a stop.
Puts(f) ==
    /\ at[f] = "put" /\ Leaves(f)
    /\ prompt' = IF phase = "stopped" THEN prompt ELSE held[f]
    /\ UNCHANGED <<config, text, phase, running, counters, history>>

----------------------------------------------------------------------------
(* The daemon. *)

\* initializeEnvironmentSessionRuntime.
Start ==
    /\ phase = "down" /\ starts < MaxStarts /\ starts' = starts + 1
    /\ failed' = (config = Torn) /\ unseen' = TRUE
    /\ IF config = Torn THEN phase' = "up" /\ UNCHANGED <<at, goal>>
       ELSE phase' = "starting" /\ Goes(Main, "sync") /\ Aims(Main, config)
    /\ UNCHANGED <<config, text, held, running, prompt, switches, edits, faults, met, crossed>>
\* Requests in progress go on.
Stop ==
    /\ phase = "up" /\ phase' = "stopped" /\ Stops
    /\ met' = (met \/ Rebinding # {})
    /\ UNCHANGED <<config, text, fibers, prompt, counters, failed, unseen, crossed>>
\* The process ends, after a stop or at any time.
Ends ==
    /\ phase # "down" /\ starts < MaxStarts /\ phase' = "down"
    /\ at' = [f \in Fibers |-> "idle"] /\ goal' = [f \in Fibers |-> First]
    /\ held' = Nothing
    /\ syncs' = None /\ sync' = NoEnv /\ writers' = None /\ summaries' = None
    /\ watching' = None /\ watcher' = NoEnv /\ timers' = None
    /\ met' = FALSE /\ failed' = FALSE /\ crossed' = FALSE
    /\ UNCHANGED <<config, text, prompt, counters, unseen>>

Next ==
    \/ Start \/ Stop \/ Ends
    \/ \E e \in Envs : Edit(e) \/ Fire(e) \/ \E c \in Calls : Switch(c, e)
    \/ \E c \in Calls \cup {Main} : Synced(c) \/ NotSynced(c) \/ Bound(c)
    \/ \E c \in Calls :
         Reads(c) \/ NotRead(c) \/ Write(c) \/ Written(c) \/ NotResolved(c) \/ Rebind(c)
    \/ \E f \in Calls \cup {Reload} : Load(f) \/ Names(f) \/ NotNamed(f) \/ Builds(f) \/ Puts(f)

Spec == Init /\ [][Next]_vars

----------------------------------------------------------------------------

Counts == [Envs -> Nat]
Prompts == Envs \X (0..MaxEdits)
TypeOK ==
    /\ config \in Envs \cup {Torn} /\ text \in [Envs -> 0..MaxEdits]
    /\ phase \in {"down", "starting", "up", "stopped"}
    /\ at \in [Fibers -> {"idle", "current", "list", "write", "written", "resolve", "sync",
                          "summary", "load", "name", "docs", "put"}]
    /\ goal \in [Fibers -> Envs]
    /\ {syncs, writers, summaries, watching, timers} \subseteq Counts
    /\ {sync, watcher} \subseteq Envs \cup {NoEnv}
    /\ prompt \in Prompts /\ held \in [Fibers -> Prompts]
    /\ switches \in 0..MaxSwitches /\ edits \in 0..MaxEdits
    /\ faults \in 0..MaxFaults /\ starts \in 0..MaxStarts
    /\ {met, failed, unseen, crossed} \subseteq BOOLEAN

\* Unless switches overlapped, at most one environment's notes are synced and one
\* personality watched; when none is in progress, and the last one did not fail,
\* they, the summary and the notes of new memories are those of the environment
\* the configuration names, and none is left after a stop.  However calls overlap,
\* what is to be stopped next is running.  And a prompt is that of the current
\* text of that environment, as soon as no renewal goes on or is waited for,
\* unless two of them overlapped or a change was one that no watcher saw.
EnvironmentHeld ==
    /\ (sync # NoEnv => syncs[sync] > 0) /\ (watcher # NoEnv => watching[watcher] > 0)
    /\ ~met => {syncs, watching, writers, summaries} \subseteq {None} \cup {Only(e) : e \in Envs}
    /\ ~met /\ ~failed /\ phase = "up" /\ Rebinding \subseteq Renewing =>
         {syncs, watching, writers, summaries} = {Only(config)}
    /\ ~met /\ phase = "stopped" /\ Rebinding = {} =>
         {syncs, watching, writers, summaries} = {None}
    /\ phase = "up" /\ ~met /\ ~failed /\ ~unseen /\ ~crossed /\ timers = None
         /\ Rebinding \cup Renewing = {} => prompt = Current
=============================================================================
