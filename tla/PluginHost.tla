------------------------------- MODULE PluginHost -------------------------------
(***************************************************************************)
(* One plugin in its worker threads: PluginLoader                          *)
(* (src/src/plugins/loader.ts), which makes a PluginSandbox                *)
(* (sandbox/sandbox.ts) for each load, forwards the events of the bus to   *)
(* it and unloads the plugin when it fails, and what sandbox/              *)
(* worker-entry.ts answers.                                                *)
(*                                                                         *)
(* Calls are counted in a bag, as two of a kind cannot be told apart.  A   *)
(* sandbox is numbered by the load that made it.  Tool calls, which take   *)
(* the way of events, the data requests of a plugin and the registry of    *)
(* installed plugins are left out.                                         *)
(***************************************************************************)
EXTENDS Naturals, BagsExt, Bags

CONSTANTS
    MaxLoads, \* bound: loads of the plugin
    MaxAsked  \* bound: events handed to it and unloads asked for, together

PluginLimits == MaxLoads \in Nat /\ MaxAsked \in Nat

VARIABLES
    worker,   \* each sandbox's thread
    running,  \* sandboxes with a worker that they know
    watchdog, \* sandboxes with cpuLimitTimer set
    starting, \* sandboxes whose start() is awaited
    loaded,   \* the sandbox of the plugin's entry, 0 for none
    handlers, \* sandboxes whose handlers are on the event bus
    calls,    \* a bag of calls in progress
    loads, asked,
    tangled   \* history: a load met an earlier sandbox that still runs, or its calls

vars == <<worker, running, watchdog, starting, loaded, handlers, calls,
          loads, asked, tangled>>
bounds == <<loads, asked>>

Sandboxes == 1..MaxLoads
Alive == {s \in Sandboxes : worker[s] \in {"initializing", "serving"}}
Call(does, s, at) == [does |-> does, sandbox |-> s, at |-> at]
Ongoing(S) == \E c \in BagToSet(calls) : c \in S
Number(c, B) == IF c \in BagToSet(B) THEN B[c] ELSE 0
Plus(B, n, c) ==
    IF n = 0 THEN B ELSE [x \in BagToSet(B) \cup {c} |-> Number(x, B) + IF x = c THEN n ELSE 0]

Init ==
    /\ worker = [s \in Sandboxes |-> "none"]
    /\ running = {} /\ watchdog = {} /\ starting = {}
    /\ loaded = 0 /\ handlers = {}
    /\ calls = EmptyBag
    /\ loads = 0 /\ asked = 0 /\ tangled = FALSE

\* loadPlugin up to the await of sandbox.start().  All it looks at is the entry: an
\* earlier load may still be starting, or have timed out and left its thread, and
\* calls of an earlier sandbox may be in progress.
Load ==
    LET s == loads + 1
    IN  /\ loaded = 0 /\ loads < MaxLoads /\ loads' = s
        /\ worker' = [worker EXCEPT ![s] = "initializing"]
        /\ running' = running \cup {s} /\ watchdog' = watchdog \cup {s}
        /\ starting' = starting \cup {s}
        /\ tangled' = (tangled \/ running # {} \/ calls # EmptyBag)
        /\ UNCHANGED <<loaded, handlers, calls, asked>>

\* The worker says "ready": a loadPlugin that still waits puts the handlers on
\* the bus and notes the sandbox, over another if there is one.
Ready(s) ==
    /\ worker[s] = "initializing" /\ worker' = [worker EXCEPT ![s] = "serving"]
    /\ starting' = starting \ {s}
    /\ IF s \in starting THEN loaded' = s /\ handlers' = handlers \cup {s}
       ELSE UNCHANGED <<loaded, handlers>>
    /\ UNCHANGED <<running, watchdog, calls, bounds, tangled>>

\* start() rejects; its worker is left as it is.
StartTimesOut(s) ==
    /\ s \in starting /\ starting' = starting \ {s}
    /\ UNCHANGED <<worker, running, watchdog, loaded, handlers, calls, bounds, tangled>>

\* n calls of unloadPlugin begin, with what else is called in the step: the
\* handlers leave the bus, and the calls stop the sandbox they found, which may
\* have been stopped already.
\* Mutant: the handlers stay on the bus.
UnloadsKeepingHandlers(n, others) ==
    /\ loaded' = IF n > 0 /\ loaded \notin running THEN 0 ELSE loaded
    /\ handlers' = handlers
    /\ calls' = IF loaded \in running
                THEN Plus(others, n, Call("unload", loaded, "grace")) ELSE others
Unloads(n, others) ==
    /\ loaded' = IF n > 0 /\ loaded \notin running THEN 0 ELSE loaded
    /\ handlers' = IF n > 0 /\ loaded # 0 THEN {} ELSE handlers
    /\ calls' = IF loaded \in running
                THEN Plus(others, n, Call("unload", loaded, "grace")) ELSE others

Unload ==
    /\ loaded # 0 /\ asked < MaxAsked /\ asked' = asked + 1
    /\ Unloads(1, calls)
    /\ UNCHANGED <<worker, running, watchdog, starting, loads, tangled>>

\* An event of the bus reaches one handler: sendEvent.
Emit(s) ==
    /\ s \in handlers /\ asked < MaxAsked /\ asked' = asked + 1
    /\ IF s \in running
       THEN calls' = BagAdd(calls, Call("event", s, "pending")) /\ UNCHANGED <<loaded, handlers>>
       ELSE Unloads(1, calls)
    /\ UNCHANGED <<worker, running, watchdog, starting, loads, tangled>>

\* The worker answers, or the handler throws or the timer fires: then the sandbox
\* is stopped.
Handled(s) ==
    /\ worker[s] = "serving" /\ Ongoing({Call("event", s, "pending")})
    /\ calls' = BagRemove(calls, Call("event", s, "pending"))
    /\ UNCHANGED <<worker, running, watchdog, starting, loaded, handlers, bounds, tangled>>
EventFails(s) ==
    /\ Ongoing({Call("event", s, "pending")})
    /\ calls' = BagAdd(BagRemove(calls, Call("event", s, "pending")), Call("event", s, "grace"))
    /\ UNCHANGED <<worker, running, watchdog, starting, loaded, handlers, bounds, tangled>>

\* handleWorkerFailure, n times: each error unloads the plugin, and the sandbox
\* stops itself besides.
Failure(s, n, errors) == Unloads(errors, Plus(calls, n, Call("stop", s, "grace")))

\* The plugin throws outside a handler: the thread's error and its exit are two
\* failures; while it is initialized its message of the error comes first.
Crashes(s) ==
    /\ s \in Alive
    /\ worker' = [worker EXCEPT ![s] = "exited"] /\ starting' = starting \ {s}
    /\ Failure(s, 2, IF worker[s] = "initializing" THEN 3 ELSE 2)
    /\ UNCHANGED <<running, watchdog, bounds, tangled>>

\* stop() has posted "shutdown" and the thread ends by itself.
ShutsDown(s) ==
    /\ s \in Alive /\ Ongoing({Call(does, s, "grace") : does \in {"stop", "unload", "event"}})
    /\ worker' = [worker EXCEPT ![s] = "exited"] /\ starting' = starting \ {s}
    /\ UNCHANGED <<running, watchdog, loaded, handlers, calls, bounds, tangled>>

\* The time of grace is over: terminate().
Terminate(c) ==
    /\ c.at = "grace"
    /\ calls' = BagAdd(BagRemove(calls, c), [c EXCEPT !.at = "terminate"])
    /\ worker' = [worker EXCEPT ![c.sandbox] = IF c.sandbox \in Alive THEN "terminating" ELSE @]
    /\ UNCHANGED <<running, watchdog, starting, loaded, handlers, bounds, tangled>>

\* A thread that was terminated ends with a code that is a failure to a sandbox
\* that is not yet cleaned up.
Terminated(s) ==
    /\ worker[s] = "terminating"
    /\ worker' = [worker EXCEPT ![s] = "exited"] /\ starting' = starting \ {s}
    /\ IF s \in running THEN Failure(s, 1, 1) ELSE UNCHANGED <<loaded, handlers, calls>>
    /\ UNCHANGED <<running, watchdog, bounds, tangled>>

\* cleanupAfterStop, at the end of the thread or of the time for it: events that
\* wait are rejected.  An unload then drops the entry, whichever sandbox it has;
\* a failed event unloads the plugin.
Pending(s) == Number(Call("event", s, "pending"), calls)
Cleanup(c) ==
    LET s == c.sandbox
        rest == BagRemoveAll(BagRemove(calls, c), Call("event", s, "pending"))
        failed == Pending(s) + (IF c.does = "event" THEN 1 ELSE 0)
        other == c.does # "unload" /\ failed > 0 /\ loaded \in running \ {s}
    IN  /\ c.at = "terminate"
        /\ running' = running \ {s} /\ watchdog' = watchdog \ {s}
        /\ loaded' = IF c.does = "unload" \/ (failed > 0 /\ ~other) THEN 0 ELSE loaded
        /\ handlers' = IF c.does # "unload" /\ failed > 0 /\ loaded # 0 THEN {} ELSE handlers
        /\ calls' = IF other THEN Plus(rest, failed, Call("unload", loaded, "grace")) ELSE rest
        /\ UNCHANGED <<worker, starting, bounds, tangled>>

\* The timer of the CPU limit, which runs by the clock from the start on.
WatchdogFires(s) ==
    /\ s \in watchdog \ starting /\ watchdog' = watchdog \ {s}
    /\ Unloads(1, BagAdd(calls, Call("stop", s, "grace")))
    /\ UNCHANGED <<worker, running, starting, bounds, tangled>>

Progress ==
    \/ \E s \in Sandboxes :
          StartTimesOut(s) \/ EventFails(s) \/ Terminated(s) \/ WatchdogFires(s)
    \/ \E c \in BagToSet(calls) : Terminate(c) \/ Cleanup(c)
Next ==
    \/ Load \/ Unload \/ Progress
    \/ \E s \in Sandboxes : Ready(s) \/ Emit(s) \/ Handled(s) \/ Crashes(s) \/ ShutsDown(s)

Spec == Init /\ [][Next]_vars

----------------------------------------------------------------------------

Kinds == {Call(does, s, at) : does \in {"stop", "unload", "event"}, s \in Sandboxes,
                              at \in {"pending", "grace", "terminate"}}
TypeOK ==
    /\ worker \in [Sandboxes -> {"none", "initializing", "serving", "terminating", "exited"}]
    /\ {running, watchdog, starting, handlers} \subseteq SUBSET Sandboxes
    /\ loaded \in 0..MaxLoads
    /\ IsABag(calls) /\ BagToSet(calls) \subseteq Kinds
    /\ loads \in 0..MaxLoads /\ asked \in 0..MaxAsked
    /\ tangled \in BOOLEAN

\* A plugin's thread is never without someone who will end it, however its loads
\* overlap or time out: the timer of its limit, or a stop under way.  And as long
\* as no load begins while an earlier sandbox still runs or calls of it are in
\* progress, the loader and the threads agree: events go to the plugin that is
\* loaded and to no other, one that is loaded serves unless its unload is under
\* way, and no second thread serves beside it.
Ending(s) == Ongoing({c \in Kinds : c.sandbox = s /\ c.at # "pending"})
PluginsHeld ==
    /\ \A s \in Alive : s \in watchdog \/ Ending(s)
    /\ ~tangled =>
           /\ handlers \subseteq {loaded}
           /\ loaded = 0 \/ (loaded \in Alive \cap running /\ handlers = {loaded})
                  \/ Ending(loaded)
           /\ \A s, t \in Alive : s = t \/ Ending(s) \/ Ending(t)

\* No call is in progress and no thread is left.
Resting == calls = EmptyBag /\ starting = {} /\ \A s \in Sandboxes : worker[s] \in {"none", "exited"}
=============================================================================
