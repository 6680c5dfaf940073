---------------------------- MODULE DaemonRuntime ----------------------------
(***************************************************************************)
(* DaemonRuntime: the state machine of the daemon and the services it      *)
(* starts in order and stops in reverse.  start, stop and restart may      *)
(* overlap; only the transition table arbitrates between them.             *)
(***************************************************************************)
EXTENDS Naturals

CONSTANTS
    Calls,  \* calls of start, stop and restart that may be pending at once
    N       \* registered services, 1..N in the order of registration

ASSUME ServicesRegistered == N \in Nat \ {0}

VARIABLES
    state,      \* DaemonRuntime.state
    bound,      \* signalsBound
    up,         \* the services whose start answered ok and whose stop did not
    at,         \* where each call is
    next,       \* the service a start waits for
    sweep,      \* services the stopServices of a stop has yet to stop; it may outlive the call
    restarting, \* whether a stop belongs to restart()
    result,     \* what each call returned
    overlapped  \* history: some transition was made with another call or sweep under way

callVars == <<at, next, sweep, restarting, result>>
runtimeVars == <<state, bound, up, callVars, overlapped>>

DaemonStates == {"stopped", "starting", "running", "stopping", "failed"}
Places == {"idle", "starting", "failing", "stopping", "backoff"}

VALID_TRANSITIONS ==
    [s \in DaemonStates |->
        CASE s = "stopped" -> {"starting"}
          [] s = "starting" -> {"running", "failed", "stopping"}
          [] s = "running" -> {"stopping", "failed"}
          [] s = "stopping" -> {"stopped", "failed"}
          [] s = "failed" -> {"stopped"}]

canTransition(s) == s \in VALID_TRANSITIONS[state]

Init ==
    /\ state = "stopped" /\ bound = FALSE /\ up = {}
    /\ at = [c \in Calls |-> "idle"]
    /\ next = [c \in Calls |-> 1]
    /\ sweep = [c \in Calls |-> 0]
    /\ restarting = [c \in Calls |-> FALSE]
    /\ result = [c \in Calls |-> "none"]
    /\ overlapped = FALSE

Free(c) == at[c] = "idle" /\ sweep[c] = 0
Go(c, place) == at' = [at EXCEPT ![c] = place]
Report(c, how) == result' = [result EXCEPT ![c] = how]
Return(c, how) == Go(c, "idle") /\ Report(c, how)
Note(c) == overlapped' = (overlapped \/ \E d \in Calls \ {c} : ~Free(d))

-----------------------------------------------------------------------------
(* start *)

\* The transition of start(), also at the end of restart().
BeginStart(c) ==
    /\ \/ /\ canTransition("starting")
          /\ state' = "starting" /\ Go(c, "starting")
          /\ next' = [next EXCEPT ![c] = 1]
          /\ Report(c, "none") /\ Note(c)
       \/ /\ ~canTransition("starting")
          /\ Return(c, "error") /\ UNCHANGED <<state, next, overlapped>>
    /\ restarting' = [restarting EXCEPT ![c] = FALSE]
    /\ UNCHANGED <<bound, up, sweep>>

Start(c) == Free(c) /\ BeginStart(c)

\* The service answers ok; after the last one the runtime is running.
ServiceStarts(c) ==
    /\ at[c] = "starting"
    /\ up' = up \cup {next[c]}
    /\ \/ /\ next[c] < N
          /\ next' = [next EXCEPT ![c] = @ + 1]
          /\ UNCHANGED <<state, bound, at, result>>
       \/ /\ next[c] = N
          /\ \/ canTransition("running") /\ state' = "running" /\ bound' = TRUE /\ Return(c, "ok")
             \/ ~canTransition("running") /\ Return(c, "error") /\ UNCHANGED <<state, bound>>
          /\ UNCHANGED next
    /\ UNCHANGED <<sweep, restarting, overlapped>>

\* Mutant: a service that does not start is skipped.
SkipFailure(c) ==
    /\ at[c] = "starting"
    /\ next[c] < N /\ next' = [next EXCEPT ![c] = @ + 1]
    /\ UNCHANGED <<state, bound, up, at, sweep, restarting, result, overlapped>>

\* Mutant: the failure is reported without the way back to stopped.
FailWithoutReset(c) ==
    /\ at[c] = "starting"
    /\ Return(c, "error")
    /\ state' = IF canTransition("failed") THEN "failed" ELSE state
    /\ UNCHANGED <<bound, up, next, sweep, restarting, overlapped>>

\* transitionFailure up to its sleep; the services already started stay up.
StartFails(c) ==
    /\ at[c] = "starting"
    /\ \/ canTransition("failed") /\ state' = "failed" /\ Go(c, "failing") /\ UNCHANGED result
       \/ ~canTransition("failed") /\ Return(c, "error") /\ UNCHANGED state
    /\ UNCHANGED <<bound, up, next, sweep, restarting, overlapped>>

FailureEnds(c) ==
    /\ at[c] = "failing"
    /\ state' = IF canTransition("stopped") THEN "stopped" ELSE state
    /\ Return(c, "error")
    /\ UNCHANGED <<bound, up, next, sweep, restarting, overlapped>>

-----------------------------------------------------------------------------
(* stop and restart *)

BeginStop(c, again) ==
    /\ \/ /\ canTransition("stopping")
          /\ state' = "stopping" /\ bound' = FALSE /\ Go(c, "stopping")
          /\ sweep' = [sweep EXCEPT ![c] = N]
          /\ restarting' = [restarting EXCEPT ![c] = again]
          /\ Report(c, "none") /\ Note(c)
       \/ /\ ~canTransition("stopping")
          /\ Return(c, "error")
          /\ UNCHANGED <<state, bound, sweep, restarting, overlapped>>
    /\ UNCHANGED <<up, next>>

Stop(c) == Free(c) /\ BeginStop(c, FALSE)

Restart(c) ==
    /\ Free(c)
    /\ \/ state = "stopped" /\ BeginStart(c)
       \/ state # "stopped" /\ BeginStop(c, TRUE)

\* The end of stop() when stopServices is done: a restart goes on from there.
StopSucceeds(c) ==
    \/ /\ canTransition("stopped") /\ state' = "stopped"
       /\ \/ restarting[c] /\ Go(c, "backoff") /\ UNCHANGED result
          \/ ~restarting[c] /\ Return(c, "ok")
    \/ ~canTransition("stopped") /\ Return(c, "error") /\ UNCHANGED state

\* The end of stop() on an error or on the timeout: failed and stopped in one go.
StopFails(c) ==
    /\ state' = IF canTransition("failed") THEN "stopped" ELSE state
    /\ Return(c, "error")

\* Mutant: the loop runs one service too far.
ServiceStopsPastFirst(c) ==
    /\ at[c] = "stopping"
    /\ up' = up \ {sweep[c]}
    /\ sweep' = [sweep EXCEPT ![c] = @ - 1]
    /\ \/ sweep[c] = 0 /\ StopSucceeds(c)
       \/ sweep[c] # 0 /\ UNCHANGED <<state, at, result>>
    /\ UNCHANGED <<bound, next, restarting, overlapped>>

\* stopServices goes on whether or not the stop still waits for it.
ServiceStops(c) ==
    /\ sweep[c] > 0
    /\ up' = up \ {sweep[c]}
    /\ sweep' = [sweep EXCEPT ![c] = @ - 1]
    /\ \/ at[c] = "stopping" /\ sweep[c] = 1 /\ StopSucceeds(c)
       \/ ~(at[c] = "stopping" /\ sweep[c] = 1) /\ UNCHANGED <<state, at, result>>
    /\ UNCHANGED <<bound, next, restarting, overlapped>>

ServiceStopFails(c) ==
    /\ sweep[c] > 0
    /\ sweep' = [sweep EXCEPT ![c] = 0]
    /\ \/ at[c] = "stopping" /\ StopFails(c)
       \/ at[c] # "stopping" /\ UNCHANGED <<state, at, result>>
    /\ UNCHANGED <<bound, up, next, restarting, overlapped>>

ShutdownTimeout(c) ==
    /\ at[c] = "stopping"
    /\ StopFails(c)
    /\ UNCHANGED <<bound, up, next, sweep, restarting, overlapped>>

BackoffEnds(c) == at[c] = "backoff" /\ BeginStart(c)

-----------------------------------------------------------------------------
Answers(c) == ServiceStarts(c) \/ StartFails(c) \/ ServiceStops(c) \/ ServiceStopFails(c)
Timers(c) == FailureEnds(c) \/ ShutdownTimeout(c) \/ BackoffEnds(c)

Next == \E c \in Calls : Start(c) \/ Stop(c) \/ Restart(c) \/ Answers(c) \/ Timers(c)

Spec == Init /\ [][Next]_runtimeVars

\* Timers fire; a service need not answer.
FairSpec == Spec /\ \A c \in Calls : WF_runtimeVars(Timers(c))

-----------------------------------------------------------------------------
TypeOK ==
    /\ state \in DaemonStates /\ bound \in BOOLEAN /\ up \subseteq 1..N
    /\ at \in [Calls -> Places] /\ next \in [Calls -> 1..N] /\ sweep \in [Calls -> 0..N]
    /\ restarting \in [Calls -> BOOLEAN] /\ overlapped \in BOOLEAN
    /\ result \in [Calls -> {"none", "ok", "error"}]

\* However calls overlap, a state the daemon only passes through has a call
\* that will leave it: it is never left starting, stopping or failed for good.
TransientOwned ==
    /\ state = "starting" => \E c \in Calls : at[c] = "starting"
    /\ state = "stopping" => \E c \in Calls : at[c] = "stopping"
    /\ state = "failed" => \E c \in Calls : at[c] = "failing"

\* Calls made one after the other, with no stop still at work behind its
\* timeout: whenever the daemon says it is running, every service is up,
\* whatever failed to start or to stop before.
RunIsWhole == state = "running" /\ ~overlapped => up = 1..N
=============================================================================
