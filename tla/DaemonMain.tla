------------------------------ MODULE DaemonMain ------------------------------
(***************************************************************************)
(* The daemon process: main() starts the runtime, wires what needs the     *)
(* running services and installs its own signal handlers next to the one   *)
(* of the runtime.  A signal runs every handler that is installed.         *)
(***************************************************************************)
EXTENDS DaemonRuntime

CONSTANTS MainCall, OwnCall, HandlerCall  \* the start of main, the stop of the runtime's
                                          \* signalHandler, the stop of main's handler

ASSUME MainCalls == {MainCall, OwnCall, HandlerCall} \subseteq Calls

VARIABLES
    program,  \* where main() is, or "exited"
    handler,  \* where main's signal handler is
    orderly   \* whether the process left through that handler

mainVars == <<program, handler, orderly>>

MainInit == Init /\ program = "boot" /\ handler = "none" /\ orderly = FALSE

MainStarts ==
    /\ program = "boot" /\ program' = "starting"
    /\ Start(MainCall)
    /\ UNCHANGED <<handler, orderly>>

MainGoesOn ==
    /\ program = "starting" /\ at[MainCall] = "idle"
    /\ program' = IF result[MainCall] = "ok" THEN "wiring" ELSE "exited"
    /\ UNCHANGED <<runtimeVars, handler, orderly>>

\* The schedulers are started and the handlers installed.
MainReady ==
    /\ program = "wiring" /\ program' = "ready"
    /\ UNCHANGED <<runtimeVars, handler, orderly>>

\* Without any handler the signal ends the process.
SignalKills ==
    /\ program \notin {"ready", "exited"} /\ ~bound
    /\ program' = "exited"
    /\ UNCHANGED <<runtimeVars, handler, orderly>>

\* The runtime's handler was installed first and runs first; main's begins with
\* the schedulers.  A second signal does not get to main's handler here.
Signal ==
    /\ program # "exited"
    /\ bound \/ program = "ready"
    /\ \/ bound /\ Stop(OwnCall)
       \/ ~bound /\ UNCHANGED runtimeVars
    /\ \/ program = "ready" /\ handler = "none" /\ handler' = "schedulers"
       \/ program # "ready" /\ UNCHANGED handler
    /\ UNCHANGED <<program, orderly>>

HandlerStops ==
    /\ handler = "schedulers" /\ handler' = "stopping"
    /\ Stop(HandlerCall)
    /\ UNCHANGED <<program, orderly>>

\* process.exit, whatever stop() returned.
HandlerExits ==
    /\ program # "exited"
    /\ handler = "stopping" /\ at[HandlerCall] = "idle"
    /\ program' = "exited" /\ orderly' = TRUE
    /\ UNCHANGED <<runtimeVars, handler>>

Runtime == \E c \in Calls : Answers(c) \/ Timers(c)

MainNext ==
    \/ MainStarts \/ MainGoesOn \/ MainReady
    \/ SignalKills \/ Signal \/ HandlerStops \/ HandlerExits
    \/ program # "exited" /\ Runtime /\ UNCHANGED mainVars

\* main() and its handler run; timers as in DaemonRuntime.
MainProgress ==
    \/ MainGoesOn \/ MainReady \/ HandlerStops \/ HandlerExits
    \/ program # "exited" /\ (\E c \in Calls : Timers(c)) /\ UNCHANGED mainVars

-----------------------------------------------------------------------------
MainTypeOK ==
    /\ program \in {"boot", "starting", "wiring", "ready", "exited"}
    /\ handler \in {"none", "schedulers", "stopping"}
    /\ orderly \in BOOLEAN

\* What stop() is for: when the process leaves through its signal handler, no
\* stop of the services is still under way.
GracefulExit == orderly => \A c \in Calls : at[c] # "stopping"
=============================================================================
