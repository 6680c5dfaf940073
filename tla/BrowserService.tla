---------------------------- MODULE BrowserService ----------------------------
(***************************************************************************)
(* BrowserDaemonService (src/src/browser/browser-daemon-service.ts): calls *)
(* of ensureBrowser, of launchHeaded or launchHeadless, and of stop share  *)
(* one Chrome process and one CDP client.  ensureBrowser shares a launch   *)
(* in progress (launchPromise); the others do not.  A process is named by  *)
(* the call that spawned it: each call spawns at most one.                 *)
(*                                                                         *)
(* The CDP client is seen from here as connected or not (CdpClient has     *)
(* its detail); the tab list and the configuration are left out.           *)
(***************************************************************************)
EXTENDS Naturals

CONSTANTS
    Ensurers,   \* calls of ensureBrowser, each made at most once
    Managers,   \* calls of launchHeaded, launchHeadless or stop
    NoCall

NoCallIsNoCall == NoCall \notin Ensurers \cup Managers

VARIABLES
    chrome,         \* chromeProcess
    processExited,
    client,         \* cdpClient: none, open (isConnected) or dropped
    launch,         \* the call whose launch is launchPromise
    proc,           \* the process each call spawned
    at,             \* where each call is
    kind,           \* the operation each call performs
    target,         \* the process its stopChrome waits for
    failing,        \* its launch has failed: it stops Chrome and rethrows
    overlapped      \* a restart or stop overlapped another operation

browserState == <<chrome, processExited, client, launch, proc>>
callState == <<at, kind, target, failing>>
vars == <<browserState, callState, overlapped>>

Callers == Ensurers \cup Managers
Kinds == {"ensure", "restart", "stop"}
Settled == {"done", "failed"}
Working == {c \in Callers : at[c] \notin Settled \cup {"new", "joined"}}

\* isBrowserHealthy.
Healthy == chrome # NoCall /\ ~processExited /\ client = "open"

Init ==
    /\ chrome = NoCall /\ processExited = FALSE /\ client = "none" /\ launch = NoCall
    /\ proc = [c \in Callers |-> "none"]
    /\ at = [c \in Callers |-> "new"]
    /\ kind = [c \in Callers |-> IF c \in Ensurers THEN "ensure" ELSE "restart"]
    /\ target = [c \in Callers |-> NoCall]
    /\ failing = [c \in Callers |-> FALSE]
    /\ overlapped = FALSE

Goes(c, place) == at' = [at EXCEPT ![c] = place]

\* A call settles; whoever joined its launch settles with it.
Settle(c, how) ==
    /\ at' = [d \in Callers |-> IF d = c \/ (launch = c /\ at[d] = "joined") THEN how ELSE at[d]]
    /\ launch' = IF launch = c THEN NoCall ELSE launch

\* stopChrome drops the client and awaits its disconnect.
BeginStop(c) ==
    /\ client' = "none"
    /\ Goes(c, "disconnecting")

\* A client at hand and healthy is returned at once.
EnsureHealthy(c) ==
    /\ at[c] = "new" /\ kind[c] = "ensure" /\ Healthy
    /\ Goes(c, "done")
    /\ UNCHANGED <<browserState, kind, target, failing, overlapped>>

\* A launch in progress is shared.
EnsureJoins(c) ==
    /\ at[c] = "new" /\ kind[c] = "ensure" /\ ~Healthy /\ launch # NoCall
    /\ Goes(c, "joined")
    /\ UNCHANGED <<browserState, kind, target, failing, overlapped>>

\* Mutant: a launch in progress is not looked for.
EnsureAlways(c) ==
    /\ at[c] = "new" /\ kind[c] = "ensure" /\ ~Healthy
    /\ launch' = c
    /\ BeginStop(c)
    /\ overlapped' = (overlapped \/ \E d \in Working : kind[d] # "ensure")
    /\ UNCHANGED <<chrome, processExited, proc, kind, target, failing>>

\* Otherwise this call launches, after it has stopped what is left.
EnsureLaunches(c) ==
    /\ at[c] = "new" /\ kind[c] = "ensure" /\ ~Healthy /\ launch = NoCall
    /\ launch' = c
    /\ BeginStop(c)
    /\ overlapped' = (overlapped \/ Working # {})
    /\ UNCHANGED <<chrome, processExited, proc, kind, target, failing>>

\* launchHeaded, launchHeadless and stop begin with stopChrome in any case.
RestartOrStop(c) ==
    /\ at[c] = "new" /\ c \in Managers
    /\ \E operation \in {"restart", "stop"} : kind' = [kind EXCEPT ![c] = operation]
    /\ BeginStop(c)
    /\ overlapped' = (overlapped \/ Working # {})
    /\ UNCHANGED <<chrome, processExited, launch, proc, target, failing>>

\* What follows stopChrome: the end of the call, or the launch.
AfterStop(c) ==
    IF failing[c] THEN Settle(c, "failed")
    ELSE IF kind[c] = "stop" THEN Settle(c, "done")
    ELSE Goes(c, "launching") /\ UNCHANGED launch

\* stopChrome goes on after the disconnect: without a process it is over.
NothingToKill(c) ==
    /\ at[c] = "disconnecting" /\ chrome = NoCall
    /\ AfterStop(c)
    /\ UNCHANGED <<chrome, processExited, client, proc, kind, target, failing, overlapped>>
Kill(c) ==
    /\ at[c] = "disconnecting" /\ chrome # NoCall
    /\ Goes(c, "killing")
    /\ target' = [target EXCEPT ![c] = chrome]
    /\ UNCHANGED <<browserState, kind, failing, overlapped>>

\* It has exited, or five seconds have passed and it gets SIGKILL.
Killed(c) ==
    /\ at[c] = "killing"
    /\ IF proc[target[c]] = "alive" THEN proc' = [proc EXCEPT ![target[c]] = "dying"]
       ELSE UNCHANGED proc
    /\ chrome' = NoCall /\ processExited' = TRUE
    /\ target' = [target EXCEPT ![c] = NoCall]
    /\ AfterStop(c)
    /\ UNCHANGED <<client, kind, failing, overlapped>>

\* launchChrome up to the spawn; the binary may be missing.
Spawn(c) ==
    /\ at[c] = "launching"
    /\ chrome' = c /\ processExited' = FALSE
    /\ proc' = [proc EXCEPT ![c] = "alive"]
    /\ Goes(c, "waiting")
    /\ UNCHANGED <<client, launch, kind, target, failing, overlapped>>
NoBinary(c) ==
    /\ at[c] = "launching"
    /\ Settle(c, "failed")
    /\ UNCHANGED <<chrome, processExited, client, proc, kind, target, failing, overlapped>>

\* waitForChromeReady: some Chrome answers on the port, or ten seconds pass.
\* The process that did not answer stays where it is.
ChromeReady(c) ==
    /\ at[c] = "waiting" /\ \E d \in Callers : proc[d] = "alive"
    /\ Goes(c, "connecting")
    /\ UNCHANGED <<browserState, kind, target, failing, overlapped>>
NotReady(c) ==
    /\ at[c] = "waiting"
    /\ Settle(c, "failed")
    /\ UNCHANGED <<chrome, processExited, client, proc, kind, target, failing, overlapped>>

\* client.connect() settles; a failure stops Chrome before it is thrown on.
Connected(c) ==
    /\ at[c] = "connecting" /\ \E d \in Callers : proc[d] = "alive"
    /\ client' = "open"
    /\ Goes(c, "stealth")
    /\ UNCHANGED <<chrome, processExited, launch, proc, kind, target, failing, overlapped>>
ConnectFails(c) ==
    /\ at[c] = "connecting"
    /\ failing' = [failing EXCEPT ![c] = TRUE]
    /\ BeginStop(c)
    /\ UNCHANGED <<chrome, processExited, launch, proc, kind, target, overlapped>>

\* The stealth scripts are in, or not; ensureBrowser looks at its client again.
Launched(c) ==
    /\ at[c] = "stealth"
    /\ Settle(c, IF kind[c] = "ensure" /\ client = "none" THEN "failed" ELSE "done")
    /\ UNCHANGED <<chrome, processExited, client, proc, kind, target, failing, overlapped>>

\* A process exits, by itself or killed; the handler of any process that was
\* ever spawned sets the one flag.
ProcessExits(c) ==
    /\ proc[c] \in {"alive", "dying"}
    /\ proc' = [proc EXCEPT ![c] = "exited"]
    /\ processExited' = TRUE
    /\ UNCHANGED <<chrome, client, launch, callState, overlapped>>

\* The client's socket closes, or its reconnect succeeds.
ClientDrops ==
    /\ client = "open" /\ client' = "dropped"
    /\ UNCHANGED <<chrome, processExited, launch, proc, callState, overlapped>>
ClientReturns ==
    /\ client = "dropped" /\ \E d \in Callers : proc[d] = "alive"
    /\ client' = "open"
    /\ UNCHANGED <<chrome, processExited, launch, proc, callState, overlapped>>

Begin(c) == EnsureHealthy(c) \/ EnsureJoins(c) \/ EnsureLaunches(c) \/ RestartOrStop(c)
Step(c) ==
    \/ NothingToKill(c) \/ Kill(c) \/ Killed(c) \/ Spawn(c) \/ NoBinary(c)
    \/ ChromeReady(c) \/ NotReady(c) \/ Connected(c) \/ ConnectFails(c) \/ Launched(c)

Next ==
    \/ \E c \in Callers : Begin(c) \/ Step(c) \/ ProcessExits(c)
    \/ ClientDrops \/ ClientReturns

Spec == Init /\ [][Next]_vars

----------------------------------------------------------------------------

TypeOK ==
    /\ chrome \in Callers \cup {NoCall} /\ launch \in Callers \cup {NoCall}
    /\ processExited \in BOOLEAN
    /\ client \in {"none", "open", "dropped"}
    /\ proc \in [Callers -> {"none", "alive", "dying", "exited"}]
    /\ at \in [Callers -> Settled \cup {"new", "joined", "disconnecting", "killing",
                                      "launching", "waiting", "connecting", "stealth"}]
    /\ kind \in [Callers -> Kinds]
    /\ target \in [Callers -> Callers \cup {NoCall}]
    /\ failing \in [Callers -> BOOLEAN]
    /\ overlapped \in BOOLEAN

\* However many tools ask for the browser, whatever fails and whichever
\* process outlives its signal: as long as no restart or stop overlaps another
\* operation, a Chrome that is up and was not killed is the one the service
\* holds, so that the next stop or launch finds it.
NoOrphanChrome == ~overlapped => \A c \in Callers : proc[c] = "alive" => chrome = c

\* Whoever joined a launch is waiting for one that is still under way.
JoinedAreServed == \A c \in Callers : at[c] = "joined" => launch \in Working

\* Every call that was made has settled.
Resting == \A c \in Callers : at[c] \in Settled \cup {"new"}
=============================================================================
