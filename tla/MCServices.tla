------------------------------ MODULE MCServices ------------------------------
(***************************************************************************)
(* The daemon's service layer in nine parts: the runtime under any calls,  *)
(* the daemon process that uses it, one integration, the token refresh of  *)
(* its OAuth credential, the browser's Chrome process, the connection to   *)
(* it, the watched directory of skills, the import of an OpenClaw          *)
(* installation, and a plugin in its worker threads.  An initial state     *)
(* picks the part that runs; they share no state, so a behaviour of this   *)
(* module is one of a part.                                                *)
(***************************************************************************)
EXTENDS DaemonMain, FiniteSets

CONSTANTS
    Ops, NoOp,
    Execs, NoExec, MaxTokens, RefreshAttempts,
    Ensurers, Managers, NoCall,
    Commands, Enables, Reenable, MaxAttempts, MaxSockets, MaxConnects,
    Dirs, NoDir, NameCount, MaxVersion, MaxChanges,
    Agents, Keys, Channels, ByokOf, OAuth, Listed, Selections, MaxImports, MaxTroubles, NoItem,
    MaxLoads, MaxAsked

VARIABLES
    part,  \* which of the nine runs
    iState, tools, enabled, credential, connected, started, tail, kind, previous, iAt, latest,
    issued, vault, timer, inFlight, refreshAt, token, tries, joined, expired, cancelled, lost,
    chrome, processExited, client, launch, proc, callAt, callKind, target, failing, crossed,
    socket, sockets, heard, connecting, dialled, attempt, stage, redialled,
    disconnectRequested, permanentlyDisconnected, domain, command, connects, mixed,
    disk, changes, scanned, watching, registry, known, cache, reported, debounce, rescan,
    left, parsed, missed,
    status, pending, importAt, selected, dryRun, toDetect, conflicts, answer, todo,
    readCopy, additions, agents, identity, keys, refreshes, tokens, channels, edit, imports,
    troubles, faulty, unseen, raced,
    worker, running, watchdog, starting, loaded, handlers, pluginCalls, loads, asked, tangled

integrationVars ==
    <<iState, tools, enabled, credential, connected, started, tail, kind, previous, iAt, latest>>
refreshVars ==
    <<issued, vault, timer, inFlight, refreshAt, token, tries, joined, expired, cancelled, lost>>
browserVars ==
    <<chrome, processExited, client, launch, proc, callAt, callKind, target, failing, crossed>>
cdpVars ==
    <<socket, sockets, heard, connecting, dialled, attempt, stage, redialled,
      disconnectRequested, permanentlyDisconnected, domain, command, connects, mixed>>
skillVars ==
    <<disk, changes, scanned, watching, registry, known, cache, reported, debounce, rescan,
      left, parsed, missed>>
importVars ==
    <<status, pending, importAt, selected, dryRun, toDetect, conflicts, answer, todo,
      readCopy, additions, agents, identity, keys, refreshes, tokens, channels, edit, imports,
      troubles, faulty, unseen, raced>>
pluginVars ==
    <<worker, running, watchdog, starting, loaded, handlers, pluginCalls, loads, asked, tangled>>
daemonVars == <<runtimeVars, mainVars>>
allVars ==
    <<part, daemonVars, integrationVars, refreshVars, browserVars, cdpVars, skillVars, importVars, pluginVars>>

Integration == INSTANCE IntegrationLifecycle WITH state <- iState, at <- iAt
Refresh == INSTANCE OAuthRefresh WITH
    latest <- issued, at <- refreshAt, attempt <- tries, MaxAttempts <- RefreshAttempts
Browser == INSTANCE BrowserService WITH
    at <- callAt, kind <- callKind, overlapped <- crossed
Cdp == INSTANCE CdpClient WITH state <- sockets, bound <- heard
Skills == INSTANCE SkillWatcher WITH timer <- debounce
Import == INSTANCE OpenClawImport WITH at <- importAt
Plugins == INSTANCE PluginHost WITH calls <- pluginCalls

ASSUME ServicesLimits ==
    /\ Integration!NoOpIsNoCall /\ Refresh!RefreshLimits /\ Browser!NoCallIsNoCall
    /\ Cdp!CdpLimits /\ Skills!SkillLimits /\ Plugins!PluginLimits
    /\ Import!ImportLimits

\* Bounds: one skill is there at the start; and a part that does not run begins
\* in one way.
OneDir == CHOOSE d \in Dirs : TRUE
ServicesInit ==
    /\ part \in {"runtime", "main", "integration", "refresh", "browser", "cdp", "skills", "import",
                "plugins"}
    /\ MainInit /\ Integration!Init /\ Refresh!Init /\ Browser!Init /\ Cdp!Init
    /\ Skills!Init /\ {d \in Dirs : disk[d] # Skills!Absent} = (IF part = "skills" THEN {OneDir} ELSE {})
    /\ Import!Init /\ Plugins!Init
    /\ part # "import" => \A a \in Agents : agents[a] = "none"

\* A step of one part leaves the others alone.
Only(n, vs) == part = n /\ UNCHANGED <<part, vs>>
ServicesNext ==
    \/ Only("runtime", <<mainVars, integrationVars, refreshVars, browserVars, cdpVars, skillVars, importVars, pluginVars>>)
       /\ Next
    \/ Only("main", <<integrationVars, refreshVars, browserVars, cdpVars, skillVars, importVars, pluginVars>>)
       /\ MainNext
    \/ Only("integration", <<daemonVars, refreshVars, browserVars, cdpVars, skillVars, importVars, pluginVars>>)
       /\ Integration!Next
    \/ Only("refresh", <<daemonVars, integrationVars, browserVars, cdpVars, skillVars, importVars, pluginVars>>)
       /\ Refresh!Next
    \/ Only("browser", <<daemonVars, integrationVars, refreshVars, cdpVars, skillVars, importVars, pluginVars>>)
       /\ Browser!Next
    \/ Only("cdp", <<daemonVars, integrationVars, refreshVars, browserVars, skillVars, importVars, pluginVars>>)
       /\ Cdp!Next
    \/ Only("skills", <<daemonVars, integrationVars, refreshVars, browserVars, cdpVars, importVars, pluginVars>>)
       /\ Skills!Next
    \/ Only("import", <<daemonVars, integrationVars, refreshVars, browserVars, cdpVars, skillVars, pluginVars>>)
       /\ Import!Next
    \/ Only("plugins", <<daemonVars, integrationVars, refreshVars, browserVars, cdpVars, skillVars, importVars>>)
       /\ Plugins!Next

\* The fairness of each part, while it is the one that runs.
ServicesSpec ==
    /\ ServicesInit /\ [][ServicesNext]_allVars
    /\ \A c \in Calls : WF_runtimeVars(part = "runtime" /\ Timers(c))
    /\ WF_daemonVars(part = "main" /\ MainProgress)
    /\ \A o \in Ops : WF_integrationVars(part = "integration" /\ Integration!Step(o))
    /\ WF_refreshVars(part = "refresh" /\ \E e \in Execs : Refresh!Progress(e))
    /\ \A c \in Ensurers \cup Managers : WF_browserVars(part = "browser" /\ Browser!Step(c))
    /\ WF_cdpVars(part = "cdp" /\ Cdp!Progress)
    /\ WF_skillVars(part = "skills" /\ Skills!Progress)
    /\ WF_importVars(part = "import" /\ Import!Convert)
    /\ WF_pluginVars(part = "plugins" /\ Plugins!Progress)

\* Types of the part that runs; the others stay as they began.
ServicesTypeOK ==
    /\ part = "runtime" => TypeOK
    /\ part = "main" => TypeOK /\ MainTypeOK
    /\ part = "integration" => Integration!TypeOK
    /\ part = "refresh" => Refresh!TypeOK
    /\ part = "browser" => Browser!TypeOK
    /\ part = "cdp" => Cdp!TypeOK
    /\ part = "skills" => Skills!TypeOK
    /\ part = "import" => Import!TypeOK
    /\ part = "plugins" => Plugins!TypeOK

\* The model is offered the operations of an active integration only; and a
\* disable that returned ok leaves nothing behind (IntegrationLifecycle).
IntegrationsHeld ==
    part = "integration" => Integration!ToolsOnlyWhenActive /\ Integration!DisabledIsClean

\* No two refreshes run at once, and at rest the vault holds the token that the
\* provider accepts, but for what OAuthRefresh names.
OneRefreshKeepsToken == part = "refresh" => Refresh!OneRefreshKeepsToken

\* No Chrome is orphaned and all who joined a launch are served (BrowserService);
\* commands wait on a socket that is listened to and no other is left (CdpClient).
BrowserHeld ==
    /\ part = "browser" => Browser!NoOrphanChrome /\ Browser!JoinedAreServed
    /\ part = "cdp" => Cdp!WaitsOnHeardSocket /\ Cdp!NoSocketLeft

\* The skills offered are those on disk, but for the changes that SkillWatcher
\* names.
SkillsMirrored == part = "skills" => Skills!SkillsMirrored

\* No thread of a plugin runs without a timer or a stop that ends it, and events go
\* to the plugin that is loaded (PluginHost).
PluginsHeld == part = "plugins" => Plugins!PluginsHeld

\* An import takes only what its user gave it, leaves nothing else out, and its
\* status says what it does (OpenClawImport).
ImportTakesWhatIsGiven ==
    Import!OwnIsAsked /\ []Import!NothingLeftOut /\ []Import!StatusIsTrue

\* Calls of the runtime and operations of the integration are interchangeable:
\* one stands for all.
SomeOp == CHOOSE o \in Ops : TRUE
UnderWay ==
    CASE part = "runtime" -> at[MainCall] = "stopping"
      [] part = "main" -> handler = "schedulers"
      [] part = "integration" -> iAt[SomeOp] = "queued"
      [] part = "refresh" -> ~Refresh!Resting
      [] part = "browser" -> ~Browser!Resting
      [] part = "cdp" -> ~Cdp!Resting
      [] part = "skills" -> ~Skills!Resting
      [] part = "import" -> ~Import!Resting
      [] part = "plugins" -> ~Plugins!Resting
Ended ==
    CASE part = "runtime" -> at[MainCall] # "stopping"
      [] part = "main" -> program = "exited"
      [] part = "integration" -> iAt[SomeOp] = "idle"
      [] part = "refresh" -> Refresh!Resting
      [] part = "browser" -> Browser!Resting
      [] part = "cdp" -> Cdp!Resting
      [] part = "skills" -> Skills!Resting
      [] part = "import" -> Import!Resting
      [] part = "plugins" -> Plugins!Resting

\* What is under way ends, each in its part: a stop of the runtime even when a
\* service never answers it, a signal that reached the handlers of main with the
\* end of the process, an operation of the integration, a token refresh with all
\* who joined it, every call of the browser service, the reconnects and
\* commands of the browser's connection, the rescans of the skills, an import up to
\* its end or its next question, and every call on a plugin with its threads.
CallsEnd == UnderWay ~> Ended

\* Bound: after a load has met an earlier sandbox or its calls, one request at most
\* and five calls at once.
FewTangled ==
    part = "plugins" /\ tangled => asked <= 1 /\ Plugins!BagCardinality(pluginCalls) <= 5

\* An API key and an OAuth profile of another provider.
ApiKeyFirst == [k \in Keys |-> IF k \in OAuth THEN NoItem ELSE k]
\* Bound: an import is of every category.
Everything == {{"agents", "memory", "keys", "channels"}}
=============================================================================
