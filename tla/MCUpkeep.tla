------------------------------- MODULE MCUpkeep -------------------------------
(***************************************************************************)
(* What goes on beside the conversations, in six parts: the executions of  *)
(* cron jobs, the consolidation of memories, the session metadata, signing *)
(* in with a provider, the first-run wizard with its checkpoint, and the   *)
(* installation of a skill.  An initial state picks the part that runs;    *)
(* they share no state, so a behaviour of this module is one of a part.    *)
(***************************************************************************)
EXTENDS MCCronScheduler

CONSTANTS
    MaxRecords, BatchSize, MaxRetries, Attempts, MaxDepth, TextA, TextB, TextC, NoText,
    MaxFacts, MaxLtm, MaxRuns,
    SessionCalls, MaxSessions, MaxLoads,
    SignInCalls, NoCall, MaxSignIns,
    NumSteps, Skippable, WizardCalls, MaxRestarts, MaxActs,
    InstallCalls, MaxVersion, MaxInstalls

VARIABLES
    part,  \* which of the six
    stm, status, retries, resting, phase, batch, facts, merged, written, attempt, ltm, nextId,
    runs, told, thrown,
    sessions, repoAt, mem, reply, made, loads, repoSaid, repoOverlapped, sure, gone,
    provider, begun, open, listening, settled, heard, waiter, pending, connectAt, entry, code,
    given, approved, spent, disturbed, refused,
    index, done, checkpoint, wizardAt, step, config, restarts, acts, announced, answered, acked,
    strayed, wizardOverlapped, lost,
    form, files, dir, installAt, want, placed, progress, prev, installs, good, installOverlapped

consolidationVars ==
    <<stm, status, retries, resting, phase, batch, facts, merged, written, attempt, ltm, nextId,
      runs, told, thrown>>
sessionVars ==
    <<sessions, repoAt, mem, reply, made, loads, repoSaid, repoOverlapped, sure, gone>>
connectVars ==
    <<provider, begun, open, listening, settled, heard, waiter, pending, connectAt, entry, code,
      given, approved, spent, disturbed, refused>>
wizardVars ==
    <<index, done, checkpoint, wizardAt, step, config, restarts, acts, announced, answered, acked,
      strayed, wizardOverlapped, lost>>
installVars ==
    <<form, files, dir, installAt, want, placed, progress, prev, installs, good,
      installOverlapped>>
allVars ==
    <<part, vars, consolidationVars, sessionVars, connectVars, wizardVars, installVars>>

Consolidating == INSTANCE Consolidation WITH
    Texts <- {TextA, TextB, TextC},
    Contradictory <- {{TextA, TextB}, {TextB, TextC}}
Sessions == INSTANCE SessionRepository WITH
    Calls <- SessionCalls, MaxIds <- MaxSessions,
    file <- sessions, at <- repoAt, said <- repoSaid, overlapped <- repoOverlapped
Connect == INSTANCE OAuthConnect WITH
    Calls <- SignInCalls, kind <- provider, at <- connectAt
Wizard == INSTANCE Onboarding WITH
    Calls <- WizardCalls, file <- checkpoint, at <- wizardAt, overlapped <- wizardOverlapped
Install == INSTANCE SkillInstall WITH
    Calls <- InstallCalls, at <- installAt, overlapped <- installOverlapped

ASSUME UpkeepLimits ==
    /\ Consolidating!ConsolidationLimits /\ Sessions!SessionLimits /\ Connect!SignInLimits
    /\ Wizard!WizardLimits /\ Install!InstallLimits

Parts == {"cron", "consolidation", "sessions", "connect", "wizard", "install"}

\* The parts that do not run: all but one.
Rest(idle) ==
    /\ "cron" \in idle => UNCHANGED vars
    /\ "consolidation" \in idle => UNCHANGED consolidationVars
    /\ "sessions" \in idle => UNCHANGED sessionVars
    /\ "connect" \in idle => UNCHANGED connectVars
    /\ "wizard" \in idle => UNCHANGED wizardVars
    /\ "install" \in idle => UNCHANGED installVars

\* Of a part that does not run one initial state is enough.
UpkeepInit ==
    /\ part \in Parts
    /\ Init /\ Consolidating!Init /\ Sessions!Init /\ Connect!Init /\ Wizard!Init /\ Install!Init
    /\ part # "connect" => provider = "local"
    /\ part # "install" => \A v \in 1..MaxVersion : form[v] = "native" /\ files[v] = {"skill"}

UpkeepNext ==
    /\ \/ part = "cron" /\ Next
       \/ part = "consolidation" /\ Consolidating!Next
       \/ part = "sessions" /\ Sessions!Next
       \/ part = "connect" /\ Connect!Next
       \/ part = "wizard" /\ Wizard!Next
       \/ part = "install" /\ Install!Next
    /\ Rest(Parts \ {part})
    /\ UNCHANGED part

\* The scheduler is stopped while another part runs, and its fairness asks nothing.
UpkeepSpec == UpkeepInit /\ [][UpkeepNext]_allVars /\ Fairness

\* Types of the part that runs; the others stay as they began.
UpkeepTypeOK ==
    /\ part = "cron" => TypeOK
    /\ part = "consolidation" => Consolidating!TypeOK
    /\ part = "sessions" => Sessions!TypeOK
    /\ part = "connect" => Connect!TypeOK
    /\ part = "wizard" => Wizard!TypeOK
    /\ part = "install" => Install!TypeOK

\* What a consolidation was told is remembered, once (Consolidation).
ConsolidationHeld == part = "consolidation" => Consolidating!ConsolidationHeld

\* Sessions stay until they are deleted (SessionRepository).
SessionsKept == part = "sessions" => Sessions!SessionsKept

\* A sign-in the user approved is not refused, no server is left (OAuthConnect).
ConnectHeld == part = "connect" => Connect!ConnectHeld

\* The wizard goes on where it was (Onboarding), and an installed skill is that of
\* one package (SkillInstall).
SetupHeld ==
    (part = "wizard" => Wizard!OnboardingHeld) /\ (part = "install" => Install!InstallHeld)
=============================================================================
