------------------------------- MODULE Onboarding -------------------------------
(***************************************************************************)
(* The first-run wizard: OnboardingEngine (src/src/onboarding/engine.ts)   *)
(* over the file of OnboardingCheckpointService (checkpoint-service.ts),   *)
(* and what FirstRunDetector (first-run-detector.ts) reads out of it.      *)
(*                                                                         *)
(* Every step has its handler.  The data that steps collect, the mode and  *)
(* the times are left out.  The user may press a key while a call is still *)
(* in progress, and leave the program at any time.                         *)
(***************************************************************************)
EXTENDS Naturals, FiniteSets

CONSTANTS
    NumSteps, Skippable, \* steps are numbered in their order
    Calls,               \* calls that may be in progress together
    MaxRestarts, MaxActs \* bounds: starts of the program, keys pressed

VARIABLES
    index,     \* currentStepIndex
    done,      \* completedStepRecords
    file,      \* onboarding.json
    at, step, config,   \* per call: where it is, its step, what it saves
    restarts, acts,
    announced, \* wizardComplete was emitted
    answered,  \* history: steps completed, skipped or passed with next
    acked,     \* history: steps whose completion returned ok
    strayed,   \* history: the user went back, skipped or passed a step
    overlapped, lost \* history: a key during a call; a checkpoint was lost

engine == <<index, done>>
procs == <<at, step, config>>
history == <<answered, acked, strayed, overlapped, lost>>
vars == <<engine, file, procs, restarts, acts, announced, history>>

Steps == 1..NumSteps
WizardLimits ==
    /\ NumSteps \in Nat \ {0} /\ Skippable \subseteq Steps
    /\ IsFiniteSet(Calls) /\ {MaxRestarts, MaxActs} \subseteq Nat

NoFile == [complete |-> FALSE, current |-> 0, done |-> {}]
Least(S) == IF S = {} THEN 0 ELSE CHOOSE s \in S : \A t \in S : s <= t

Complete(i) == i >= NumSteps
Current(i) == IF Complete(i) THEN 0 ELSE i + 1
Config(i, d) == [complete |-> Complete(i), current |-> Current(i), done |-> d]

\* initialize: where to go on.  A file that does not parse is no checkpoint.
ResumeIndex(f) == IF f.complete THEN NumSteps
                  ELSE IF f.current # 0 THEN f.current - 1
                  ELSE IF f.done = Steps THEN NumSteps ELSE Least(Steps \ f.done) - 1

Init ==
    /\ index = 0 /\ done = {} /\ file = NoFile
    /\ at = [c \in Calls |-> "idle"] /\ step = [c \in Calls |-> 0]
    /\ config = [c \in Calls |-> NoFile]
    /\ restarts = 0 /\ acts = 0 /\ announced = FALSE
    /\ answered = {} /\ acked = {} /\ strayed = FALSE /\ overlapped = FALSE /\ lost = FALSE

Busy == \E c \in Calls : at[c] # "idle"
Key ==
    /\ acts < MaxActs /\ acts' = acts + 1
    /\ overlapped' = (overlapped \/ Busy)

\* next(): saves nothing, also at the end.
NextStep ==
    /\ Key /\ ~Complete(index)
    /\ index' = index + 1 /\ announced' = (announced \/ Complete(index'))
    /\ answered' = answered \cup {Current(index)} /\ strayed' = TRUE
    /\ UNCHANGED <<done, file, procs, restarts, acked, lost>>
Back ==
    /\ Key /\ index > 0 /\ index' = index - 1 /\ strayed' = TRUE
    /\ UNCHANGED <<done, file, procs, restarts, announced, answered, acked, lost>>

\* Call c answers step s and begins to save: persistCheckpoint.
\* Mutant: the checkpoint is made before the wizard goes on.
AnswersSavingFirst(c, s, d) ==
    /\ answered' = answered \cup {s} /\ done' = d
    /\ index' = index + 1
    /\ at' = [at EXCEPT ![c] = "saving"] /\ config' = [config EXCEPT ![c] = Config(index, d)]
Answers(c, s, d) ==
    /\ answered' = answered \cup {s} /\ done' = d
    /\ index' = index + 1
    /\ at' = [at EXCEPT ![c] = "saving"] /\ config' = [config EXCEPT ![c] = Config(index', d)]

Ends(c) ==
    /\ at' = [at EXCEPT ![c] = "idle"] /\ step' = [step EXCEPT ![c] = 0]
    /\ config' = [config EXCEPT ![c] = NoFile]

Skip(c) ==
    /\ at[c] = "idle" /\ Key /\ Current(index) \in Skippable
    /\ Answers(c, Current(index), done) /\ step' = [step EXCEPT ![c] = 0] /\ strayed' = TRUE
    /\ UNCHANGED <<file, restarts, announced, acked, lost>>

\* completeCurrentStep: the handler is asked, and answers later.
Ask(c) ==
    /\ at[c] = "idle" /\ Key /\ Current(index) # 0
    /\ at' = [at EXCEPT ![c] = "executing"] /\ step' = [step EXCEPT ![c] = Current(index)]
    /\ UNCHANGED <<engine, file, config, restarts, announced, answered, acked, strayed, lost>>
Completed(c) ==
    /\ at[c] = "executing" /\ Answers(c, step[c], done \cup {step[c]})
    /\ UNCHANGED <<file, step, restarts, acts, announced, acked, strayed, overlapped, lost>>
Skipped(c) ==
    /\ at[c] = "executing" /\ step[c] \in Skippable
    /\ Answers(c, step[c], done) /\ step' = [step EXCEPT ![c] = 0] /\ strayed' = TRUE
    /\ UNCHANGED <<file, restarts, acts, announced, acked, overlapped, lost>>
SaidBack(c) ==
    /\ at[c] = "executing" /\ Ends(c)
    /\ index' = (IF index > 0 THEN index - 1 ELSE 0) /\ strayed' = TRUE
    /\ UNCHANGED <<done, file, restarts, acts, announced, answered, acked, overlapped, lost>>
\* The handler throws, or wants to skip what cannot be skipped.
Refused(c) ==
    /\ at[c] = "executing" /\ Ends(c)
    /\ UNCHANGED <<engine, file, restarts, acts, announced, history>>

\* The write is done: the call returns, and announces the end of the wizard.
Saved(c) ==
    /\ at[c] = "saving" /\ Ends(c)
    /\ file' = config[c]
    /\ acked' = acked \cup ({step[c]} \ {0}) /\ announced' = (announced \/ Complete(index))
    /\ UNCHANGED <<engine, restarts, acts, answered, strayed, overlapped, lost>>
\* It fails, and leaves the file as it was.
SaveFails(c) ==
    /\ at[c] = "saving" /\ Ends(c)
    /\ UNCHANGED <<engine, file, restarts, acts, announced, history>>

\* The program ends, perhaps while it writes, and starts again with what is in
\* the file.
Restart ==
    /\ restarts < MaxRestarts /\ restarts' = restarts + 1
    /\ \E f \in {file} \cup {config[c] : c \in {d \in Calls : at[d] = "saving"}}
                  \cup (IF \E c \in Calls : at[c] = "saving" THEN {NoFile} ELSE {}) :
         /\ file' = f /\ index' = ResumeIndex(f) /\ done' = f.done
         /\ lost' = (lost \/ ~(acked \subseteq f.done))
    /\ at' = [c \in Calls |-> "idle"] /\ step' = [c \in Calls |-> 0]
    /\ config' = [c \in Calls |-> NoFile] /\ announced' = FALSE
    /\ UNCHANGED <<acts, answered, acked, strayed, overlapped>>

Next ==
    \/ NextStep \/ Back \/ Restart
    \/ \E c \in Calls : Skip(c) \/ Ask(c) \/ Completed(c) \/ Skipped(c) \/ SaidBack(c) \/ Refused(c)
                            \/ Saved(c) \/ SaveFails(c)

Spec == Init /\ [][Next]_vars

----------------------------------------------------------------------------

Files == [complete : BOOLEAN, current : 0..NumSteps, done : SUBSET Steps]
TypeOK ==
    /\ index \in 0..(NumSteps + Cardinality(Calls)) /\ done \subseteq Steps /\ file \in Files
    /\ at \in [Calls -> {"idle", "executing", "saving"}] /\ step \in [Calls -> 0..NumSteps]
    /\ config \in [Calls -> Files]
    /\ restarts \in 0..MaxRestarts /\ acts \in 0..MaxActs
    /\ {announced, strayed, overlapped, lost} \subseteq BOOLEAN
    /\ answered \subseteq Steps /\ acked \subseteq Steps

\* Of FirstRunDetector: the step to go on with, 0 for none.
Detected(f) == Least(Steps \ f.done)

\* When no key is pressed during a call, and up to a checkpoint cut off by the
\* end of the program: a step that was acknowledged is in the file, and neither
\* the wizard nor the file is past a step that was not answered.  A user who only
\* completes steps is asked no step twice, whenever the program is left, and the
\* engine and the detector agree on where to go on; and when the wizard announced
\* its end the file says so.
Before(f) == IF f.complete THEN Steps ELSE {s \in Steps : s < f.current}
OnboardingHeld ==
    ~overlapped =>
        /\ ~lost => acked \subseteq file.done
        /\ 1..index \subseteq answered /\ Before(file) \subseteq answered
        /\ ~strayed /\ file # NoFile =>
               file.current \notin file.done /\ file.current = Detected(file)
        /\ ~strayed /\ announced => file.complete
=============================================================================
