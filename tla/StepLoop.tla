------------------------------- MODULE StepLoop -------------------------------
(***************************************************************************)
(* AgentLoop.run (src/src/harness/agent-loop.ts) with the parts it is given *)
(* to work with: PermissionChecker (permissions.ts), ToolPipeline           *)
(* (tool-pipeline.ts) over ToolExecutor (src/src/tools/executor.ts), and    *)
(* DoomLoopGuard (doom-loop-guard.ts).                                      *)
(*                                                                         *)
(* A step asks for a sequence of calls, named by their signature.  Calls    *)
(* are first sent through delegation and permission, one after the other;   *)
(* what is left runs in parallel.                                           *)
(***************************************************************************)
EXTENDS Naturals, Sequences, FiniteSets, SequencesExt, FiniteSetsExt

CONSTANTS
    Names,           \* signatures of calls
    Rule,            \* PermissionChecker.check: what the profile says of each
    Delegated,       \* those handled by the delegation contract
    MaxSteps,        \* maxSteps
    MaxPerStep,      \* bound: calls of one step
    MaxConsecutive,  \* maxConsecutiveFailures
    MaxTotal,        \* maxTotalFailures
    Window,          \* windowSize
    Threshold        \* repetitionThreshold

\* What callers configure.
StepLimits ==
    /\ Rule \in [Names -> {"allow", "deny", "ask"}] /\ Delegated \subseteq Names
    /\ MaxSteps \in Nat /\ MaxPerStep \in Nat
    /\ {MaxConsecutive, MaxTotal, Window, Threshold} \subseteq Nat \ {0}

VARIABLES
    at,        \* where run() is
    steps,     \* stepsUsed
    calls,     \* toolCalls of this step
    phase,     \* how far each of them is
    result,    \* its result
    granted,   \* calls of this step whose permission request was granted
    guard,     \* the fields of DoomLoopGuard
    aborted,   \* the signal
    reason     \* terminationReason

tools == <<calls, phase, result, granted>>
vars == <<at, steps, guard, aborted, reason, tools>>

Fresh == [consecutive |-> 0, total |-> 0, recent |-> <<>>]
Calls == DOMAIN calls

Init ==
    /\ at = "top"
    /\ steps = 0
    /\ calls = <<>> /\ phase = <<>> /\ result = <<>>
    /\ granted = {}
    /\ guard = Fresh
    /\ aborted = FALSE
    /\ reason = "none"

-----------------------------------------------------------------------------
(* DoomLoopGuard *)

\* Mutant: the window of recent calls is not trimmed.
TrackUntrimmed(g, names) == [g EXCEPT !.recent = g.recent \o names]

Track(g, names) ==
    LET all == g.recent \o names
        over == IF Len(all) > Window THEN Len(all) - Window ELSE 0
    IN  [g EXCEPT !.recent = SubSeq(all, over + 1, Len(all))]

Occurs(seq, name) == Cardinality({i \in DOMAIN seq : seq[i] = name})
IsRepeatingPattern(g) ==
    g.recent # <<>> /\ Occurs(g.recent, Last(g.recent)) >= Threshold

\* Mutant: the total of failures is not looked at.
ShouldEscalateConsecutive(g) ==
    g.consecutive >= MaxConsecutive \/ IsRepeatingPattern(g)
ShouldEscalate(g) ==
    \/ g.consecutive >= MaxConsecutive
    \/ g.total >= MaxTotal
    \/ IsRepeatingPattern(g)

\* recordFailure and recordSuccess for the results of a step, in the order of its
\* calls: failures are counted, and those since the last success.
Failures == {i \in Calls : result[i] = "error"}
InARow == {i \in Calls : i..Len(calls) \subseteq Failures}
Recorded(g) ==
    [g EXCEPT !.total = @ + Cardinality(Failures),
              !.consecutive = Cardinality(InARow) + IF InARow = Calls THEN @ ELSE 0]

-----------------------------------------------------------------------------
(* run: one step *)

Return(why) == at' = "returned" /\ reason' = why

Ends(why) ==
    /\ Return(why)
    /\ UNCHANGED <<steps, guard, aborted, tools>>

\* The head of the loop, and the check after stepFn.
SeesAbort == at \in {"top", "stepping"} /\ aborted /\ Ends("aborted")

\* stepFn is called.
StepStarts ==
    /\ at = "top" /\ ~aborted
    /\ at' = "stepping"
    /\ UNCHANGED <<steps, guard, aborted, reason, tools>>

StepFails == at = "stepping" /\ ~aborted /\ Ends("error")
StepIsText == at = "stepping" /\ ~aborted /\ Ends("text_only_response")

\* The step asks for tools: count it, tell the guard, and let them run unless the
\* steps are used up or the guard escalates.
StepCalls(names) ==
    /\ at = "stepping" /\ ~aborted
    /\ IF steps >= MaxSteps
       THEN at' = "limit" /\ UNCHANGED <<steps, guard, tools>>
       ELSE /\ steps' = steps + 1
            /\ guard' = Track(guard, names)
            /\ IF ShouldEscalate(guard')
               THEN at' = "doom" /\ UNCHANGED tools
               ELSE /\ at' = "permitting"
                    /\ calls' = names
                    /\ phase' = [i \in DOMAIN names |-> "new"]
                    /\ result' = [i \in DOMAIN names |-> "none"]
                    /\ granted' = {}
    /\ UNCHANGED <<aborted, reason>>

\* forceTextOnlyCompletion: one more stepFn without tools, whatever it answers.
Completes ==
    \/ at = "limit" /\ Ends("max_steps_reached")
    \/ at = "doom" /\ Ends("doom_loop_detected")

-----------------------------------------------------------------------------
(* executeToolCalls: delegation and permission, one call after the other *)

Answers(i, outcome) ==
    /\ phase' = [phase EXCEPT ![i] = "over"]
    /\ result' = [result EXCEPT ![i] = outcome]

\* The first call that is neither answered nor ready.
Turn(i, place) ==
    /\ at = "permitting"
    /\ i \in Calls /\ phase[i] = place
    /\ \A j \in 1..(i - 1) : phase[j] \in {"ready", "over"}

Delegate(i) ==
    /\ Turn(i, "new")
    /\ calls[i] \in Delegated
    /\ \E outcome \in {"ok", "error"} : Answers(i, outcome)
    /\ UNCHANGED <<at, steps, guard, aborted, reason, calls, granted>>

\* requestPermission: allowed, denied, or a permission_request is emitted.
RequestPermission(i) ==
    /\ Turn(i, "new")
    /\ calls[i] \notin Delegated
    /\ \/ Rule[calls[i]] = "allow" /\ phase' = [phase EXCEPT ![i] = "ready"] /\ UNCHANGED result
       \/ Rule[calls[i]] = "deny" /\ Answers(i, "error")
       \/ Rule[calls[i]] = "ask" /\ phase' = [phase EXCEPT ![i] = "asking"] /\ UNCHANGED result
    /\ UNCHANGED <<at, steps, guard, aborted, reason, calls, granted>>

\* The user answers: resolvePermission.
ResolvePermission(i, yes) ==
    /\ Turn(i, "asking")
    /\ IF yes
       THEN /\ granted' = granted \cup {i}
            /\ phase' = [phase EXCEPT ![i] = "ready"]
            /\ UNCHANGED result
       ELSE Answers(i, "error") /\ UNCHANGED granted
    /\ UNCHANGED <<at, steps, guard, aborted, reason, calls>>

-----------------------------------------------------------------------------
(* executeToolCalls: the pipeline runs what was permitted, in parallel *)

PermissionsDone ==
    /\ at = "permitting"
    /\ \A i \in Calls : phase[i] \in {"ready", "over"}
    /\ at' = "running"
    /\ UNCHANGED <<steps, guard, aborted, reason, tools>>

\* ToolPipeline.execute: throwIfAborted, tool_call_start, the before hooks.
PipelineStarts(i) ==
    /\ at = "running" /\ i \in Calls /\ phase[i] = "ready"
    /\ \/ aborted /\ Answers(i, "error")
       \/ ~aborted /\ phase' = [phase EXCEPT ![i] = "started"] /\ UNCHANGED result
    /\ UNCHANGED <<at, steps, guard, aborted, reason, calls, granted>>

\* A before hook throws.
HookThrows(i) ==
    /\ at = "running" /\ i \in Calls /\ phase[i] = "started"
    /\ Answers(i, "error")
    /\ UNCHANGED <<at, steps, guard, aborted, reason, calls, granted>>

\* ToolExecutor.execute looks at the signal again, after the hooks.
ToolExecutes(i) ==
    /\ at = "running" /\ i \in Calls /\ phase[i] = "started"
    /\ \/ aborted /\ Answers(i, "error")
       \/ ~aborted /\ phase' = [phase EXCEPT ![i] = "executing"] /\ UNCHANGED result
    /\ UNCHANGED <<at, steps, guard, aborted, reason, calls, granted>>

\* The tool returns, fails or times out; after an abort it counts as failed.
ToolSettles(i) ==
    /\ at = "running" /\ i \in Calls /\ phase[i] = "executing"
    /\ \E outcome \in {"error"} \cup IF aborted THEN {} ELSE {"ok"} : Answers(i, outcome)
    /\ UNCHANGED <<at, steps, guard, aborted, reason, calls, granted>>

\* All results are there: the guard hears of them in the order of the calls.
ResultsPushed ==
    /\ at = "running"
    /\ \A i \in Calls : phase[i] = "over"
    /\ guard' = Recorded(guard)
    /\ at' = "top"
    /\ UNCHANGED <<steps, aborted, reason, tools>>

Abort ==
    /\ ~aborted /\ at # "returned"
    /\ aborted' = TRUE
    /\ UNCHANGED <<at, steps, guard, reason, tools>>

-----------------------------------------------------------------------------
Places == 1..MaxPerStep
CallStep(i) ==
    \/ Delegate(i) \/ RequestPermission(i)
    \/ PipelineStarts(i) \/ HookThrows(i) \/ ToolExecutes(i) \/ ToolSettles(i)
LoopStep ==
    \/ SeesAbort \/ StepStarts \/ StepFails \/ StepIsText \/ Completes
    \/ \E names \in BoundedSeq(Names, MaxPerStep) : names # <<>> /\ StepCalls(names)
    \/ PermissionsDone \/ ResultsPushed
    \/ \E i \in Places : CallStep(i)

Next == LoopStep \/ (\E i \in Places, yes \in BOOLEAN : ResolvePermission(i, yes)) \/ Abort

Spec == Init /\ [][Next]_vars

\* stepFn, delegates and tools settle (the executor has a timer); users may not answer.
Fairness == WF_vars(LoopStep)
FairSpec == Spec /\ Fairness

-----------------------------------------------------------------------------
(* Properties *)

\* Types of the locals of run() and of the guard.
TypeOK ==
    /\ at \in {"top", "stepping", "limit", "doom", "permitting", "running", "returned"}
    /\ steps \in 0..MaxSteps
    /\ calls \in Seq(Names)
    /\ phase \in [Calls -> {"new", "asking", "ready", "started", "executing", "over"}]
    /\ result \in [Calls -> {"none", "ok", "error"}]
    /\ granted \subseteq Calls
    /\ guard \in [consecutive : Nat, total : Nat, recent : Seq(Names)]
    /\ Len(guard.recent) <= Window
    /\ aborted \in BOOLEAN
    /\ reason \in {"none", "aborted", "error", "text_only_response",
                   "max_steps_reached", "doom_loop_detected"}

\* A tool runs only if the profile allows it or the user granted this very call.
PermissionRespected ==
    \A i \in Calls : phase[i] = "executing" => Rule[calls[i]] = "allow" \/ i \in granted

\* The guard stops a run whose tools keep failing: it never hears of more failures
\* than its limit plus what one step can add.
FailuresBounded == guard.total < MaxTotal + MaxPerStep

\* Where run() ends up.  The only thing that can hold it for ever is an unanswered
\* permission request, which an abort does not end.
Resting == at = "returned" \/ \E i \in Calls : phase[i] = "asking"
=============================================================================
